------------------------ MODULE CanvasDocumentProofs ------------------------
(***************************************************************************)
(* Safety of the canvas client for any number of items, commands, clients  *)
(* and failures.  The properties follow from one inductive invariant,      *)
(* which says what the fibers, the serial lane, the reload and the log     *)
(* have to do with what is pending, accepted and shown.                    *)
(***************************************************************************)
EXTENDS CanvasDocument, SequenceTheorems, TLAPS

\* x stands before y in s.
Before(s, x, y) ==
  \E k, l \in DOMAIN s : k < l /\ s[k] = x /\ s[l] = y

Within(s, x) == \E k \in DOMAIN s : s[k] = x
Distinct(s) == \A k, l \in DOMAIN s : s[k] = s[l] => k = l

\* The log: a commit of this client is its fiber's, once, and changed the
\* items that the client showed as changed, to what it showed.
LogOK ==
  /\ \A k, l \in DOMAIN log : log[k].cmd = log[l].cmd => k = l
  /\ \A k \in DOMAIN log, i \in Items : log[k].doc[i].val # Absent => log[k].doc[i].rev > 0
  /\ \A k \in DOMAIN log : log[k].cmd \in Ids =>
       /\ fiber[log[k].cmd].at \notin {"idle", "queued", "sent"}
       /\ Targets(k) = Affected(log[k].cmd)
       /\ \A i \in Affected(log[k].cmd) : log[k].doc[i].val = image[log[k].cmd].after[i]

\* A removal on its way is guarded by the revision of an item that exists.
GuardsOK ==
  \A c \in Ids : fiber[c].at = "sent" =>
    \A i \in Removed(c) : fiber[c].guards[i] > 0

\* An answer on its way is a commit of the log.
AnswersOK ==
  \A c \in Ids : fiber[c].at \in {"committed", "late"} =>
    fiber[c].rev \in DOMAIN log /\ log[fiber[c].rev].cmd = c

\* A snapshot that was read is not behind what is accepted, and not behind
\* any answer that is accepted before the snapshot is installed.
SnapshotOK ==
  recovery.at = "answered" =>
    /\ recovery.rev <= Revision /\ recovery.items = Doc(recovery.rev)
    /\ accepted.rev <= recovery.rev
    /\ \A c \in Ids : fiber[c].at = "late" /\ fiber[c].gate # recovery.count =>
         fiber[c].rev <= recovery.rev

\* What is pending belongs to the current generation, was not seen, waits in
\* the lane in its order, and only the oldest of it has left for the authority.
PendingOK ==
  /\ Recovering => pending = <<>>
  /\ Distinct(pending)
  /\ \A k \in DOMAIN pending :
       /\ fiber[pending[k]].at \in {"queued", "sent", "committed", "refused"}
       /\ fiber[pending[k]].at # "queued" => k = 1
       /\ fiber[pending[k]].gen = generation
       /\ pending[k] \notin seen
       /\ fiber[pending[k]].at = "committed" => accepted.rev < fiber[pending[k]].rev

LaneOK ==
  /\ Distinct(lane)
  /\ \A c \in Ids : Within(lane, c) <=> fiber[c].at \notin {"idle", "done"}
  /\ \A c, d \in Ids : Before(pending, c, d) => Before(lane, c, d)

SeenOK == \A c \in seen : \E k \in DOMAIN log : log[k].cmd = c

\* Item by item: what is shown is what is accepted, or what the last pending
\* mutation of the item made of it.
Plain(i) ==
  /\ \A k \in DOMAIN pending : i \notin Affected(pending[k])
  /\ shown[i] = accepted.items[i].val

Touched(i, k) ==
  /\ i \in Affected(pending[k]) /\ shown[i] = image[pending[k]].after[i]
  /\ \A l \in DOMAIN pending : i \in Affected(pending[l]) => l <= k

ShownOK ==
  ~Recovering => \A i \in Items : Plain(i) \/ \E k \in DOMAIN pending : Touched(i, k)

\* A stack of changes, each from was[k] to now[k]: an item is now as the last
\* change of it left it, and was before each change as the one below left it.
Linked(n, was, now, doc) ==
  /\ \A k \in 1 .. n : DOMAIN was[k] = DOMAIN now[k]
  /\ \A k, l \in 1 .. n : k < l =>
       \A i \in DOMAIN now[k] \cap DOMAIN was[l] :
         (\A m \in 1 .. n : k < m /\ m < l => i \notin DOMAIN was[m]) => was[l][i] = now[k][i]
  /\ \A k \in 1 .. n : \A i \in DOMAIN now[k] :
       (\A m \in 1 .. n : k < m => i \notin DOMAIN was[m]) => doc[i] = now[k][i]

Befores(stack) == [k \in DOMAIN stack |-> stack[k].before]
Afters(stack) == [k \in DOMAIN stack |-> stack[k].after]

HistoryOK ==
  /\ Recovering => undo = <<>> /\ redo = <<>>
  /\ Linked(Len(undo), Befores(undo), Afters(undo), shown)
  /\ Linked(Len(redo), Afters(redo), Befores(redo), shown)

IInv ==
  /\ TypeOK /\ LogOK /\ GuardsOK /\ AnswersOK
  /\ AcceptedIsCommitted /\ SnapshotOK /\ stream.cursor <= Revision
  /\ PendingOK /\ LaneOK /\ SeenOK /\ ShownOK /\ HistoryOK

-----------------------------------------------------------------------------
(***************************************************************************)
(* Sequences without duplicates.                                           *)
(***************************************************************************)
LEMMA RemoveAtFields ==
  ASSUME NEW S, NEW s \in Seq(S), NEW p \in DOMAIN s
  PROVE  /\ RemoveAt(s, p) \in Seq(S) /\ Len(RemoveAt(s, p)) = Len(s) - 1
         /\ \A k \in 1 .. Len(s) - 1 : RemoveAt(s, p)[k] = IF k < p THEN s[k] ELSE s[k + 1]
<1> DEFINE front == SubSeq(s, 1, p - 1)
           back == SubSeq(s, p + 1, Len(s))
<1>1. Len(s) \in Nat /\ DOMAIN s = 1 .. Len(s) /\ p \in 1 .. Len(s)
  BY LenProperties
<1>2. \A k \in 1 .. Len(s) : s[k] \in S
  BY ElementOfSeq
<1>3. /\ front \in Seq(S) /\ Len(front) = p - 1
      /\ \A k \in 1 .. p - 1 : front[k] = s[k]
  <2>1. \A i \in 1 .. p - 1 : s[i] \in S
    BY <1>1, <1>2
  <2>2. 1 \in Int /\ p - 1 \in Int
    BY <1>1
  <2>3. /\ front \in Seq(S)
        /\ Len(front) = IF 1 <= p - 1 THEN p - 1 - 1 + 1 ELSE 0
        /\ \A i \in 1 .. p - 1 - 1 + 1 : front[i] = s[1 + i - 1]
    BY <2>1, <2>2, SubSeqProperties
  <2>4. \A i \in 1 .. p - 1 : i \in 1 .. p - 1 - 1 + 1 /\ 1 + i - 1 = i
    BY <1>1
  <2> HIDE DEF front
  <2> QED
    BY <1>1, <2>3, <2>4
<1>4. /\ back \in Seq(S) /\ Len(back) = Len(s) - p
      /\ \A k \in 1 .. Len(s) - p : back[k] = s[k + p]
  <2>1. \A i \in p + 1 .. Len(s) : s[i] \in S
    BY <1>1, <1>2
  <2>2. p + 1 \in Int /\ Len(s) \in Int
    BY <1>1
  <2>3. /\ back \in Seq(S)
        /\ Len(back) = IF p + 1 <= Len(s) THEN Len(s) - (p + 1) + 1 ELSE 0
        /\ \A i \in 1 .. Len(s) - (p + 1) + 1 : back[i] = s[p + 1 + i - 1]
    BY <2>1, <2>2, SubSeqProperties
  <2>4. \A i \in 1 .. Len(s) - p : i \in 1 .. Len(s) - (p + 1) + 1 /\ p + 1 + i - 1 = i + p
    BY <1>1
  <2> HIDE DEF back
  <2> QED
    BY <1>1, <2>3, <2>4, SMTT(30)
<1>5. RemoveAt(s, p) = front \o back
  BY DEF RemoveAt
<1> HIDE DEF front, back
<1> DEFINE both == front \o back
<1>6. /\ both \in Seq(S) /\ Len(both) = Len(front) + Len(back)
      /\ \A k \in 1 .. Len(front) + Len(back) :
           both[k] = IF k <= Len(front) THEN front[k] ELSE back[k - Len(front)]
  BY <1>3, <1>4, ConcatProperties
<1>7. Len(front) + Len(back) = Len(s) - 1
  BY <1>1, <1>3, <1>4
<1> HIDE DEF both
<1>8. ASSUME NEW k \in 1 .. Len(s) - 1
      PROVE  both[k] = IF k < p THEN s[k] ELSE s[k + 1]
  <2>1. k \in Int /\ p \in Int /\ Len(s) \in Int
    BY <1>1
  <2>2. CASE k < p
    BY <1>1, <1>3, <1>6, <1>7, <2>1, <2>2
  <2>3. CASE ~(k < p)
    <3> DEFINE j == k - (p - 1)
    <3>1. j \in 1 .. Len(s) - p /\ j + p = k + 1 /\ ~(k <= p - 1)
      BY <1>1, <2>1, <2>3
    <3>2. both[k] = back[j]
      BY <1>3, <1>6, <1>7, <3>1
    <3>3. back[j] = s[j + p]
      BY <1>4, <3>1
    <3> HIDE DEF j
    <3> QED
      BY <2>3, <3>1, <3>2, <3>3
  <2> QED
    BY <2>2, <2>3
<1> QED
  BY <1>5, <1>6, <1>7, <1>8 DEF both

LEMMA RemoveFirstIsRemoveAt ==
  ASSUME NEW S, NEW s \in Seq(S), Distinct(s), NEW c
  PROVE  /\ ~Within(s, c) => RemoveFirst(s, c) = s
         /\ \A p \in DOMAIN s : s[p] = c => RemoveFirst(s, c) = RemoveAt(s, p)
<1>1. Len(s) \in Nat /\ DOMAIN s = 1 .. Len(s)
  BY LenProperties
<1>2. ~Within(s, c) => RemoveFirst(s, c) = s
  BY <1>1 DEF RemoveFirst, Within
<1>3. ASSUME NEW p \in DOMAIN s, s[p] = c PROVE RemoveFirst(s, c) = RemoveAt(s, p)
  <2>1. {i \in 1 .. Len(s) : s[i] = c} = {p}
    BY <1>1, <1>3 DEF Distinct
  <2>2. (CHOOSE x \in {p} : \A y \in {p} : x =< y) = p
    BY <1>1
  <2>3. RemoveFirst(s, c) = RemoveAt(s, CHOOSE x \in {p} : \A y \in {p} : x =< y)
    BY <1>1, <1>3, <2>1 DEF RemoveFirst, SelectInSeq, Min
  <2> QED
    BY <2>2, <2>3
<1> QED
  BY <1>2, <1>3

LEMMA RemoveFirstKeeps ==
  ASSUME NEW S, NEW s \in Seq(S), Distinct(s), NEW c
  PROVE  /\ RemoveFirst(s, c) \in Seq(S) /\ Distinct(RemoveFirst(s, c))
         /\ \A x : Within(RemoveFirst(s, c), x) <=> Within(s, x) /\ x # c
         /\ \A x, y : Before(RemoveFirst(s, c), x, y) <=> Before(s, x, y) /\ x # c /\ y # c
<1>1. Len(s) \in Nat /\ DOMAIN s = 1 .. Len(s)
  BY LenProperties
<1>2. CASE ~Within(s, c)
  <2>1. RemoveFirst(s, c) = s
    BY <1>2, RemoveFirstIsRemoveAt
  <2> QED
    BY <1>2, <2>1 DEF Within, Before
<1>3. ASSUME NEW p \in DOMAIN s, s[p] = c
      PROVE  /\ RemoveFirst(s, c) \in Seq(S) /\ Distinct(RemoveFirst(s, c))
             /\ \A x : Within(RemoveFirst(s, c), x) <=> Within(s, x) /\ x # c
             /\ \A x, y : Before(RemoveFirst(s, c), x, y) <=> Before(s, x, y) /\ x # c /\ y # c
  <2> DEFINE r == RemoveFirst(s, c)
             old(k) == IF k < p THEN k ELSE k + 1
             new(k) == IF k < p THEN k ELSE k - 1
  <2>1. r = RemoveAt(s, p)
    BY <1>3, RemoveFirstIsRemoveAt
  <2>2. /\ r \in Seq(S) /\ Len(r) = Len(s) - 1
        /\ \A k \in 1 .. Len(s) - 1 : r[k] = IF k < p THEN s[k] ELSE s[k + 1]
    BY <2>1, RemoveAtFields
  <2> HIDE DEF r
  <2>3. DOMAIN r = 1 .. Len(s) - 1
    BY <2>2, LenProperties
  <2>4. \A k \in DOMAIN r : old(k) \in DOMAIN s /\ old(k) # p /\ r[k] = s[old(k)] /\ s[old(k)] # c
    BY <1>1, <1>3, <2>2, <2>3 DEF Distinct
  <2>5. \A k \in DOMAIN s : k # p => new(k) \in DOMAIN r /\ r[new(k)] = s[k] /\ s[k] # c
    BY <1>1, <1>3, <2>2, <2>3 DEF Distinct
  <2>6. \A k, l \in DOMAIN r : k < l <=> old(k) < old(l)
    BY <1>1, <2>3
  <2>7. \A k, l \in DOMAIN s : k # p /\ l # p => (k < l <=> new(k) < new(l))
    BY <1>1
  <2>8. \A k, l \in DOMAIN r : old(k) = old(l) => k = l
    BY <1>1, <2>3
  <2> HIDE DEF old, new
  <2>9. Distinct(r)
    BY <2>4, <2>8 DEF Distinct
  <2>10. \A x : Within(r, x) <=> Within(s, x) /\ x # c
    BY <1>3, <2>4, <2>5 DEF Within
  <2>11. \A x, y : Before(r, x, y) => Before(s, x, y) /\ x # c /\ y # c
    BY <2>4, <2>6 DEF Before
  <2>12. \A x, y : Before(s, x, y) /\ x # c /\ y # c => Before(r, x, y)
    BY <1>3, <2>5, <2>7 DEF Before
  <2> QED
    BY <2>2, <2>9, <2>10, <2>11, <2>12 DEF r
<1> QED
  BY <1>2, <1>3 DEF Within

LEMMA RemoveHead ==
  ASSUME NEW S, NEW s \in Seq(S), Distinct(s), 1 \in DOMAIN s, NEW r, r = RemoveFirst(s, s[1])
  PROVE  /\ r \in Seq(S) /\ Len(r) = Len(s) - 1 /\ DOMAIN r = 1 .. Len(s) - 1
         /\ \A k \in DOMAIN r : k + 1 \in DOMAIN s /\ r[k] = s[k + 1]
<1>1. Len(s) \in Nat /\ DOMAIN s = 1 .. Len(s)
  BY LenProperties
<1>2. r = RemoveAt(s, 1)
  BY RemoveFirstIsRemoveAt
<1>3. /\ r \in Seq(S) /\ Len(r) = Len(s) - 1
      /\ \A k \in 1 .. Len(s) - 1 : r[k] = IF k < 1 THEN s[k] ELSE s[k + 1]
  BY <1>2, RemoveAtFields
<1>4. DOMAIN r = 1 .. Len(s) - 1
  BY <1>3, LenProperties
<1>5. \A k \in 1 .. Len(s) - 1 : k + 1 \in DOMAIN s /\ ~(k < 1)
  BY <1>1
<1>6. \A k \in DOMAIN r : k + 1 \in DOMAIN s /\ r[k] = s[k + 1]
  BY <1>3, <1>4, <1>5
<1> QED
  BY <1>3, <1>4, <1>6

LEMMA AppendKeeps ==
  ASSUME NEW S, NEW s \in Seq(S), Distinct(s), NEW c \in S, ~Within(s, c)
  PROVE  /\ Append(s, c) \in Seq(S) /\ Distinct(Append(s, c))
         /\ \A x : Within(Append(s, c), x) <=> Within(s, x) \/ x = c
         /\ \A x, y : Before(Append(s, c), x, y) <=> Before(s, x, y) \/ (Within(s, x) /\ y = c)
<1> DEFINE t == Append(s, c)
<1>1. /\ Len(s) \in Nat /\ DOMAIN s = 1 .. Len(s)
      /\ t \in Seq(S) /\ Len(t) = Len(s) + 1
      /\ \A i \in 1 .. Len(s) : t[i] = s[i]
      /\ t[Len(s) + 1] = c
  BY LenProperties, AppendProperties
<1>2. DOMAIN t = 1 .. Len(s) + 1
  BY <1>1, LenProperties
<1> HIDE DEF t
<1>3. \A k \in DOMAIN t : k \in DOMAIN s \/ k = Len(s) + 1
  BY <1>1, <1>2
<1>4. \A k \in DOMAIN s : k \in DOMAIN t /\ k < Len(s) + 1 /\ ~(Len(s) + 1 < k) /\ t[k] = s[k] /\ s[k] # c
  BY <1>1, <1>2 DEF Within
<1>5. Len(s) + 1 \in DOMAIN t /\ ~(Len(s) + 1 < Len(s) + 1)
  BY <1>1, <1>2
<1>6. Distinct(t)
  BY <1>1, <1>3, <1>4 DEF Distinct
<1>7. \A x : Within(t, x) <=> Within(s, x) \/ x = c
  BY <1>1, <1>3, <1>4, <1>5 DEF Within
<1>8. \A x, y : Before(t, x, y) => Before(s, x, y) \/ (Within(s, x) /\ y = c)
  BY <1>1, <1>3, <1>4, <1>5 DEF Before, Within
<1>9. \A x, y : Before(s, x, y) \/ (Within(s, x) /\ y = c) => Before(t, x, y)
  BY <1>1, <1>4, <1>5 DEF Before, Within
<1> QED
  BY <1>1, <1>6, <1>7, <1>8, <1>9 DEF t

-----------------------------------------------------------------------------
(***************************************************************************)
(* Documents, images and entries.                                          *)
(***************************************************************************)
LEMMA NoRowType == NoRow \in Row /\ NoRow.val = Absent /\ NoRow.rev = 0 /\ Absent \in Values
BY DEF NoRow, Row, Values

LEMMA LogType ==
  ASSUME TypeOK
  PROVE  /\ Revision \in Nat /\ DOMAIN log = 1 .. Revision
         /\ \A k \in DOMAIN log : log[k].cmd \in Ids \cup RemoteIds /\ log[k].doc \in [Items -> Row]
<1>1. log \in Seq([cmd : Ids \cup RemoteIds, doc : [Items -> Row]])
  BY DEF TypeOK
<1>2. Revision \in Nat /\ DOMAIN log = 1 .. Revision
  BY <1>1, LenProperties DEF Revision
<1>3. \A k \in DOMAIN log : log[k] \in [cmd : Ids \cup RemoteIds, doc : [Items -> Row]]
  BY <1>1, <1>2, ElementOfSeq DEF Revision
<1> QED
  BY <1>2, <1>3

LEMMA DocType ==
  ASSUME TypeOK, NEW r \in 0 .. Revision PROVE Doc(r) \in [Items -> Row]
<1>1. CASE r = 0
  BY <1>1, NoRowType DEF Doc
<1>2. CASE r # 0
  <2>1. r \in DOMAIN log
    BY <1>2, LogType
  <2> QED
    BY <1>2, <2>1, LogType DEF Doc
<1> QED
  BY <1>1, <1>2

LEMMA AfterType ==
  ASSUME NEW doc \in [Items -> Row], NEW S \in SUBSET Items, NEW new \in [S -> Values]
  PROVE  /\ After(doc, new) \in [Items -> Row]
         /\ \A i \in Items \ S : After(doc, new)[i] = doc[i]
         /\ \A i \in S : /\ new[i] = Absent => After(doc, new)[i] = NoRow
                         /\ new[i] # Absent => /\ After(doc, new)[i].rev = doc[i].rev + 1
                                               /\ After(doc, new)[i].rev > 0
                         /\ After(doc, new)[i].val = new[i]
<1> DEFINE row(i) == IF i \notin S THEN doc[i]
                     ELSE IF new[i] = Absent THEN NoRow
                     ELSE [val |-> new[i], rev |-> doc[i].rev + 1]
<1>1. \A i \in Items : doc[i] \in Row /\ doc[i].rev \in Nat
  BY DEF Row
<1>2. \A i \in S : new[i] \in Values
  OBVIOUS
<1>3. \A i \in Items : row(i) \in Row
  BY <1>1, <1>2, NoRowType DEF Row
<1>4. After(doc, new) = [i \in Items |-> row(i)]
  BY DEF After
<1>5. \A i \in S : new[i] # Absent => row(i).val = new[i] /\ row(i).rev = doc[i].rev + 1 /\ row(i).rev > 0
  BY <1>1
<1>6. \A i \in S : new[i] = Absent => row(i) = NoRow /\ row(i).val = new[i]
  BY NoRowType
<1>7. \A i \in Items \ S : row(i) = doc[i]
  OBVIOUS
<1> HIDE DEF row
<1> QED
  BY <1>3, <1>4, <1>5, <1>6, <1>7

LEMMA ImageType ==
  ASSUME NEW S \in SUBSET Items, NEW e \in [S -> {"set", "remove"}], NEW c \in Ids \cup RemoteIds
  PROVE  /\ Image(e, c) \in [S -> Values]
         /\ \A i \in S : Image(e, c)[i] = Absent <=> e[i] = "remove"
BY NameAssumption DEF Image, Values

LEMMA ImagesIn ==
  ASSUME NEW x, NEW S \in SUBSET Items, x \in [S -> Values] PROVE x \in Images
BY DEF Images

LEMMA ImagesOut ==
  ASSUME NEW x \in Images
  PROVE  DOMAIN x \in SUBSET Items /\ x \in [DOMAIN x -> Values]
BY DEF Images

LEMMA EditDomain ==
  /\ \A e \in Edits : DOMAIN e \in SUBSET Items
  /\ \A e \in Edits, c \in Ids : Image(e, c) \in [DOMAIN e -> Values] /\ DOMAIN Image(e, c) = DOMAIN e
  /\ \A r \in RemoteIds : Image(RemoteEdit[r], r) \in [DOMAIN RemoteEdit[r] -> Values]
<1>1. \A e \in Edits : DOMAIN e \in SUBSET Items
  BY EditAssumption
<1>2. \A e \in Edits, c \in Ids : Image(e, c) \in [DOMAIN e -> Values]
  BY DEF Image, Values
<1>3. \A e \in Edits, c \in Ids : DOMAIN Image(e, c) = DOMAIN e
  BY DEF Image
<1>4. \A r \in RemoteIds : Image(RemoteEdit[r], r) \in [DOMAIN RemoteEdit[r] -> Values]
  BY DEF Image, Values
<1> QED
  BY <1>1, <1>2, <1>3, <1>4

-----------------------------------------------------------------------------
(***************************************************************************)
(* Types.                                                                  *)
(***************************************************************************)
RecoveryType == [at : {"no", "asked", "answered"}, count : Nat, rev : Nat, items : [Items -> Row]]

HistoryType(u, r) == u \in Seq(Entry) /\ r \in Seq(Entry) /\ Len(u) + Len(r) <= Capacity

LEMMA EmptyHistory == HistoryType(<<>>, <<>>)
BY EmptySeq, BoundAssumption DEF HistoryType

\* What scheduleRecovery leaves behind, whether it starts a recovery or finds one.
LEMMA RecoverStep ==
  ASSUME TypeOK, Recovering => pending = <<>> /\ undo = <<>> /\ redo = <<>>, Recover
  PROVE  /\ pending' = <<>> /\ undo' = <<>> /\ redo' = <<>>
         /\ Recovering' /\ generation' \in Nat /\ recovery' \in RecoveryType
         /\ Recovering => recovery' = recovery /\ generation' = generation
         /\ ~Recovering => /\ recovery'.at = "asked" /\ recovery'.count = recovery.count + 1
                           /\ generation' = generation + 1
<1>1. recovery \in RecoveryType /\ generation \in Nat
  BY DEF TypeOK, RecoveryType
<1>2. CASE Recovering
  BY <1>1, <1>2 DEF Recover, Recovering
<1>3. CASE ~Recovering
  <2>1. recovery.count + 1 \in Nat
    BY <1>1 DEF RecoveryType
  <2>2. /\ recovery' = [recovery EXCEPT !.at = "asked", !.count = recovery.count + 1]
        /\ generation' = generation + 1 /\ pending' = <<>> /\ undo' = <<>> /\ redo' = <<>>
    BY <1>3 DEF Recover
  <2>3. recovery' \in RecoveryType /\ recovery'.at = "asked" /\ recovery'.count = recovery.count + 1
    BY <1>1, <2>1, <2>2 DEF RecoveryType
  <2> QED
    BY <1>1, <1>3, <2>2, <2>3 DEF Recovering
<1> QED
  BY <1>2, <1>3

\* The three things acceptEvent may do.
LEMMA TakeStep ==
  ASSUME TypeOK, NEW r \in DOMAIN log, NEW mine, Take(r, mine)
  PROVE  /\ UNCHANGED <<log, image, faults>>
         /\ \/ Throws(r, mine) /\ Recover /\ UNCHANGED <<accepted, seen, shown>>
            \/ /\ ~Throws(r, mine) /\ Stale(r) /\ ~(mine # None /\ IsPending(mine))
               /\ UNCHANGED <<accepted, seen, shown, pending, undo, redo, generation, recovery>>
            \/ ~Throws(r, mine) /\ r = accepted.rev + 1 /\ Fits(r, mine) /\ Install(r)
<1>1. CASE Throws(r, mine)
  BY <1>1 DEF Take
<1>2. CASE ~Throws(r, mine) /\ Stale(r)
  BY <1>2 DEF Take, Throws
<1>3. CASE ~Throws(r, mine) /\ ~Stale(r)
  BY <1>3 DEF Take, Throws, Fits
<1> QED
  BY <1>1, <1>2, <1>3

AcceptedType == [rev : Nat, items : [Items -> Row]]

LEMMA TypeParts ==
  TypeOK <=> /\ log \in Seq([cmd : Ids \cup RemoteIds, doc : [Items -> Row]])
             /\ accepted \in AcceptedType /\ seen \subseteq Ids \cup RemoteIds
             /\ shown \in [Items -> Values] /\ pending \in Seq(Ids) /\ image \in [Ids -> Entry]
             /\ HistoryType(undo, redo) /\ generation \in Nat /\ recovery \in RecoveryType
             /\ fiber \in [Ids -> Fiber] /\ lane \in Seq(Ids)
             /\ stream \in [open : BOOLEAN, cursor : Nat] /\ faults \in Nat
BY DEF TypeOK, AcceptedType, HistoryType, RecoveryType

LEMMA TypePartsNext ==
  /\ log' \in Seq([cmd : Ids \cup RemoteIds, doc : [Items -> Row]])
  /\ accepted' \in AcceptedType /\ seen' \subseteq Ids \cup RemoteIds
  /\ shown' \in [Items -> Values] /\ pending' \in Seq(Ids) /\ image' \in [Ids -> Entry]
  /\ HistoryType(undo', redo') /\ generation' \in Nat /\ recovery' \in RecoveryType
  /\ fiber' \in [Ids -> Fiber] /\ lane' \in Seq(Ids)
  /\ stream' \in [open : BOOLEAN, cursor : Nat] /\ faults' \in Nat
  => TypeOK'
BY DEF TypeOK, AcceptedType, HistoryType, RecoveryType

LEMMA InstallType ==
  ASSUME IInv, NEW r \in DOMAIN log, Install(r)
  PROVE  /\ accepted' \in AcceptedType /\ seen' \subseteq Ids \cup RemoteIds
         /\ shown' \in [Items -> Values] /\ pending' \in Seq(Ids)
         /\ HistoryType(undo', redo') /\ generation' \in Nat /\ recovery' \in RecoveryType
<1>1. TypeOK /\ Distinct(pending)
  BY DEF IInv, PendingOK
<1>2. r \in Nat /\ Doc(r) \in [Items -> Row] /\ log[r].cmd \in Ids \cup RemoteIds
  <2>1. r \in 0 .. Revision
    BY <1>1, LogType
  <2> QED
    BY <1>1, <2>1, DocType, LogType
<1>3. accepted' \in AcceptedType
  BY <1>1, <1>2 DEF Install, AcceptedType, TypeOK
<1>4. shown' \in [Items -> Values]
  BY <1>1, <1>2 DEF Install, TypeOK, Row
<1>5. pending' \in Seq(Ids)
  BY <1>1, RemoveFirstKeeps DEF Install, Retires, TypeOK
<1>6. HistoryType(undo', redo')
  <2>1. CASE Forgets(r)
    BY <2>1, EmptyHistory DEF Install
  <2>2. CASE ~Forgets(r)
    BY <1>1, <2>2, TypeParts DEF Install
  <2> QED
    BY <2>1, <2>2
<1>7. seen' \subseteq Ids \cup RemoteIds /\ generation' \in Nat /\ recovery' \in RecoveryType
  BY <1>1, <1>2, TypeParts DEF Install
<1> QED
  BY <1>3, <1>4, <1>5, <1>6, <1>7

LEMMA RecoverType ==
  ASSUME IInv, Recover
  PROVE  /\ pending' = <<>> /\ undo' = <<>> /\ redo' = <<>>
         /\ pending' \in Seq(Ids) /\ HistoryType(undo', redo')
         /\ Recovering' /\ generation' \in Nat /\ recovery' \in RecoveryType
         /\ Recovering => recovery' = recovery /\ generation' = generation
         /\ ~Recovering => /\ recovery'.at = "asked" /\ recovery'.count = recovery.count + 1
                           /\ generation' = generation + 1
<1>1. /\ pending' = <<>> /\ undo' = <<>> /\ redo' = <<>>
      /\ Recovering' /\ generation' \in Nat /\ recovery' \in RecoveryType
      /\ Recovering => recovery' = recovery /\ generation' = generation
      /\ ~Recovering => /\ recovery'.at = "asked" /\ recovery'.count = recovery.count + 1
                        /\ generation' = generation + 1
  BY RecoverStep DEF IInv, PendingOK, HistoryOK
<1> QED
  BY <1>1, EmptyHistory, EmptySeq

LEMMA TakeType ==
  ASSUME IInv, NEW r \in DOMAIN log, NEW mine, Take(r, mine)
  PROVE  /\ UNCHANGED <<log, image, faults>>
         /\ accepted' \in AcceptedType /\ seen' \subseteq Ids \cup RemoteIds
         /\ shown' \in [Items -> Values] /\ pending' \in Seq(Ids)
         /\ HistoryType(undo', redo') /\ generation' \in Nat /\ recovery' \in RecoveryType
<1>1. TypeOK
  BY DEF IInv
<1>2. UNCHANGED <<log, image, faults>>
  BY <1>1, TakeStep
<1>3. CASE Recover /\ UNCHANGED <<accepted, seen, shown>>
  BY <1>1, <1>2, <1>3, RecoverType, TypeParts
<1>4. CASE UNCHANGED <<accepted, seen, shown, pending, undo, redo, generation, recovery>>
  BY <1>1, <1>2, <1>4, TypeParts
<1>5. CASE Install(r)
  BY <1>1, <1>2, <1>5, InstallType
<1> QED
  BY <1>1, <1>3, <1>4, <1>5, TakeStep

Stages == {"idle", "queued", "sent", "committed", "refused", "late", "failed", "done"}

LEMMA PutStep ==
  ASSUME IInv, NEW c \in Ids, NEW at \in Stages, Put(c, at)
  PROVE  /\ fiber' \in [Ids -> Fiber]
         /\ \A d \in Ids : d # c => fiber'[d] = fiber[d]
         /\ fiber'[c].at = at /\ fiber'[c].gen = fiber[c].gen /\ fiber'[c].rev = fiber[c].rev
         /\ fiber'[c].gate = fiber[c].gate /\ fiber'[c].guards = fiber[c].guards
<1>1. fiber \in [Ids -> Fiber] /\ fiber[c] \in Fiber
  BY DEF IInv, TypeOK
<1>2. fiber' = [fiber EXCEPT ![c].at = at]
  BY DEF Put
<1> QED
  BY <1>1, <1>2 DEF Fiber, Stages

LEMMA GateStep ==
  ASSUME IInv, NEW c \in Ids, NEW at \in Stages, NEW n \in Nat,
         fiber' = [fiber EXCEPT ![c].at = at, ![c].gate = n]
  PROVE  /\ fiber' \in [Ids -> Fiber]
         /\ \A d \in Ids : d # c => fiber'[d] = fiber[d]
         /\ fiber'[c].at = at /\ fiber'[c].gen = fiber[c].gen /\ fiber'[c].rev = fiber[c].rev
         /\ fiber'[c].gate = n /\ fiber'[c].guards = fiber[c].guards
<1>1. fiber \in [Ids -> Fiber] /\ fiber[c] \in Fiber
  BY DEF IInv, TypeOK
<1> QED
  BY <1>1 DEF Fiber, Stages

\* An operation that ends leaves the lane; one that fails stays in it.
LEMMA EndStep ==
  ASSUME IInv, NEW c \in Ids, End(c)
  PROVE  /\ fiber' \in [Ids -> Fiber] /\ lane' \in Seq(Ids)
         /\ \A d \in Ids : d # c => fiber'[d] = fiber[d]
         /\ fiber'[c].at = "done" /\ fiber'[c].gen = fiber[c].gen /\ fiber'[c].rev = fiber[c].rev
         /\ Distinct(lane')
         /\ \A d : Within(lane', d) <=> Within(lane, d) /\ d # c
         /\ \A d, e : Before(lane', d, e) <=> Before(lane, d, e) /\ d # c /\ e # c
<1>1. lane \in Seq(Ids) /\ Distinct(lane) /\ lane' = RemoveFirst(lane, c)
  BY DEF IInv, TypeOK, LaneOK, End
<1>2. /\ fiber' \in [Ids -> Fiber]
      /\ \A d \in Ids : d # c => fiber'[d] = fiber[d]
      /\ fiber'[c].at = "done" /\ fiber'[c].gen = fiber[c].gen /\ fiber'[c].rev = fiber[c].rev
  <2>1. Put(c, "done") /\ "done" \in Stages
    BY DEF End, Stages
  <2> QED
    BY <2>1, PutStep
<1> QED
  BY <1>1, <1>2, RemoveFirstKeeps

LEMMA FailStep ==
  ASSUME IInv, NEW c \in Ids, Fail(c), recovery' \in RecoveryType
  PROVE  /\ fiber' \in [Ids -> Fiber] /\ lane' = lane
         /\ \A d \in Ids : d # c => fiber'[d] = fiber[d]
         /\ fiber'[c].at = "failed" /\ fiber'[c].gen = fiber[c].gen /\ fiber'[c].rev = fiber[c].rev
<1>1. recovery'.count \in Nat /\ "failed" \in Stages
  BY DEF RecoveryType, Stages
<1>2. fiber' = [fiber EXCEPT ![c].at = "failed", ![c].gate = recovery'.count] /\ lane' = lane
  BY DEF Fail
<1> QED
  BY <1>1, <1>2, GateStep

LEMMA FrontFields ==
  ASSUME NEW S, NEW s \in Seq(S), s # <<>>
  PROVE  /\ Len(s) \in Nat /\ Len(s) > 0 /\ s[Len(s)] \in S
         /\ SubSeq(s, 1, Len(s) - 1) \in Seq(S)
         /\ Len(SubSeq(s, 1, Len(s) - 1)) = Len(s) - 1
         /\ \A k \in 1 .. Len(s) - 1 : SubSeq(s, 1, Len(s) - 1)[k] = s[k]
<1>1. Len(s) \in Nat /\ Len(s) > 0 /\ Len(s) \in 1 .. Len(s)
  BY EmptySeq, LenProperties
<1>2. \A k \in 1 .. Len(s) : s[k] \in S
  BY ElementOfSeq
<1>3. \A i \in 1 .. Len(s) - 1 : s[i] \in S
  BY <1>1, <1>2
<1> DEFINE front == SubSeq(s, 1, Len(s) - 1)
<1>4. /\ front \in Seq(S)
      /\ Len(front) = IF 1 <= Len(s) - 1 THEN Len(s) - 1 - 1 + 1 ELSE 0
      /\ \A i \in 1 .. Len(s) - 1 - 1 + 1 : front[i] = s[1 + i - 1]
  <2>1. 1 \in Int /\ Len(s) - 1 \in Int
    BY <1>1
  <2> QED
    BY <1>3, <2>1, SubSeqProperties
<1> HIDE DEF front
<1>5. Len(front) = Len(s) - 1
  <2>1. CASE Len(s) = 1
    BY <1>4, <2>1
  <2>2. CASE Len(s) > 1
    BY <1>1, <1>4, <2>2
  <2> DEFINE n == Len(s)
  <2>3. n \in Nat /\ n > 0
    BY <1>1
  <2> HIDE DEF n
  <2>4. n = 1 \/ n > 1
    BY <2>3
  <2> QED
    BY <2>1, <2>2, <2>4 DEF n
<1>6. ASSUME NEW k \in 1 .. Len(s) - 1 PROVE front[k] = s[k]
  <2>1. k \in 1 .. Len(s) - 1 - 1 + 1 /\ 1 + k - 1 = k
    BY <1>1
  <2> QED
    BY <1>4, <2>1
<1> QED
  BY <1>1, <1>2, <1>4, <1>5, <1>6 DEF front

\* The history after a mutation is recorded: an entry more, or the oldest less.
LEMMA RecordStep ==
  ASSUME HistoryType(undo, redo), NEW entry \in Entry, Record(entry)
  PROVE  /\ HistoryType(undo', redo') /\ redo' = <<>>
         /\ \/ undo' = Append(undo, entry)
            \/ undo' = Tail(Append(undo, entry))
<1>1. undo \in Seq(Entry) /\ redo \in Seq(Entry) /\ Len(undo) \in Nat /\ Len(redo) \in Nat
      /\ Len(undo) + Len(redo) <= Capacity /\ Capacity \in Nat
  BY LenProperties, BoundAssumption DEF HistoryType
<1> DEFINE longer == Append(undo, entry)
<1>2. longer \in Seq(Entry) /\ Len(longer) = Len(undo) + 1 /\ longer # <<>>
  BY <1>1, AppendProperties
<1>3. Tail(longer) \in Seq(Entry) /\ Len(Tail(longer)) = Len(undo)
  <2> HIDE DEF longer
  <2>1. Tail(longer) \in Seq(Entry) /\ Len(Tail(longer)) = Len(longer) - 1
    BY <1>2, HeadTailProperties
  <2> QED
    BY <1>1, <1>2, <2>1
<1>4. undo' = (IF Len(longer) > Capacity THEN Tail(longer) ELSE longer) /\ redo' = <<>>
  BY DEF Record
<1> HIDE DEF longer
<1>5. <<>> \in Seq(Entry) /\ Len(<<>>) = 0
  BY EmptySeq
<1>6. CASE Len(longer) > Capacity
  <2>1. undo' = Tail(longer) /\ redo' = <<>>
    BY <1>4, <1>6
  <2>2. Len(Tail(longer)) + 0 <= Capacity
    BY <1>1, <1>3
  <2> QED
    BY <1>3, <1>5, <2>1, <2>2 DEF HistoryType, longer
<1>7. CASE ~(Len(longer) > Capacity)
  <2>1. undo' = longer /\ redo' = <<>>
    BY <1>4, <1>7
  <2>2. Len(longer) + 0 <= Capacity
    BY <1>1, <1>2, <1>7
  <2> QED
    BY <1>2, <1>5, <2>1, <2>2 DEF HistoryType, longer
<1> QED
  BY <1>6, <1>7

\* An entry moves from the top of one stack to the top of the other.
LEMMA MoveKeepsType ==
  ASSUME NEW from \in Seq(Entry), NEW to \in Seq(Entry), from # <<>>,
         Len(from) + Len(to) <= Capacity
  PROVE  LET front == SubSeq(from, 1, Len(from) - 1)  longer == Append(to, from[Len(from)]) IN
           /\ front \in Seq(Entry) /\ longer \in Seq(Entry)
           /\ Len(front) + Len(longer) <= Capacity /\ Len(longer) + Len(front) <= Capacity
<1> DEFINE front == SubSeq(from, 1, Len(from) - 1)
           longer == Append(to, from[Len(from)])
<1>1. /\ front \in Seq(Entry) /\ Len(front) = Len(from) - 1 /\ from[Len(from)] \in Entry
      /\ Len(from) \in Nat
  BY FrontFields
<1>2. longer \in Seq(Entry) /\ Len(longer) = Len(to) + 1 /\ Len(to) \in Nat
  BY <1>1, AppendProperties, LenProperties
<1> HIDE DEF front, longer
<1>3. Len(front) + Len(longer) <= Capacity /\ Len(longer) + Len(front) <= Capacity
  BY <1>1, <1>2, BoundAssumption
<1> QED
  BY <1>1, <1>2, <1>3 DEF front, longer

\* What a user's edit comes to: a mutation of some items, to values of a type.
LEMMA EditStep ==
  ASSUME IInv, NEW c \in Ids, Undo(c) \/ Redo(c) \/ \E e \in Edits : Commit(c, e)
  PROVE  /\ ~Recovering /\ fiber[c].at = "idle" /\ HistoryType(undo', redo')
         /\ \E S \in SUBSET Items : \E new \in [S -> Values] : Mutate(c, new)
<1>1. TypeOK /\ HistoryType(undo, redo) /\ shown \in [Items -> Values]
  BY TypeParts DEF IInv
<1>2. undo \in Seq(Entry) /\ redo \in Seq(Entry) /\ Len(undo) + Len(redo) <= Capacity
      /\ Len(undo) \in Nat /\ Len(redo) \in Nat /\ Len(redo) + Len(undo) <= Capacity
  BY <1>1, LenProperties DEF HistoryType
<1>3. CASE Undo(c)
  <2> DEFINE entry == undo[Len(undo)]  S == Changed(entry.before)
  <2>1. /\ ~Recovering /\ fiber[c].at = "idle" /\ undo # <<>> /\ Mutate(c, Part(entry.before, S))
        /\ undo' = SubSeq(undo, 1, Len(undo) - 1) /\ redo' = Append(redo, entry)
    BY <1>3 DEF Undo, Ready
  <2>2. HistoryType(undo', redo')
    BY <1>2, <2>1, MoveKeepsType DEF HistoryType
  <2>3. entry.before \in Images
    <3>1. undo[Len(undo)] \in Entry
      BY <1>2, <2>1, FrontFields
    <3> QED
      BY <3>1 DEF Entry
  <2>4. S \in SUBSET Items /\ Part(entry.before, S) \in [S -> Values]
    BY <2>3, ImagesOut DEF Changed, Part
  <2> QED
    BY <2>1, <2>2, <2>4
<1>4. CASE Redo(c)
  <2> DEFINE entry == redo[Len(redo)]  S == Changed(entry.after)
  <2>1. /\ ~Recovering /\ fiber[c].at = "idle" /\ redo # <<>> /\ Mutate(c, Part(entry.after, S))
        /\ redo' = SubSeq(redo, 1, Len(redo) - 1) /\ undo' = Append(undo, entry)
    BY <1>4 DEF Redo, Ready
  <2>2. HistoryType(undo', redo')
    BY <1>2, <2>1, MoveKeepsType DEF HistoryType
  <2>3. entry.after \in Images
    <3>1. redo[Len(redo)] \in Entry
      BY <1>2, <2>1, FrontFields
    <3> QED
      BY <3>1 DEF Entry
  <2>4. S \in SUBSET Items /\ Part(entry.after, S) \in [S -> Values]
    BY <2>3, ImagesOut DEF Changed, Part
  <2> QED
    BY <2>1, <2>2, <2>4
<1>5. ASSUME NEW e \in Edits, Commit(c, e)
      PROVE  /\ ~Recovering /\ fiber[c].at = "idle" /\ HistoryType(undo', redo')
             /\ \E S \in SUBSET Items : \E new \in [S -> Values] : Mutate(c, new)
  <2>1. /\ ~Recovering /\ fiber[c].at = "idle" /\ Mutate(c, Image(e, c))
        /\ Record([before |-> Part(shown, DOMAIN e), after |-> Image(e, c)])
    BY <1>5 DEF Commit, Ready
  <2>2. DOMAIN e \in SUBSET Items /\ Image(e, c) \in [DOMAIN e -> Values]
    BY EditDomain
  <2>3. Part(shown, DOMAIN e) \in [DOMAIN e -> Values]
    BY <1>1, <2>2 DEF Part
  <2>4. [before |-> Part(shown, DOMAIN e), after |-> Image(e, c)] \in Entry
    BY <2>2, <2>3, ImagesIn DEF Entry
  <2> QED
    BY <1>1, <2>1, <2>2, <2>4, RecordStep
<1> QED
  BY <1>3, <1>4, <1>5

LEMMA MutateStep ==
  ASSUME IInv, NEW c \in Ids, fiber[c].at = "idle",
         NEW S \in SUBSET Items, NEW new \in [S -> Values], Mutate(c, new)
  PROVE  /\ UNCHANGED <<log, accepted, seen, generation, recovery, stream, faults>>
         /\ shown' \in [Items -> Values]
         /\ \A i \in Items : shown'[i] = IF i \in S THEN new[i] ELSE shown[i]
         /\ image' \in [Ids -> Entry] /\ image'[c].after = new
         /\ \A d \in Ids : d # c => image'[d] = image[d]
         /\ fiber' \in [Ids -> Fiber] /\ fiber'[c].at = "queued" /\ fiber'[c].gen = generation
         /\ \A d \in Ids : d # c => fiber'[d] = fiber[d]
         /\ pending' = Append(pending, c) /\ lane' = Append(lane, c)
<1>1. TypeOK
  BY DEF IInv
<1>2. UNCHANGED <<log, accepted, seen, generation, recovery, stream, faults>>
      /\ pending' = Append(pending, c) /\ lane' = Append(lane, c)
  BY DEF Mutate
<1>3. /\ shown' \in [Items -> Values]
      /\ \A i \in Items : shown'[i] = IF i \in S THEN new[i] ELSE shown[i]
  BY <1>1 DEF Mutate, Over, TypeOK
<1>4. [before |-> Part(shown, DOMAIN new), after |-> new] \in Entry
  <2>1. Part(shown, DOMAIN new) \in [S -> Values]
    BY <1>1 DEF Part, TypeOK
  <2> QED
    BY <2>1, ImagesIn DEF Entry
<1>5. /\ image' \in [Ids -> Entry] /\ image'[c].after = new
      /\ \A d \in Ids : d # c => image'[d] = image[d]
  BY <1>1, <1>4 DEF Mutate, TypeOK
<1>6. /\ fiber' \in [Ids -> Fiber] /\ fiber'[c].at = "queued" /\ fiber'[c].gen = generation
      /\ \A d \in Ids : d # c => fiber'[d] = fiber[d]
  <2>1. fiber \in [Ids -> Fiber] /\ fiber[c] \in Fiber /\ generation \in Nat
    BY <1>1 DEF TypeOK
  <2>2. fiber' = [fiber EXCEPT ![c].at = "queued", ![c].gen = generation]
    BY DEF Mutate
  <2> QED
    BY <2>1, <2>2 DEF Fiber
<1> QED
  BY <1>2, <1>3, <1>5, <1>6

-----------------------------------------------------------------------------
(***************************************************************************)
(* The kinds of steps, by what they do to the document and to the fibers.  *)
(***************************************************************************)
Kept == <<accepted, seen, pending, undo, redo, generation, recovery>>

UserEdits(c) ==
  /\ ~Recovering /\ fiber[c].at = "idle"
  /\ \E S \in SUBSET Items : \E new \in [S -> Values] : Mutate(c, new)
  /\ Undo(c) \/ Redo(c) \/ \E e \in Edits : Commit(c, e)

\* An operation ends and leaves the document alone.
Quits(c) ==
  /\ fiber[c].at \in {"queued", "committed", "late", "refused", "failed"} /\ ~IsPending(c)
  /\ End(c) /\ UNCHANGED <<log, shown, image, Kept, stream, faults>>

\* An operation fails, and a recovery runs.
Breaks(c) ==
  /\ fiber[c].at \in {"queued", "committed", "late", "refused"}
  /\ Recover /\ Fail(c) /\ UNCHANGED <<log, accepted, seen, shown, image, stream, faults>>

Leaves(c) ==
  /\ fiber[c].at = "queued" /\ HasLane(c) /\ Current(c) /\ IsPending(c)
  /\ \A i \in Removed(c) : accepted.items[i].val # Absent
  /\ fiber' = [fiber EXCEPT ![c].at = "sent",
                 ![c].guards = [i \in Items |->
                                  IF i \in Removed(c) THEN accepted.items[i].rev ELSE 0]]
  /\ UNCHANGED <<log, shown, image, Kept, lane, stream, faults>>

Decides(c) ==
  /\ fiber[c].at = "sent" /\ Admits(Doc(Revision), c)
  /\ log' = Append(log, [cmd |-> c, doc |-> After(Doc(Revision), image[c].after)])
  /\ fiber' \in {[fiber EXCEPT ![c].at = "committed", ![c].rev = Revision + 1],
                 [fiber EXCEPT ![c].at = "refused"]}
  /\ faults' \in Nat /\ UNCHANGED <<shown, image, Kept, lane, stream>>

Loses(c) ==
  /\ fiber[c].at = "sent" /\ Put(c, "refused")
  /\ faults' \in Nat /\ UNCHANGED <<log, shown, image, Kept, lane, stream>>

Waits(c) ==
  /\ fiber[c].at = "committed" /\ ~IsPending(c)
  /\ fiber' = [fiber EXCEPT ![c].at = "late", ![c].gate = recovery.count]
  /\ UNCHANGED <<log, shown, image, Kept, lane, stream, faults>>

\* A commit is accepted, from the answer of its operation or from the stream.
Accepts(r) ==
  /\ r \in DOMAIN log /\ r = accepted.rev + 1
  /\ log[r].cmd \notin seen /\ (Own(r) => Affected(log[r].cmd) = Targets(r)) /\ ~Overlaps(r)
  /\ Install(r) /\ UNCHANGED <<log, image, faults>>

AcceptsAnswer(c) ==
  /\ fiber[c].at \in {"committed", "late"}
  /\ Recovering => fiber[c].at = "late" /\ fiber[c].gate # recovery.count
  /\ Accepts(fiber[c].rev) /\ End(c) /\ UNCHANGED stream

AcceptsEvent ==
  /\ ~Recovering /\ Accepts(stream.cursor + 1)
  /\ stream' = [stream EXCEPT !.cursor = @ + 1] /\ UNCHANGED <<fiber, lane>>

\* A recovery that no operation asked for.
Falls ==
  /\ Recover /\ UNCHANGED <<log, accepted, seen, shown, image, fiber, lane>>
  /\ faults' \in Nat /\ stream' \in [open : BOOLEAN, cursor : {stream.cursor}]

Streams ==
  /\ stream' \in [open : BOOLEAN, cursor : 0 .. Revision] /\ faults' \in Nat
  /\ UNCHANGED <<log, shown, image, Kept, fiber, lane>>

Step ==
  \/ \E c \in Ids : \/ UserEdits(c) \/ Quits(c) \/ Breaks(c) \/ Leaves(c) \/ Decides(c) \/ Loses(c)
                    \/ Waits(c) \/ AcceptsAnswer(c)
  \/ AcceptsEvent \/ Falls \/ Streams
  \/ ReadSnapshot \/ SnapshotFails \/ InstallSnapshot
  \/ \E r \in RemoteIds : Remote(r)
  \/ UNCHANGED vars

LEMMA FaultType == ASSUME IInv, Fault PROVE faults' \in Nat
BY DEF IInv, TypeOK, Fault

LEMMA AnswerRange ==
  ASSUME IInv, NEW c \in Ids, fiber[c].at \in {"committed", "late"}
  PROVE  fiber[c].rev \in DOMAIN log /\ log[fiber[c].rev].cmd = c
BY DEF IInv, AnswersOK

LEMMA PendingIsCurrent ==
  ASSUME IInv, NEW c \in Ids, IsPending(c) PROVE Current(c) /\ ~Recovering /\ c \notin seen
<1>1. PICK k \in DOMAIN pending : pending[k] = c
  BY DEF IsPending
<1>2. fiber[c].gen = generation /\ c \notin seen
  BY <1>1 DEF IInv, PendingOK
<1>3. ~Recovering
  <2>1. SUFFICES ASSUME Recovering PROVE FALSE
    OBVIOUS
  <2>2. pending = <<>>
    BY <2>1 DEF IInv, PendingOK
  <2> QED
    BY <1>1, <2>2
<1> QED
  BY <1>2, <1>3 DEF Current

LEMMA SendKinds ==
  ASSUME IInv, NEW c \in Ids, Send(c)
  PROVE  Quits(c) \/ Breaks(c) \/ Leaves(c) \/ Waits(c) \/ AcceptsAnswer(c)
<1>1. CASE Dispatch(c)
  <2>1. CASE ~Current(c) \/ ~IsPending(c)
    BY <1>1, <2>1, PendingIsCurrent DEF Dispatch, Quits, Kept
  <2>2. CASE Current(c) /\ IsPending(c) /\ \E i \in Removed(c) : accepted.items[i].val = Absent
    BY <1>1, <2>2 DEF Dispatch, Breaks
  <2>3. CASE Current(c) /\ IsPending(c) /\ ~\E i \in Removed(c) : accepted.items[i].val = Absent
    BY <1>1, <2>3 DEF Dispatch, Leaves, Kept
  <2> QED
    BY <2>1, <2>2, <2>3
<1>2. CASE Answer(c)
  <2> DEFINE mine == IF Current(c) /\ IsPending(c) THEN c ELSE None
  <2>1. fiber[c].at = "committed" /\ UNCHANGED stream /\ c # None
    BY <1>2, NameAssumption DEF Answer
  <2>2. CASE mine = None /\ Recovering
    <3>1. ~IsPending(c)
      BY <2>2, PendingIsCurrent
    <3> QED
      BY <1>2, <2>1, <2>2, <3>1 DEF Answer, Waits, Kept, document
  <2>3. CASE ~(mine = None /\ Recovering)
    <3>1. Take(fiber[c].rev, mine) /\ IF Throws(fiber[c].rev, mine) THEN Fail(c) ELSE End(c)
      BY <1>2, <2>3 DEF Answer
    <3>2. fiber[c].rev \in DOMAIN log /\ log[fiber[c].rev].cmd = c
      BY <2>1, AnswerRange
    <3>3. ~Recovering
      BY <2>1, <2>3, PendingIsCurrent
    <3>4. mine = None => ~IsPending(c)
      BY <2>1, PendingIsCurrent
    <3>5. mine # None => mine = c
      OBVIOUS
    <3> HIDE DEF mine
    <3>6. TypeOK
      BY DEF IInv
    <3>7. /\ UNCHANGED <<log, image, faults>>
          /\ \/ /\ Throws(fiber[c].rev, mine) /\ Recover /\ UNCHANGED <<accepted, seen, shown>>
             \/ /\ ~Throws(fiber[c].rev, mine) /\ ~(mine # None /\ IsPending(mine))
                /\ UNCHANGED <<accepted, seen, shown, pending, undo, redo, generation, recovery>>
             \/ /\ ~Throws(fiber[c].rev, mine) /\ fiber[c].rev = accepted.rev + 1
                /\ Fits(fiber[c].rev, mine) /\ Install(fiber[c].rev)
      BY <3>1, <3>2, <3>6, TakeStep
    <3>8. CASE Throws(fiber[c].rev, mine)
      BY <2>1, <3>1, <3>7, <3>8 DEF Breaks
    <3>9. CASE /\ ~Throws(fiber[c].rev, mine) /\ ~(mine # None /\ IsPending(mine))
               /\ UNCHANGED <<accepted, seen, shown, pending, undo, redo, generation, recovery>>
      <4>1. ~IsPending(c)
        BY <3>4, <3>5, <3>9
      <4> QED
        BY <2>1, <3>1, <3>7, <3>9, <4>1 DEF Quits, Kept
    <3>10. CASE /\ ~Throws(fiber[c].rev, mine) /\ fiber[c].rev = accepted.rev + 1
                /\ Fits(fiber[c].rev, mine) /\ Install(fiber[c].rev)
      BY <2>1, <3>1, <3>2, <3>3, <3>7, <3>10 DEF AcceptsAnswer, Accepts, Fits
    <3> QED
      BY <3>7, <3>8, <3>9, <3>10
  <2> QED
    BY <2>2, <2>3
<1>3. CASE Refused(c)
  <2>1. fiber[c].at = "refused" /\ UNCHANGED <<log, accepted, seen, shown, image, stream, faults>>
    BY <1>3 DEF Refused
  <2>2. CASE Current(c)
    <3>1. Recover
      BY <1>3, <2>2 DEF Refused
    <3>2. Recovering'
      BY <3>1, RecoverType
    <3> QED
      BY <1>3, <2>1, <3>1, <3>2 DEF Refused, Breaks
  <2>3. CASE ~Current(c) /\ Recovering
    <3>1. UNCHANGED <<generation, recovery, pending, undo, redo>> /\ Recovering'
      BY <1>3, <2>3 DEF Refused, Recovering
    <3>2. Recover
      BY <2>3, <3>1 DEF Recover
    <3> QED
      BY <1>3, <2>1, <3>1, <3>2 DEF Refused, Breaks
  <2>4. CASE ~Current(c) /\ ~Recovering
    <3>1. UNCHANGED <<generation, recovery, pending, undo, redo>> /\ ~Recovering'
      BY <1>3, <2>4 DEF Refused, Recovering
    <3>2. ~IsPending(c)
      BY <2>4, PendingIsCurrent
    <3> QED
      BY <1>3, <2>1, <3>1, <3>2 DEF Refused, Quits, Kept
  <2> QED
    BY <2>2, <2>3, <2>4
<1>4. CASE AnswerLate(c)
  <2>1. /\ fiber[c].at = "late" /\ GateOpen(c) /\ UNCHANGED stream /\ Take(fiber[c].rev, None)
        /\ IF Throws(fiber[c].rev, None) THEN Fail(c) ELSE End(c)
    BY <1>4 DEF AnswerLate
  <2>2. fiber[c].rev \in DOMAIN log /\ log[fiber[c].rev].cmd = c
    BY <2>1, AnswerRange
  <2>3. TypeOK
    BY DEF IInv
  <2>4. ~IsPending(c)
    BY <2>1 DEF IInv, PendingOK, IsPending
  <2>5. /\ UNCHANGED <<log, image, faults>>
        /\ \/ /\ Throws(fiber[c].rev, None) /\ Recover /\ UNCHANGED <<accepted, seen, shown>>
           \/ /\ ~Throws(fiber[c].rev, None)
              /\ UNCHANGED <<accepted, seen, shown, pending, undo, redo, generation, recovery>>
           \/ /\ ~Throws(fiber[c].rev, None) /\ fiber[c].rev = accepted.rev + 1
              /\ Fits(fiber[c].rev, None) /\ Install(fiber[c].rev)
    BY <2>1, <2>2, <2>3, TakeStep
  <2>6. CASE Throws(fiber[c].rev, None)
    BY <2>1, <2>5, <2>6 DEF Breaks
  <2>7. CASE /\ ~Throws(fiber[c].rev, None)
             /\ UNCHANGED <<accepted, seen, shown, pending, undo, redo, generation, recovery>>
    BY <2>1, <2>4, <2>5, <2>7 DEF Quits, Kept
  <2>8. CASE /\ ~Throws(fiber[c].rev, None) /\ fiber[c].rev = accepted.rev + 1
             /\ Fits(fiber[c].rev, None) /\ Install(fiber[c].rev)
    BY <2>1, <2>2, <2>5, <2>8 DEF AcceptsAnswer, Accepts, Fits, GateOpen
  <2> QED
    BY <2>5, <2>6, <2>7, <2>8
<1>5. CASE Resume(c)
  <2>1. ~IsPending(c)
    BY <1>5 DEF Resume, IInv, PendingOK, IsPending
  <2> QED
    BY <1>5, <2>1 DEF Resume, Quits, Kept, document
<1> QED
  BY <1>1, <1>2, <1>3, <1>4, <1>5 DEF Send

LEMMA Kinds ==
  ASSUME IInv, [Next]_vars PROVE Step
<1>1. ASSUME NEW c \in Ids, Undo(c) \/ Redo(c) \/ \E e \in Edits : Commit(c, e) PROVE Step
  BY <1>1, EditStep DEF Step, UserEdits
<1>2. CASE EngineFails
  <2>1. Recover /\ UNCHANGED <<log, accepted, seen, shown, image, fiber, lane, stream>>
    BY <1>2 DEF EngineFails
  <2>2. stream \in [open : BOOLEAN, cursor : {stream.cursor}]
    BY DEF IInv, TypeOK
  <2>3. faults' \in Nat
    BY <1>2, FaultType DEF EngineFails
  <2> QED
    BY <2>1, <2>2, <2>3 DEF Step, Falls
<1>3. ASSUME NEW c \in Ids, Send(c) PROVE Step
  BY <1>3, SendKinds DEF Step
<1>4. ASSUME NEW c \in Ids, Execute(c) PROVE Step
  <2>1. faults \in Nat
    BY DEF IInv, TypeOK
  <2>2. fiber[c].at = "sent" /\ UNCHANGED <<document, generation, recovery, lane, stream>>
    BY <1>4 DEF Execute
  <2>3. CASE Admits(Doc(Revision), c)
    <3>1. /\ log' = Append(log, [cmd |-> c, doc |-> After(Doc(Revision), image[c].after)])
          /\ \/ /\ fiber' = [fiber EXCEPT ![c].at = "committed", ![c].rev = Revision + 1]
                /\ UNCHANGED faults
             \/ Fault /\ fiber' = [fiber EXCEPT ![c].at = "refused"]
      BY <1>4, <2>3 DEF Execute, Put
    <3>2. faults' \in Nat
      BY <2>1, <3>1, FaultType
    <3> QED
      BY <2>2, <2>3, <3>1, <3>2 DEF Step, Decides, Kept, document
  <2>4. CASE ~Admits(Doc(Revision), c)
    BY <1>4, <2>1, <2>2, <2>4 DEF Execute, Step, Loses, Kept, document
  <2> QED
    BY <2>3, <2>4
<1>5. ASSUME NEW c \in Ids, RequestLost(c) PROVE Step
  BY <1>5, FaultType DEF RequestLost, Step, Loses, Kept, document
<1>6. CASE Subscribe
  <2>1. accepted.rev \in 0 .. Revision /\ faults \in Nat
    BY LogType DEF IInv, AcceptedIsCommitted, TypeOK
  <2> QED
    BY <1>6, <2>1 DEF Subscribe, Step, Streams, Kept, document
<1>7. stream \in [open : BOOLEAN, cursor : Nat] /\ faults \in Nat /\ stream.cursor <= Revision
      /\ Revision \in Nat /\ TypeOK
  BY LogType DEF IInv, TypeOK
<1>8. Close => /\ stream' \in [open : BOOLEAN, cursor : {stream.cursor}]
               /\ stream' \in [open : BOOLEAN, cursor : 0 .. Revision]
  <2>1. stream.cursor \in 0 .. Revision
    BY <1>7
  <2> DEFINE n == stream.cursor
  <2>2. Close => stream' = [open |-> FALSE, cursor |-> n]
    BY <1>7 DEF Close
  <2>3. FALSE \in BOOLEAN /\ n \in {n} /\ n \in 0 .. Revision
    BY <2>1
  <2> HIDE DEF n
  <2>4. /\ [open |-> FALSE, cursor |-> n] \in [open : BOOLEAN, cursor : {n}]
        /\ [open |-> FALSE, cursor |-> n] \in [open : BOOLEAN, cursor : 0 .. Revision]
    BY <2>3
  <2> QED
    BY <2>2, <2>4, Zenon DEF n
<1>9. CASE NextEvent
  <2> DEFINE r == stream.cursor + 1
  <2>1. r \in DOMAIN log /\ r \in 0 .. Revision /\ UNCHANGED <<fiber, lane>>
    BY <1>7, <1>9, LogType DEF NextEvent
  <2>2. CASE Recovering
    BY <1>7, <1>8, <1>9, <2>2 DEF NextEvent, Step, Streams, Kept, document
  <2>3. CASE ~Recovering
    <3>1. /\ Take(r, None)
          /\ IF Throws(r, None) THEN Close ELSE stream' = [stream EXCEPT !.cursor = @ + 1]
      BY <1>9, <2>3 DEF NextEvent
    <3>2. stream' = [stream EXCEPT !.cursor = @ + 1] => stream' \in [open : BOOLEAN, cursor : 0 .. Revision]
      BY <1>7, <2>1
    <3> HIDE DEF r
    <3>3. /\ UNCHANGED <<log, image, faults>>
          /\ \/ /\ Throws(r, None) /\ Recover /\ UNCHANGED <<accepted, seen, shown>>
             \/ /\ ~Throws(r, None)
                /\ UNCHANGED <<accepted, seen, shown, pending, undo, redo, generation, recovery>>
             \/ /\ ~Throws(r, None) /\ r = accepted.rev + 1
                /\ Fits(r, None) /\ Install(r)
      BY <1>7, <2>1, <3>1, TakeStep
    <3>4. CASE Throws(r, None)
      BY <1>7, <1>8, <2>1, <3>1, <3>3, <3>4 DEF Step, Falls
    <3>5. CASE /\ ~Throws(r, None)
               /\ UNCHANGED <<accepted, seen, shown, pending, undo, redo, generation, recovery>>
      BY <1>7, <2>1, <3>1, <3>2, <3>3, <3>5 DEF Step, Streams, Kept
    <3>6. CASE ~Throws(r, None) /\ r = accepted.rev + 1 /\ Fits(r, None) /\ Install(r)
      <4>1. Accepts(r)
        BY <2>1, <3>3, <3>6 DEF Accepts, Fits
      <4> QED
        BY <2>1, <2>3, <3>1, <3>6, <4>1 DEF Step, AcceptsEvent, r
    <3> QED
      BY <3>3, <3>4, <3>5, <3>6
  <2> QED
    BY <2>2, <2>3
<1>10. CASE StreamEnds
  BY <1>8, <1>10, FaultType DEF StreamEnds, Step, Streams, Kept, document
<1>11. CASE Resync
  BY <1>8, <1>11, FaultType DEF Resync, Step, Falls
<1>12. CASE ReadSnapshot \/ SnapshotFails \/ InstallSnapshot \/ \E r \in RemoteIds : Remote(r)
  BY <1>12 DEF Step
<1>13. CASE UNCHANGED vars
  BY <1>13 DEF Step
<1> QED
  BY <1>1, <1>2, <1>3, <1>4, <1>5, <1>6, <1>9, <1>10, <1>11, <1>12, <1>13 DEF Next, Edit

LEMMA StepKeepsType ==
  ASSUME IInv, Step PROVE TypeOK'
<1>1. TypeOK
  BY DEF IInv
<1>2. ASSUME NEW c \in Ids, UserEdits(c) PROVE TypeOK'
  <2>1. fiber[c].at = "idle" /\ HistoryType(undo', redo')
    BY <1>2, EditStep DEF UserEdits
  <2>2. PICK S \in SUBSET Items : \E new \in [S -> Values] : Mutate(c, new)
    BY <1>2 DEF UserEdits
  <2>3. PICK new \in [S -> Values] : Mutate(c, new)
    BY <2>2
  <2>4. pending' \in Seq(Ids) /\ lane' \in Seq(Ids)
    <3>1. pending' = Append(pending, c) /\ lane' = Append(lane, c)
      BY <2>3 DEF Mutate
    <3>2. pending \in Seq(Ids) /\ lane \in Seq(Ids)
      BY <1>1 DEF TypeOK
    <3> QED
      BY <3>1, <3>2, AppendProperties
  <2> QED
    BY <1>1, <2>1, <2>3, <2>4, MutateStep, TypeParts, TypePartsNext, ZenonT(40)
<1>3. ASSUME NEW c \in Ids, Quits(c) PROVE TypeOK'
  BY <1>1, <1>3, EndStep, TypeParts, TypePartsNext DEF Quits, Kept
<1>4. ASSUME NEW c \in Ids, Breaks(c) PROVE TypeOK'
  BY <1>1, <1>4, RecoverType, FailStep, TypeParts, TypePartsNext DEF Breaks
<1>5. ASSUME NEW c \in Ids, Leaves(c) PROVE TypeOK'
  <2>1. fiber' \in [Ids -> Fiber]
    <3>1. fiber \in [Ids -> Fiber] /\ fiber[c] \in Fiber
      BY <1>1 DEF TypeOK
    <3> DEFINE guards == [i \in Items |-> IF i \in Removed(c) THEN accepted.items[i].rev ELSE 0]
    <3>2. guards \in [Items -> Nat]
      BY <1>1 DEF TypeOK, Row
    <3>3. fiber' = [fiber EXCEPT ![c].at = "sent", ![c].guards = guards]
      BY <1>5 DEF Leaves
    <3> HIDE DEF guards
    <3> QED
      BY <3>1, <3>2, <3>3 DEF Fiber
  <2> QED
    BY <1>1, <1>5, <2>1, TypeParts, TypePartsNext DEF Leaves, Kept
<1>6. ASSUME NEW c \in Ids, Decides(c) PROVE TypeOK'
  <2>1. fiber' \in [Ids -> Fiber]
    <3>1. fiber \in [Ids -> Fiber] /\ fiber[c] \in Fiber /\ Revision + 1 \in Nat
      BY <1>1, LogType DEF TypeOK
    <3>2. \/ fiber' = [fiber EXCEPT ![c].at = "committed", ![c].rev = Revision + 1]
          \/ fiber' = [fiber EXCEPT ![c].at = "refused"]
      BY <1>6 DEF Decides
    <3> QED
      BY <3>1, <3>2 DEF Fiber
  <2>2. log' \in Seq([cmd : Ids \cup RemoteIds, doc : [Items -> Row]])
    <3>1. Doc(Revision) \in [Items -> Row]
      BY <1>1, DocType, LogType
    <3>2. image[c].after \in Images
      BY <1>1 DEF TypeOK, Entry
    <3>3. After(Doc(Revision), image[c].after) \in [Items -> Row]
      BY <3>1, <3>2, ImagesOut, AfterType
    <3> QED
      BY <1>1, <1>6, <3>3, AppendProperties DEF Decides, TypeOK
  <2> QED
    BY <1>1, <1>6, <2>1, <2>2, TypeParts, TypePartsNext DEF Decides, Kept
<1>7. ASSUME NEW c \in Ids, Loses(c) PROVE TypeOK'
  BY <1>1, <1>7, PutStep, TypeParts, TypePartsNext DEF Loses, Kept, Stages
<1>8. ASSUME NEW c \in Ids, Waits(c) PROVE TypeOK'
  <2>1. fiber' = [fiber EXCEPT ![c].at = "late", ![c].gate = recovery.count]
        /\ recovery.count \in Nat /\ "late" \in Stages
    BY <1>1, <1>8 DEF Waits, TypeOK, Stages
  <2>2. fiber' \in [Ids -> Fiber]
    BY <2>1, GateStep
  <2> QED
    BY <1>1, <1>8, <2>2, TypeParts, TypePartsNext DEF Waits, Kept
<1>9. ASSUME NEW c \in Ids, AcceptsAnswer(c) PROVE TypeOK'
  BY <1>1, <1>9, InstallType, EndStep, TypeParts, TypePartsNext DEF AcceptsAnswer, Accepts
<1>10. CASE AcceptsEvent
  <2>1. stream' \in [open : BOOLEAN, cursor : Nat]
    <3>1. stream \in [open : BOOLEAN, cursor : Nat] /\ stream.cursor + 1 \in Nat
      BY <1>1 DEF TypeOK
    <3> QED
      BY <1>10, <3>1 DEF AcceptsEvent
  <2> QED
    BY <1>1, <1>10, <2>1, InstallType, TypeParts, TypePartsNext DEF AcceptsEvent, Accepts
<1>11. CASE Falls
  <2>1. stream' \in [open : BOOLEAN, cursor : Nat]
    BY <1>1, <1>11 DEF Falls, TypeOK
  <2> QED
    BY <1>1, <1>11, <2>1, RecoverType, TypeParts, TypePartsNext DEF Falls
<1>12. CASE Streams
  <2>1. stream' \in [open : BOOLEAN, cursor : Nat]
    BY <1>1, <1>12, LogType DEF Streams
  <2> QED
    BY <1>1, <1>12, <2>1, TypeParts, TypePartsNext DEF Streams, Kept
<1>13. CASE ReadSnapshot
  <2>1. recovery' \in RecoveryType
    <3>1. recovery \in RecoveryType /\ Revision \in Nat /\ Doc(Revision) \in [Items -> Row]
      BY <1>1, DocType, LogType, TypeParts
    <3> QED
      BY <1>13, <3>1 DEF ReadSnapshot, RecoveryType
  <2> QED
    BY <1>1, <1>13, <2>1, TypeParts, TypePartsNext DEF ReadSnapshot, document
<1>14. CASE SnapshotFails
  <2>1. recovery' \in RecoveryType
    BY <1>1, <1>14, TypeParts DEF SnapshotFails, RecoveryType
  <2> QED
    BY <1>1, <1>14, <2>1, FaultType, TypeParts, TypePartsNext DEF SnapshotFails, document
<1>15. CASE InstallSnapshot
  <2>1. recovery' \in RecoveryType /\ accepted' \in AcceptedType /\ shown' \in [Items -> Values]
    BY <1>1, <1>15, TypeParts DEF InstallSnapshot, RecoveryType, AcceptedType, Vals, Row
  <2> QED
    BY <1>1, <1>15, <2>1, EmptyHistory, TypeParts, TypePartsNext DEF InstallSnapshot
<1>16. ASSUME NEW r \in RemoteIds, Remote(r) PROVE TypeOK'
  <2>1. log' \in Seq([cmd : Ids \cup RemoteIds, doc : [Items -> Row]])
    <3>1. Doc(Revision) \in [Items -> Row]
      BY <1>1, DocType, LogType
    <3>2. After(Doc(Revision), Image(RemoteEdit[r], r)) \in [Items -> Row]
      BY <3>1, EditAssumption, EditDomain, AfterType
    <3> QED
      BY <1>1, <1>16, <3>2, AppendProperties DEF Remote, TypeOK
  <2> QED
    BY <1>1, <1>16, <2>1, TypeParts, TypePartsNext DEF Remote, document
<1>17. CASE UNCHANGED vars
  BY <1>1, <1>17, TypeParts, TypePartsNext DEF vars, document
<1> QED
  BY <1>2, <1>3, <1>4, <1>5, <1>6, <1>7, <1>8, <1>9, <1>10, <1>11, <1>12, <1>13, <1>14,
     <1>15, <1>16, <1>17 DEF Step

-----------------------------------------------------------------------------
(***************************************************************************)
(* The log, the guards and the answers on their way.                       *)
(***************************************************************************)
FibersInv == LogOK /\ GuardsOK /\ AnswersOK /\ SeenOK

LEMMA LogFrame ==
  ASSUME IInv, UNCHANGED <<log, image>>,
         \A d \in Ids :
           /\ fiber[d].at \notin {"idle", "queued", "sent"} =>
                fiber'[d].at \notin {"idle", "queued", "sent"}
           /\ fiber'[d].at = "sent" => fiber[d].at = "sent" /\ fiber'[d].guards = fiber[d].guards
           /\ fiber'[d].at \in {"committed", "late"} =>
                fiber[d].at \in {"committed", "late"} /\ fiber'[d].rev = fiber[d].rev,
         \A d \in seen' : d \in seen \/ \E k \in DOMAIN log : log[k].cmd = d
  PROVE  FibersInv'
<1>1. /\ \A k : Targets(k)' = Targets(k)
      /\ \A c : Affected(c)' = Affected(c) /\ Removed(c)' = Removed(c)
  BY DEF Targets, Doc, Affected, Removed
<1>2. LogOK'
  BY <1>1 DEF IInv, LogOK
<1>3. GuardsOK' /\ AnswersOK' /\ SeenOK'
  BY <1>1 DEF IInv, GuardsOK, AnswersOK, SeenOK
<1> QED
  BY <1>2, <1>3 DEF FibersInv

LEMMA LogGrows ==
  ASSUME TypeOK, NEW e \in [cmd : Ids \cup RemoteIds, doc : [Items -> Row]], log' = Append(log, e)
  PROVE  /\ Revision' = Revision + 1 /\ DOMAIN log' = 1 .. Revision + 1
         /\ \A k \in DOMAIN log : k \in DOMAIN log' /\ log'[k] = log[k]
         /\ Revision + 1 \in DOMAIN log' /\ Revision + 1 \notin DOMAIN log
         /\ log'[Revision + 1] = e
         /\ \A k \in 0 .. Revision : Doc(k)' = Doc(k)
         /\ \A k \in DOMAIN log : Targets(k)' = Targets(k)
         /\ \A n \in Nat : n = Revision + 1 =>
              Targets(n)' = {i \in Items : e.doc[i] # Doc(Revision)[i]}
<1>1. log \in Seq([cmd : Ids \cup RemoteIds, doc : [Items -> Row]])
      /\ Revision \in Nat /\ DOMAIN log = 1 .. Revision
  BY LogType DEF TypeOK
<1>2. /\ log' \in Seq([cmd : Ids \cup RemoteIds, doc : [Items -> Row]])
      /\ Revision' = Revision + 1
      /\ \A k \in 1 .. Revision : log'[k] = log[k]
      /\ log'[Revision + 1] = e
  BY <1>1, AppendProperties DEF Revision
<1>3. DOMAIN log' = 1 .. Revision + 1
  BY <1>2, LenProperties DEF Revision
<1>4. \A k \in 0 .. Revision : k = 0 \/ k \in 1 .. Revision
  BY <1>1
<1>5. \A k \in 0 .. Revision : Doc(k)' = Doc(k)
  BY <1>2, <1>4 DEF Doc
<1>6. \A k \in 1 .. Revision : k \in 0 .. Revision /\ k - 1 \in 0 .. Revision
  BY <1>1
<1>7. \A k \in 1 .. Revision : Targets(k)' = Targets(k)
  BY <1>5, <1>6 DEF Targets
<1>8. ASSUME NEW n \in Nat, n = Revision + 1
      PROVE  Targets(n)' = {i \in Items : e.doc[i] # Doc(Revision)[i]}
  <2>1. n # 0 /\ n - 1 = Revision /\ Revision \in 0 .. Revision
    BY <1>1, <1>8
  <2>2. Doc(n)' = e.doc
    BY <1>2, <1>8, <2>1 DEF Doc
  <2>3. Doc(n - 1)' = Doc(Revision)
    <3>1. \A k \in 0 .. Revision : k = Revision => Doc(k)' = Doc(Revision)
      BY <1>5
    <3>2. n - 1 \in 0 .. Revision
      BY <2>1
    <3> QED
      BY <2>1, <3>1, <3>2
  <2> QED
    BY <2>2, <2>3 DEF Targets
<1> QED
  BY <1>1, <1>2, <1>3, <1>5, <1>7, <1>8

\* A row of a document that exists has been written.
LEMMA RowsExist ==
  ASSUME IInv, NEW r \in 0 .. Revision, NEW i \in Items, Doc(r)[i].val # Absent
  PROVE  Doc(r)[i].rev > 0
<1>1. CASE r = 0
  BY <1>1, NoRowType DEF Doc
<1>2. CASE r # 0
  <2>1. r \in DOMAIN log
    BY <1>2, LogType DEF IInv
  <2> QED
    BY <1>2, <2>1 DEF Doc, IInv, LogOK
<1> QED
  BY <1>1, <1>2

\* What the authority makes of a command it admits.
LEMMA DecideRow ==
  ASSUME IInv, NEW c \in Ids, fiber[c].at = "sent", Admits(Doc(Revision), c)
  PROVE  LET doc == After(Doc(Revision), image[c].after) IN
           /\ doc \in [Items -> Row]
           /\ \A i \in Items : doc[i].val # Absent => doc[i].rev > 0
           /\ {i \in Items : doc[i] # Doc(Revision)[i]} = Affected(c)
           /\ \A i \in Affected(c) : doc[i].val = image[c].after[i]
<1> DEFINE old == Doc(Revision)
           new == image[c].after
           doc == After(old, new)
<1>1. TypeOK /\ Revision \in 0 .. Revision
  BY LogType DEF IInv
<1>2. old \in [Items -> Row]
  BY <1>1, DocType
<1>3. Affected(c) = DOMAIN new
  BY DEF Affected
<1>4. DOMAIN new \in SUBSET Items /\ new \in [DOMAIN new -> Values]
  <2>1. new \in Images
    BY <1>1 DEF TypeOK, Entry
  <2> QED
    BY <2>1, ImagesOut
<1>5. \A i \in Items : old[i].val # Absent => old[i].rev > 0
  BY <1>1, RowsExist
<1>6. \A i \in DOMAIN new : new[i] = Absent => old[i].rev > 0
  <2>1. ASSUME NEW i \in DOMAIN new, new[i] = Absent PROVE old[i].rev > 0
    <3>1. i \in Removed(c) /\ i \in Affected(c)
      BY <1>3, <2>1 DEF Removed
    <3>2. fiber[c].guards[i] > 0
      BY <3>1 DEF IInv, GuardsOK
    <3>3. old[i].rev = fiber[c].guards[i]
      BY <3>1 DEF Admits
    <3> QED
      BY <3>2, <3>3
  <2> QED
    BY <2>1
<1> HIDE DEF old, new
<1>7. /\ doc \in [Items -> Row]
      /\ \A i \in Items \ DOMAIN new : doc[i] = old[i]
      /\ \A i \in DOMAIN new :
           /\ new[i] = Absent => doc[i] = NoRow
           /\ new[i] # Absent => doc[i].rev = old[i].rev + 1 /\ doc[i].rev > 0
           /\ doc[i].val = new[i]
  BY <1>2, <1>4, AfterType
<1> HIDE DEF doc
<1>8. \A i \in DOMAIN new : doc[i] # old[i]
  <2>1. ASSUME NEW i \in DOMAIN new, new[i] = Absent PROVE doc[i] # old[i]
    <3>1. doc[i].rev = 0 /\ old[i].rev > 0
      BY <1>6, <1>7, <2>1, NoRowType
    <3> QED
      BY <3>1
  <2>2. ASSUME NEW i \in DOMAIN new, new[i] # Absent PROVE doc[i] # old[i]
    <3>1. doc[i].rev = old[i].rev + 1 /\ old[i].rev \in Nat
      BY <1>2, <1>4, <1>7, <2>2 DEF Row
    <3> QED
      BY <3>1
  <2> QED
    BY <2>1, <2>2
<1>9. {i \in Items : doc[i] # old[i]} = DOMAIN new
  BY <1>4, <1>7, <1>8
<1>10. \A i \in Items : doc[i].val # Absent => doc[i].rev > 0
  BY <1>5, <1>7
<1> QED
  BY <1>3, <1>7, <1>9, <1>10 DEF doc, old, new

LEMMA RemoteRow ==
  ASSUME IInv, NEW r \in RemoteIds
  PROVE  LET doc == After(Doc(Revision), Image(RemoteEdit[r], r)) IN
           /\ doc \in [Items -> Row]
           /\ \A i \in Items : doc[i].val # Absent => doc[i].rev > 0
<1> DEFINE old == Doc(Revision)
           new == Image(RemoteEdit[r], r)
           doc == After(old, new)
           S == DOMAIN RemoteEdit[r]
<1>1. TypeOK /\ Revision \in 0 .. Revision
  BY LogType DEF IInv
<1>2. old \in [Items -> Row] /\ \A i \in Items : old[i].val # Absent => old[i].rev > 0
  BY <1>1, DocType, RowsExist
<1>3. S \in SUBSET Items /\ new \in [S -> Values]
  BY EditAssumption, EditDomain
<1> HIDE DEF old, new, S
<1>4. /\ doc \in [Items -> Row]
      /\ \A i \in Items \ S : doc[i] = old[i]
      /\ \A i \in S : /\ new[i] = Absent => doc[i] = NoRow
                      /\ new[i] # Absent => doc[i].rev > 0
                      /\ doc[i].val = new[i]
  BY <1>2, <1>3, AfterType
<1> HIDE DEF doc
<1>5. \A i \in Items : doc[i].val # Absent => doc[i].rev > 0
  BY <1>2, <1>4
<1> QED
  BY <1>4, <1>5 DEF doc, old, new

LEMMA GrowKeepsLog ==
  ASSUME IInv, NEW e \in [cmd : Ids \cup RemoteIds, doc : [Items -> Row]],
         log' = Append(log, e), UNCHANGED image,
         \A k \in DOMAIN log : log[k].cmd # e.cmd,
         \A i \in Items : e.doc[i].val # Absent => e.doc[i].rev > 0,
         e.cmd \in Ids => /\ {i \in Items : e.doc[i] # Doc(Revision)[i]} = Affected(e.cmd)
                          /\ \A i \in Affected(e.cmd) : e.doc[i].val = image[e.cmd].after[i]
                          /\ fiber'[e.cmd].at \in {"committed", "refused"},
         \A d \in Ids : d # e.cmd => fiber'[d] = fiber[d]
  PROVE  LogOK'
<1>1. TypeOK /\ LogOK /\ Revision \in Nat
  BY LogType DEF IInv
<1>2. PICK n \in Nat : n = Revision + 1
  BY <1>1
<1>3. /\ n \in DOMAIN log' /\ n \notin DOMAIN log /\ log'[n] = e
      /\ \A k \in DOMAIN log' : k \in DOMAIN log \/ k = n
      /\ \A k \in DOMAIN log : k \in DOMAIN log' /\ log'[k] = log[k]
  BY <1>1, <1>2, LogGrows, LogType
<1>4. /\ \A k \in DOMAIN log : Targets(k)' = Targets(k)
      /\ Targets(n)' = {i \in Items : e.doc[i] # Doc(Revision)[i]}
  BY <1>1, <1>2, LogGrows
<1>5. \A k, l \in DOMAIN log' : log'[k].cmd = log'[l].cmd => k = l
  BY <1>1, <1>3 DEF LogOK
<1>6. \A k \in DOMAIN log', i \in Items : log'[k].doc[i].val # Absent => log'[k].doc[i].rev > 0
  BY <1>1, <1>3 DEF LogOK
<1>7. ASSUME NEW k \in DOMAIN log', log'[k].cmd \in Ids
      PROVE  /\ fiber'[log'[k].cmd].at \notin {"idle", "queued", "sent"}
             /\ Targets(k)' = Affected(log'[k].cmd)
             /\ \A i \in Affected(log'[k].cmd) : log'[k].doc[i].val = image[log'[k].cmd].after[i]
  <2>1. CASE k = n
    <3>1. log'[k] = e /\ Targets(k)' = {i \in Items : e.doc[i] # Doc(Revision)[i]}
      BY <1>3, <1>4, <2>1
    <3> QED
      BY <1>7, <3>1
  <2>2. CASE k \in DOMAIN log
    <3>1. log'[k] = log[k] /\ Targets(k)' = Targets(k) /\ log[k].cmd # e.cmd
      BY <1>3, <1>4, <2>2
    <3>2. fiber'[log[k].cmd] = fiber[log[k].cmd]
      BY <1>7, <3>1
    <3> QED
      BY <1>1, <1>7, <2>2, <3>1, <3>2 DEF LogOK
  <2> QED
    BY <1>3, <2>1, <2>2
<1>8. \A k : Affected(log[k].cmd)' = Affected(log'[k].cmd)
  BY DEF Affected
<1> QED
  BY <1>5, <1>6, <1>7, <1>8 DEF LogOK

LEMMA StepKeepsFibers ==
  ASSUME IInv, Step PROVE FibersInv'
<1>1. TypeOK /\ FibersInv
  BY DEF IInv, FibersInv
<1>2. ASSUME NEW c \in Ids, UserEdits(c) PROVE FibersInv'
  <2>1. fiber[c].at = "idle"
    BY <1>2 DEF UserEdits
  <2>2. PICK S \in SUBSET Items : \E new \in [S -> Values] : Mutate(c, new)
    BY <1>2 DEF UserEdits
  <2>3. PICK new \in [S -> Values] : Mutate(c, new)
    BY <2>2
  <2>4. /\ UNCHANGED <<log, seen>> /\ fiber'[c].at = "queued"
        /\ \A d \in Ids : d # c => image'[d] = image[d] /\ fiber'[d] = fiber[d]
    BY <2>1, <2>3, MutateStep
  <2>5. \A k : Targets(k)' = Targets(k)
    BY <2>4 DEF Targets, Doc
  <2>6. \A d \in Ids : d # c => Affected(d)' = Affected(d) /\ Removed(d)' = Removed(d)
    BY <2>4 DEF Affected, Removed
  <2>7. \A k \in DOMAIN log : log[k].cmd # c
    BY <1>1, <2>1 DEF FibersInv, LogOK
  <2>8. LogOK'
    BY <1>1, <2>4, <2>5, <2>6, <2>7 DEF FibersInv, LogOK
  <2>9. GuardsOK' /\ AnswersOK' /\ SeenOK'
    BY <1>1, <2>4, <2>6 DEF FibersInv, GuardsOK, AnswersOK, SeenOK
  <2> QED
    BY <2>8, <2>9 DEF FibersInv
<1>3. ASSUME NEW c \in Ids, Quits(c) PROVE FibersInv'
  <2>1. /\ UNCHANGED <<log, image, seen>> /\ fiber'[c].at = "done"
        /\ \A d \in Ids : d # c => fiber'[d] = fiber[d]
    BY <1>3, EndStep DEF Quits, Kept
  <2> QED
    BY <2>1, LogFrame
<1>4. ASSUME NEW c \in Ids, Breaks(c) PROVE FibersInv'
  <2>1. /\ UNCHANGED <<log, image, seen>> /\ fiber'[c].at = "failed"
        /\ \A d \in Ids : d # c => fiber'[d] = fiber[d]
    BY <1>4, RecoverType, FailStep DEF Breaks
  <2> QED
    BY <2>1, LogFrame
<1>5. ASSUME NEW c \in Ids, Leaves(c) PROVE FibersInv'
  <2> DEFINE guards == [i \in Items |-> IF i \in Removed(c) THEN accepted.items[i].rev ELSE 0]
  <2>1. /\ UNCHANGED <<log, image, seen, accepted>>
        /\ fiber' = [fiber EXCEPT ![c].at = "sent", ![c].guards = guards]
        /\ fiber[c].at = "queued" /\ \A i \in Removed(c) : accepted.items[i].val # Absent
    BY <1>5 DEF Leaves, Kept
  <2>2. fiber \in [Ids -> Fiber] /\ fiber[c] \in Fiber
    BY <1>1 DEF TypeOK
  <2>3. \A i \in Removed(c) : i \in Items /\ guards[i] > 0
    <3>1. Removed(c) \subseteq Items
      <4>1. image[c].after \in Images
        BY <1>1 DEF TypeOK, Entry
      <4> QED
        BY <4>1, ImagesOut DEF Removed, Affected
    <3>2. accepted.rev \in 0 .. Revision /\ accepted.items = Doc(accepted.rev)
      BY LogType DEF IInv, AcceptedIsCommitted, TypeOK
    <3>3. \A i \in Removed(c) : accepted.items[i].rev > 0
      BY <2>1, <3>1, <3>2, RowsExist
    <3> QED
      BY <3>1, <3>3
  <2> HIDE DEF guards
  <2>4. /\ fiber'[c].at = "sent" /\ fiber'[c].guards = guards
        /\ \A d \in Ids : d # c => fiber'[d] = fiber[d]
    BY <2>1, <2>2 DEF Fiber
  <2>5. \A k : Targets(k)' = Targets(k)
    BY <2>1 DEF Targets, Doc
  <2>6. \A d : Affected(d)' = Affected(d) /\ Removed(d)' = Removed(d)
    BY <2>1 DEF Affected, Removed
  <2>7. \A k \in DOMAIN log : log[k].cmd # c
    BY <1>1, <2>1 DEF FibersInv, LogOK
  <2>8. LogOK'
    BY <1>1, <2>1, <2>4, <2>5, <2>6, <2>7, ZenonT(40) DEF FibersInv, LogOK
  <2>9. GuardsOK'
    <3>1. ASSUME NEW d \in Ids, fiber'[d].at = "sent", NEW i \in Removed(d)
          PROVE  fiber'[d].guards[i] > 0
      <4>1. CASE d = c
        BY <2>3, <2>4, <3>1, <4>1
      <4>2. CASE d # c
        BY <1>1, <2>4, <3>1, <4>2 DEF FibersInv, GuardsOK
      <4> QED
        BY <4>1, <4>2
    <3> QED
      BY <2>6, <3>1 DEF GuardsOK
  <2>10. AnswersOK' /\ SeenOK'
    BY <1>1, <2>1, <2>4 DEF FibersInv, AnswersOK, SeenOK
  <2> QED
    BY <2>8, <2>9, <2>10 DEF FibersInv
<1>6. ASSUME NEW c \in Ids, Decides(c) PROVE FibersInv'
  <2> DEFINE doc == After(Doc(Revision), image[c].after)
             e == [cmd |-> c, doc |-> doc]
  <2>1. /\ fiber[c].at = "sent" /\ Admits(Doc(Revision), c) /\ log' = Append(log, e)
        /\ \/ fiber' = [fiber EXCEPT ![c].at = "committed", ![c].rev = Revision + 1]
           \/ fiber' = [fiber EXCEPT ![c].at = "refused"]
        /\ UNCHANGED <<image, seen>>
    BY <1>6 DEF Decides, Kept
  <2>2. /\ doc \in [Items -> Row]
        /\ \A i \in Items : doc[i].val # Absent => doc[i].rev > 0
        /\ {i \in Items : doc[i] # Doc(Revision)[i]} = Affected(c)
        /\ \A i \in Affected(c) : doc[i].val = image[c].after[i]
    BY <2>1, DecideRow
  <2> HIDE DEF doc
  <2>3. e \in [cmd : Ids \cup RemoteIds, doc : [Items -> Row]] /\ e.cmd = c /\ e.doc = doc
    BY <2>2
  <2> HIDE DEF e
  <2>4. Revision + 1 \in Nat /\ fiber \in [Ids -> Fiber] /\ fiber[c] \in Fiber
    BY <1>1, LogType DEF TypeOK
  <2>5. /\ fiber'[c].at \in {"committed", "refused"}
        /\ fiber'[c].at = "committed" => fiber'[c].rev = Revision + 1
        /\ \A d \in Ids : d # c => fiber'[d] = fiber[d]
    BY <2>1, <2>4 DEF Fiber
  <2>6. \A k \in DOMAIN log : log[k].cmd # c
    BY <1>1, <2>1 DEF FibersInv, LogOK
  <2>7. LogOK'
    BY <2>1, <2>2, <2>3, <2>5, <2>6, GrowKeepsLog
  <2>8. /\ Revision + 1 \in DOMAIN log' /\ log'[Revision + 1] = e
        /\ \A k \in DOMAIN log : k \in DOMAIN log' /\ log'[k] = log[k]
    BY <1>1, <2>1, <2>3, LogGrows
  <2>9. \A d : Removed(d)' = Removed(d)
    BY <2>1 DEF Removed, Affected
  <2>10. GuardsOK'
    BY <1>1, <2>5, <2>9 DEF FibersInv, GuardsOK
  <2>11. AnswersOK'
    BY <1>1, <2>3, <2>5, <2>8 DEF FibersInv, AnswersOK
  <2>12. SeenOK'
    BY <1>1, <2>1, <2>8 DEF FibersInv, SeenOK
  <2> QED
    BY <2>7, <2>10, <2>11, <2>12 DEF FibersInv
<1>7. ASSUME NEW c \in Ids, Loses(c) PROVE FibersInv'
  <2>1. /\ UNCHANGED <<log, image, seen>> /\ fiber'[c].at = "refused" /\ fiber[c].at = "sent"
        /\ \A d \in Ids : d # c => fiber'[d] = fiber[d]
    BY <1>7, PutStep DEF Loses, Kept, Stages
  <2> QED
    BY <2>1, LogFrame
<1>8. ASSUME NEW c \in Ids, Waits(c) PROVE FibersInv'
  <2>1. fiber' = [fiber EXCEPT ![c].at = "late", ![c].gate = recovery.count]
        /\ recovery.count \in Nat /\ "late" \in Stages /\ fiber[c].at = "committed"
        /\ UNCHANGED <<log, image, seen>>
    BY <1>1, <1>8 DEF Waits, Kept, TypeOK, Stages
  <2>2. /\ fiber'[c].at = "late" /\ fiber'[c].rev = fiber[c].rev
        /\ \A d \in Ids : d # c => fiber'[d] = fiber[d]
    BY <2>1, GateStep
  <2> QED
    BY <2>1, <2>2, LogFrame
<1>9. ASSUME NEW r, Accepts(r)
      PROVE  /\ UNCHANGED <<log, image>>
             /\ \A d \in seen' : d \in seen \/ \E k \in DOMAIN log : log[k].cmd = d
  BY <1>9 DEF Accepts, Install
<1>10. ASSUME NEW c \in Ids, AcceptsAnswer(c) PROVE FibersInv'
  <2>1. /\ UNCHANGED <<log, image>>
        /\ \A d \in seen' : d \in seen \/ \E k \in DOMAIN log : log[k].cmd = d
    BY <1>9, <1>10 DEF AcceptsAnswer
  <2>2. /\ fiber'[c].at = "done" /\ \A d \in Ids : d # c => fiber'[d] = fiber[d]
    BY <1>10, EndStep DEF AcceptsAnswer
  <2>3. fiber[c].at \in {"committed", "late"}
    BY <1>10 DEF AcceptsAnswer
  <2> QED
    BY <2>1, <2>2, <2>3, LogFrame
<1>11. CASE AcceptsEvent
  <2>1. /\ UNCHANGED <<log, image, fiber>>
        /\ \A d \in seen' : d \in seen \/ \E k \in DOMAIN log : log[k].cmd = d
    BY <1>9, <1>11 DEF AcceptsEvent
  <2> QED
    BY <2>1, LogFrame
<1>12. CASE Falls \/ Streams \/ ReadSnapshot \/ SnapshotFails \/ InstallSnapshot \/ UNCHANGED vars
  <2>1. UNCHANGED <<log, image, fiber, seen>>
    BY <1>12 DEF Falls, Streams, Kept, ReadSnapshot, SnapshotFails, InstallSnapshot, document, vars
  <2> QED
    BY <2>1, LogFrame
<1>13. ASSUME NEW r \in RemoteIds, Remote(r) PROVE FibersInv'
  <2> DEFINE doc == After(Doc(Revision), Image(RemoteEdit[r], r))
             e == [cmd |-> r, doc |-> doc]
  <2>1. /\ log' = Append(log, e) /\ UNCHANGED <<image, seen, fiber>>
        /\ \A k \in DOMAIN log : log[k].cmd # r
    BY <1>13 DEF Remote, document
  <2>2. /\ doc \in [Items -> Row]
        /\ \A i \in Items : doc[i].val # Absent => doc[i].rev > 0
    BY RemoteRow
  <2> HIDE DEF doc
  <2>3. e \in [cmd : Ids \cup RemoteIds, doc : [Items -> Row]] /\ e.cmd = r /\ e.doc = doc
    BY <2>2
  <2> HIDE DEF e
  <2>4. r \notin Ids
    BY NameAssumption
  <2>5. LogOK'
    BY <2>1, <2>2, <2>3, <2>4, GrowKeepsLog
  <2>6. \A k \in DOMAIN log : k \in DOMAIN log' /\ log'[k] = log[k]
    BY <1>1, <2>1, <2>3, LogGrows
  <2>7. \A d : Removed(d)' = Removed(d)
    BY <2>1 DEF Removed, Affected
  <2>8. GuardsOK' /\ AnswersOK' /\ SeenOK'
    BY <1>1, <2>1, <2>6, <2>7 DEF FibersInv, GuardsOK, AnswersOK, SeenOK
  <2> QED
    BY <2>5, <2>8 DEF FibersInv
<1> QED
  BY <1>2, <1>3, <1>4, <1>5, <1>6, <1>7, <1>8, <1>10, <1>11, <1>12, <1>13 DEF Step

-----------------------------------------------------------------------------
(***************************************************************************)
(* What is accepted, and the snapshot that may replace it.                 *)
(***************************************************************************)
AcceptedInv == AcceptedIsCommitted /\ SnapshotOK /\ stream.cursor <= Revision

LEMMA AcceptedFrame ==
  ASSUME IInv,
         Revision' \in Nat, Revision' >= Revision, \A k \in 0 .. Revision : Doc(k)' = Doc(k),
         accepted' = accepted, stream'.cursor <= Revision',
         recovery' = recovery \/ recovery'.at # "answered",
         \A c \in Ids : fiber'[c].at = "late" /\ fiber'[c].gate # recovery.count =>
           fiber[c].at = "late" /\ fiber'[c].gate = fiber[c].gate /\ fiber'[c].rev = fiber[c].rev
  PROVE  AcceptedInv'
<1>1. TypeOK /\ AcceptedIsCommitted /\ SnapshotOK
  BY DEF IInv
<1>2. Revision \in Nat /\ accepted.rev \in Nat /\ recovery.rev \in Nat
  BY <1>1, LogType DEF TypeOK
<1>3. accepted.rev \in 0 .. Revision
  BY <1>1, <1>2 DEF AcceptedIsCommitted
<1>4. AcceptedIsCommitted'
  <2>1. \A k \in 0 .. Revision : k = accepted.rev => Doc(k)' = accepted.items
    BY <1>1 DEF AcceptedIsCommitted
  <2>2. Doc(accepted.rev)' = accepted.items
    BY <1>3, <2>1
  <2> QED
    BY <1>2, <1>3, <2>2 DEF AcceptedIsCommitted
<1>5. CASE recovery'.at # "answered"
  BY <1>4, <1>5 DEF AcceptedInv, SnapshotOK
<1>6. CASE recovery' = recovery /\ recovery.at = "answered"
  <2>1. recovery.rev \in 0 .. Revision /\ recovery.items = Doc(recovery.rev)
    BY <1>1, <1>2, <1>6 DEF SnapshotOK
  <2>2. \A k \in 0 .. Revision : k = recovery.rev => Doc(k)' = recovery.items
    BY <2>1
  <2>3. Doc(recovery.rev)' = recovery'.items
    BY <1>6, <2>1, <2>2
  <2>4. recovery'.rev <= Revision'
    BY <1>2, <1>6, <2>1
  <2>5. \A c \in Ids : fiber'[c].at = "late" /\ fiber'[c].gate # recovery'.count =>
          fiber'[c].rev <= recovery'.rev
    BY <1>1, <1>6 DEF SnapshotOK
  <2>6. SnapshotOK'
    BY <1>1, <1>6, <2>3, <2>4, <2>5 DEF SnapshotOK
  <2> QED
    BY <1>4, <2>6 DEF AcceptedInv
<1> QED
  BY <1>5, <1>6

LEMMA SameLog ==
  ASSUME IInv, UNCHANGED log
  PROVE  Revision' = Revision /\ Revision \in Nat /\ \A k : Doc(k)' = Doc(k)
BY LogType DEF IInv, Revision, Doc

LEMMA AcceptsStep ==
  ASSUME IInv, NEW r, Accepts(r)
  PROVE  /\ r \in 1 .. Revision /\ r = accepted.rev + 1
         /\ accepted' = [rev |-> r, items |-> Doc(r)]
         /\ UNCHANGED <<log, image, recovery, generation>>
<1>1. TypeOK /\ AcceptedIsCommitted
  BY DEF IInv
<1>2. r \in 1 .. Revision /\ r = accepted.rev + 1 /\ Install(r) /\ UNCHANGED <<log, image>>
  BY <1>1, LogType DEF Accepts
<1>3. /\ accepted' = [rev |-> r, items |-> [i \in Items |-> IF i \in Targets(r) THEN Doc(r)[i]
                                                            ELSE accepted.items[i]]]
      /\ UNCHANGED <<recovery, generation>>
  BY <1>2 DEF Install
<1>4. accepted.rev \in Nat /\ r - 1 = accepted.rev /\ r \in 0 .. Revision
  <2>1. accepted.rev \in Nat
    BY <1>1 DEF TypeOK
  <2>2. Revision \in Nat
    BY LogType, <1>1 DEF Revision
  <2> QED
    BY <1>2, <2>1, <2>2
<1>5. Doc(r) \in [Items -> Row]
  BY <1>1, <1>4, DocType
<1>6. \A i \in Items : i \notin Targets(r) => Doc(r)[i] = accepted.items[i]
  BY <1>1, <1>4 DEF Targets, AcceptedIsCommitted
<1>7. [i \in Items |-> IF i \in Targets(r) THEN Doc(r)[i] ELSE accepted.items[i]] = Doc(r)
  BY <1>5, <1>6
<1> QED
  BY <1>2, <1>3, <1>7

LEMMA AcceptsKeepsAccepted ==
  ASSUME IInv, NEW r, Accepts(r), stream'.cursor <= Revision,
         recovery.at = "answered" => r <= recovery.rev,
         \A c \in Ids : fiber'[c].at = "late" => fiber'[c] = fiber[c]
  PROVE  AcceptedInv'
<1>1. /\ r \in 1 .. Revision /\ accepted' = [rev |-> r, items |-> Doc(r)]
      /\ UNCHANGED <<log, recovery>>
  BY AcceptsStep
<1>2. Revision' = Revision /\ Revision \in Nat /\ \A k : Doc(k)' = Doc(k)
  BY <1>1, SameLog
<1>3. accepted'.rev = r /\ accepted'.items = Doc(r)
  BY <1>1
<1>4. Doc(accepted.rev)' = Doc(r)
  <2>1. \A k : k = r => Doc(k)' = Doc(r)
    BY <1>2
  <2> QED
    BY <1>3, <1>1 DEF Doc
<1>5. AcceptedIsCommitted'
  BY <1>1, <1>2, <1>3, <1>4 DEF AcceptedIsCommitted
<1>6. ASSUME recovery.at = "answered"
      PROVE  /\ recovery.rev <= Revision /\ recovery.items = Doc(recovery.rev)
             /\ \A c \in Ids : fiber[c].at = "late" /\ fiber[c].gate # recovery.count =>
                  fiber[c].rev <= recovery.rev
  BY <1>6 DEF IInv, SnapshotOK
<1>7. Doc(recovery.rev)' = Doc(recovery.rev)
  BY <1>1 DEF Doc
<1>8. SnapshotOK'
  BY <1>1, <1>2, <1>3, <1>6, <1>7 DEF SnapshotOK
<1> QED
  BY <1>2, <1>5, <1>8 DEF AcceptedInv

LEMMA StepKeepsAccepted ==
  ASSUME IInv, Step, TypeOK' PROVE AcceptedInv'
<1>1. TypeOK /\ stream.cursor <= Revision /\ Revision \in Nat /\ Revision' \in Nat
  <2>1. TypeOK /\ stream.cursor <= Revision /\ Revision \in Nat
    BY LogType DEF IInv
  <2>2. Revision' \in Nat
    BY LenProperties DEF TypeOK, Revision
  <2> QED
    BY <2>1, <2>2
<1>2. ASSUME UNCHANGED <<log, accepted>>, stream'.cursor <= Revision,
             recovery' = recovery \/ recovery'.at # "answered",
             \A c \in Ids : fiber'[c].at = "late" /\ fiber'[c].gate # recovery.count =>
               fiber[c].at = "late" /\ fiber'[c].gate = fiber[c].gate /\ fiber'[c].rev = fiber[c].rev
      PROVE  AcceptedInv'
  <2>1. Revision' = Revision /\ \A k : Doc(k)' = Doc(k)
    BY <1>2, SameLog
  <2> QED
    BY <1>1, <1>2, <2>1, AcceptedFrame
<1>3. ASSUME NEW c \in Ids, UserEdits(c) PROVE AcceptedInv'
  <2>1. fiber[c].at = "idle"
    BY <1>3 DEF UserEdits
  <2>2. PICK S \in SUBSET Items : \E new \in [S -> Values] : Mutate(c, new)
    BY <1>3 DEF UserEdits
  <2>3. PICK new \in [S -> Values] : Mutate(c, new)
    BY <2>2
  <2>4. /\ UNCHANGED <<log, accepted, recovery, stream>>
        /\ fiber'[c].at = "queued" /\ \A d \in Ids : d # c => fiber'[d] = fiber[d]
    BY <2>1, <2>3, MutateStep
  <2> QED
    BY <1>1, <1>2, <2>4
<1>4. ASSUME NEW c \in Ids, Quits(c) PROVE AcceptedInv'
  <2>1. /\ UNCHANGED <<log, accepted, recovery, stream>> /\ fiber'[c].at = "done"
        /\ \A d \in Ids : d # c => fiber'[d] = fiber[d]
    BY <1>4, EndStep DEF Quits, Kept
  <2> QED
    BY <1>1, <1>2, <2>1
<1>5. ASSUME Recover PROVE recovery' = recovery \/ recovery'.at # "answered"
  BY <1>5 , RecoverType
<1>6. ASSUME NEW c \in Ids, Breaks(c) PROVE AcceptedInv'
  <2>1. /\ UNCHANGED <<log, accepted, stream>> /\ fiber'[c].at = "failed"
        /\ recovery' = recovery \/ recovery'.at # "answered"
        /\ \A d \in Ids : d # c => fiber'[d] = fiber[d]
    BY <1>5, <1>6, RecoverType, FailStep DEF Breaks
  <2> QED
    BY <1>1, <1>2, <2>1
<1>7. ASSUME NEW c \in Ids, Leaves(c) PROVE AcceptedInv'
  <2>1. /\ UNCHANGED <<log, accepted, recovery, stream>>
        /\ fiber'[c].at = "sent" /\ \A d \in Ids : d # c => fiber'[d] = fiber[d]
    <3>1. fiber \in [Ids -> Fiber] /\ fiber[c] \in Fiber
      BY <1>1 DEF TypeOK
    <3> QED
      BY <1>7, <3>1 DEF Leaves, Kept, Fiber
  <2> QED
    BY <1>1, <1>2, <2>1
<1>8. ASSUME NEW c \in Ids, Decides(c) PROVE AcceptedInv'
  <2> DEFINE e == [cmd |-> c, doc |-> After(Doc(Revision), image[c].after)]
  <2>1. /\ log' = Append(log, e) /\ UNCHANGED <<accepted, recovery, stream>>
        /\ fiber[c].at = "sent" /\ Admits(Doc(Revision), c)
        /\ \/ fiber' = [fiber EXCEPT ![c].at = "committed", ![c].rev = Revision + 1]
           \/ fiber' = [fiber EXCEPT ![c].at = "refused"]
    BY <1>8 DEF Decides, Kept
  <2>2. After(Doc(Revision), image[c].after) \in [Items -> Row]
    BY <2>1, DecideRow
  <2>3. fiber'[c].at # "late" /\ \A d \in Ids : d # c => fiber'[d] = fiber[d]
    <3>1. fiber \in [Ids -> Fiber] /\ fiber[c] \in Fiber
      BY <1>1 DEF TypeOK
    <3> QED
      BY <2>1, <3>1 DEF Fiber
  <2>4. e \in [cmd : Ids \cup RemoteIds, doc : [Items -> Row]]
    BY <2>2
  <2>5. Revision' = Revision + 1 /\ \A k \in 0 .. Revision : Doc(k)' = Doc(k)
    BY <1>1, <2>1, <2>4, LogGrows
  <2>6. Revision' >= Revision /\ stream'.cursor <= Revision'
    <3>1. stream.cursor \in Nat
      BY <1>1 DEF TypeOK
    <3> QED
      BY <1>1, <2>1, <2>5, <3>1
  <2> QED
    BY <1>1, <2>1, <2>3, <2>5, <2>6, AcceptedFrame
<1>9. ASSUME NEW c \in Ids, Loses(c) PROVE AcceptedInv'
  <2>1. /\ UNCHANGED <<log, accepted, recovery, stream>> /\ fiber'[c].at = "refused"
        /\ \A d \in Ids : d # c => fiber'[d] = fiber[d]
    BY <1>9, PutStep DEF Loses, Kept, Stages
  <2> QED
    BY <1>1, <1>2, <2>1
<1>10. ASSUME NEW c \in Ids, Waits(c) PROVE AcceptedInv'
  <2>1. fiber' = [fiber EXCEPT ![c].at = "late", ![c].gate = recovery.count]
        /\ recovery.count \in Nat /\ "late" \in Stages
        /\ UNCHANGED <<log, accepted, recovery, stream>>
    BY <1>1, <1>10 DEF Waits, Kept, TypeOK, Stages
  <2>2. /\ fiber'[c].gate = recovery.count /\ fiber'[c].rev = fiber[c].rev
        /\ fiber'[c].at = "late" /\ \A d \in Ids : d # c => fiber'[d] = fiber[d]
    <3>1. fiber \in [Ids -> Fiber] /\ fiber[c] \in Fiber
      BY <1>1 DEF TypeOK
    <3> QED
      BY <2>1, <3>1 DEF Fiber
  <2> QED
    BY <1>1, <1>2, <2>1, <2>2
<1>11. ASSUME NEW c \in Ids, AcceptsAnswer(c) PROVE AcceptedInv'
  <2>1. /\ fiber'[c].at = "done" /\ \A d \in Ids : d # c => fiber'[d] = fiber[d]
    BY <1>11, EndStep DEF AcceptsAnswer
  <2>2. recovery.at = "answered" => fiber[c].rev <= recovery.rev
    BY <1>11 DEF AcceptsAnswer, Recovering, IInv, SnapshotOK
  <2> QED
    BY <1>1, <1>11, <2>1, <2>2, AcceptsKeepsAccepted DEF AcceptsAnswer
<1>12. CASE AcceptsEvent
  <2>1. Accepts(stream.cursor + 1) /\ ~Recovering /\ UNCHANGED fiber
        /\ stream' = [stream EXCEPT !.cursor = stream.cursor + 1]
    BY <1>12 DEF AcceptsEvent
  <2>2. stream.cursor + 1 <= Revision
    BY <1>1, <2>1, AcceptsStep
  <2>3. stream'.cursor <= Revision
    BY <1>1, <2>1, <2>2 DEF TypeOK
  <2> QED
    BY <2>1, <2>3, AcceptsKeepsAccepted DEF Recovering
<1>13. CASE Falls
  <2>1. stream'.cursor = stream.cursor /\ UNCHANGED <<log, accepted, fiber>>
    BY <1>13 DEF Falls
  <2>2. recovery' = recovery \/ recovery'.at # "answered"
    BY <1>5, <1>13 DEF Falls
  <2> QED
    BY <1>1, <1>2, <2>1, <2>2
<1>14. CASE Streams
  <2>1. stream'.cursor \in 0 .. Revision /\ UNCHANGED <<log, accepted, fiber, recovery>>
    BY <1>14 DEF Streams, Kept
  <2>2. stream'.cursor <= Revision
    BY <1>1, <2>1
  <2> QED
    BY <1>2, <2>1, <2>2
<1>15. CASE ReadSnapshot
  <2>1. /\ UNCHANGED <<log, accepted, fiber, stream>>
        /\ recovery' = [recovery EXCEPT !.at = "answered", !.rev = Revision, !.items = Doc(Revision)]
    BY <1>15 DEF ReadSnapshot, document
  <2>2. recovery'.rev = Revision /\ recovery'.items = Doc(Revision)
    BY <1>1, <2>1 DEF TypeOK
  <2>3. Revision' = Revision /\ \A k : Doc(k)' = Doc(k)
    BY <2>1, SameLog
  <2>4. AcceptedIsCommitted' /\ accepted'.rev <= recovery'.rev
    BY <1>1, <2>1, <2>2, <2>3 DEF IInv, AcceptedIsCommitted, Doc
  <2>5. \A c \in Ids : fiber'[c].at = "late" => fiber'[c].rev <= recovery'.rev
    <3>1. ASSUME NEW c \in Ids, fiber[c].at = "late" PROVE fiber[c].rev <= Revision
      BY <1>1, <3>1, AnswerRange, LogType
    <3> QED
      BY <2>1, <2>2, <3>1
  <2>6. Doc(recovery.rev)' = recovery'.items
    BY <2>1, <2>2 DEF Doc
  <2>7. SnapshotOK'
    BY <1>1, <2>2, <2>3, <2>4, <2>5, <2>6 DEF SnapshotOK
  <2> QED
    BY <1>1, <2>1, <2>3, <2>4, <2>7 DEF AcceptedInv
<1>16. CASE SnapshotFails
  <2>1. /\ UNCHANGED <<log, accepted, fiber, stream>> /\ recovery' = [recovery EXCEPT !.at = "asked"]
    BY <1>16 DEF SnapshotFails, document
  <2>2. recovery'.at # "answered"
    BY <1>1, <2>1 DEF TypeOK
  <2> QED
    BY <1>1, <1>2, <2>1, <2>2
<1>17. CASE InstallSnapshot
  <2>1. /\ UNCHANGED <<log, stream>> /\ recovery.at = "answered"
        /\ accepted' = [rev |-> recovery.rev, items |-> recovery.items]
        /\ recovery' = [recovery EXCEPT !.at = "no"]
    BY <1>17 DEF InstallSnapshot
  <2>2. recovery.rev <= Revision /\ recovery.items = Doc(recovery.rev)
    BY <2>1 DEF IInv, SnapshotOK
  <2>3. Revision' = Revision /\ \A k : Doc(k)' = Doc(k)
    BY <2>1, SameLog
  <2>4. AcceptedIsCommitted'
    BY <2>1, <2>2, <2>3 DEF AcceptedIsCommitted, Doc
  <2>5. recovery'.at = "no"
    BY <1>1, <2>1 DEF TypeOK
  <2>6. SnapshotOK'
    BY <2>5 DEF SnapshotOK
  <2> QED
    BY <1>1, <2>1, <2>3, <2>4, <2>6 DEF AcceptedInv
<1>18. ASSUME NEW r \in RemoteIds, Remote(r) PROVE AcceptedInv'
  <2> DEFINE e == [cmd |-> r, doc |-> After(Doc(Revision), Image(RemoteEdit[r], r))]
  <2>1. log' = Append(log, e) /\ UNCHANGED <<accepted, fiber, recovery, stream>>
    BY <1>18 DEF Remote, document
  <2>2. After(Doc(Revision), Image(RemoteEdit[r], r)) \in [Items -> Row]
    BY RemoteRow
  <2>3. e \in [cmd : Ids \cup RemoteIds, doc : [Items -> Row]]
    BY <2>2
  <2>4. Revision' = Revision + 1 /\ \A k \in 0 .. Revision : Doc(k)' = Doc(k)
    BY <1>1, <2>1, <2>3, LogGrows
  <2>5. Revision' >= Revision /\ stream'.cursor <= Revision'
    <3>1. stream.cursor \in Nat
      BY <1>1 DEF TypeOK
    <3> QED
      BY <1>1, <2>1, <2>4, <3>1
  <2> QED
    BY <1>1, <2>1, <2>4, <2>5, AcceptedFrame
<1>19. CASE UNCHANGED vars
  BY <1>1, <1>2, <1>19 DEF vars, document
<1> QED
  BY <1>3, <1>4, <1>6, <1>7, <1>8, <1>9, <1>10, <1>11, <1>12, <1>13, <1>14, <1>15, <1>16,
     <1>17, <1>18, <1>19 DEF Step

-----------------------------------------------------------------------------
(***************************************************************************)
(* What is pending, and the lane.                                          *)
(***************************************************************************)
QueueInv == PendingOK /\ LaneOK

LEMMA PendingType ==
  ASSUME IInv
  PROVE  /\ pending \in Seq(Ids) /\ Len(pending) \in Nat /\ DOMAIN pending = 1 .. Len(pending)
         /\ \A k \in DOMAIN pending : pending[k] \in Ids
         /\ lane \in Seq(Ids) /\ Len(lane) \in Nat /\ DOMAIN lane = 1 .. Len(lane)
         /\ \A k \in DOMAIN lane : lane[k] \in Ids
BY LenProperties, ElementOfSeq DEF IInv, TypeOK

LEMMA SentIsHead ==
  ASSUME IInv, NEW c \in Ids, IsPending(c), fiber[c].at # "queued"
  PROVE  1 \in DOMAIN pending /\ pending[1] = c
BY DEF IInv, PendingOK, IsPending

\* The serial lane: an operation has its turn when nothing of its generation
\* is before it, so its command is the oldest of those that are pending.
LEMMA TurnIsHead ==
  ASSUME IInv, NEW c \in Ids, IsPending(c), HasLane(c)
  PROVE  1 \in DOMAIN pending /\ pending[1] = c
<1>1. PICK k \in DOMAIN pending : pending[k] = c
  BY DEF IsPending
<1>2. 1 \in DOMAIN pending
  BY <1>1, PendingType
<1>3. SUFFICES ASSUME k # 1 PROVE FALSE
  BY <1>1, <1>2
<1> DEFINE d == pending[1]
<1>4. d \in Ids /\ fiber[d].gen = generation /\ fiber[c].gen = generation
  BY <1>1, <1>2, PendingType DEF IInv, PendingOK
<1>5. Before(pending, d, c)
  <2>1. 1 < k
    BY <1>1, <1>3, PendingType
  <2> QED
    BY <1>1, <1>2, <2>1 DEF Before
<1>6. Before(lane, d, c)
  BY <1>4, <1>5 DEF IInv, LaneOK
<1>7. PICK l, m \in DOMAIN lane : l < m /\ lane[l] = d /\ lane[m] = c
  BY <1>6 DEF Before
<1>8. PICK n \in DOMAIN lane : lane[n] = c /\ \A j \in 1 .. n - 1 : fiber[lane[j]].gen # fiber[c].gen
  BY DEF HasLane
<1>9. m = n
  BY <1>7, <1>8 DEF IInv, LaneOK, Distinct
<1>10. l \in 1 .. n - 1
  BY <1>7, <1>9, PendingType
<1> QED
  BY <1>4, <1>7, <1>8, <1>10

LEMMA QueueEmpty ==
  ASSUME pending' = <<>>, Distinct(lane'),
         \A d \in Ids : Within(lane', d) <=> fiber'[d].at \notin {"idle", "done"}
  PROVE  QueueInv'
<1>1. DOMAIN pending' = {}
  <2>1. Len(<<>>) = 0 /\ DOMAIN <<>> = 1 .. 0
    OBVIOUS
  <2> QED
    BY <2>1
<1> QED
  BY <1>1 DEF QueueInv, PendingOK, LaneOK, Distinct, Before

LEMMA QueueSame ==
  ASSUME IInv, UNCHANGED <<pending, generation, seen, accepted>>,
         Recovering' => Recovering,
         Distinct(lane'),
         \A d \in Ids : Within(lane', d) <=> fiber'[d].at \notin {"idle", "done"},
         \A d, e \in Ids : IsPending(d) /\ IsPending(e) /\ Before(lane, d, e) => Before(lane', d, e),
         \A d \in Ids : IsPending(d) =>
           \/ fiber'[d] = fiber[d]
           \/ /\ fiber'[d].at \in {"sent", "committed", "refused"} /\ pending[1] = d
              /\ fiber'[d].gen = fiber[d].gen
              /\ fiber'[d].at = "committed" => accepted.rev < fiber'[d].rev
  PROVE  QueueInv'
<1>1. PendingOK /\ LaneOK
  BY DEF IInv
<1>2. \A k \in DOMAIN pending : pending[k] \in Ids /\ IsPending(pending[k])
  BY PendingType DEF IsPending
<1>3. 1 \in DOMAIN pending \/ DOMAIN pending = {}
  BY PendingType
<1>4. ASSUME NEW k \in DOMAIN pending
      PROVE  /\ fiber'[pending[k]].at \in {"queued", "sent", "committed", "refused"}
             /\ fiber'[pending[k]].at # "queued" => k = 1
             /\ fiber'[pending[k]].gen = generation
             /\ fiber'[pending[k]].at = "committed" => accepted.rev < fiber'[pending[k]].rev
  <2>1. CASE fiber'[pending[k]] = fiber[pending[k]]
    BY <1>1, <2>1 DEF PendingOK
  <2>2. CASE /\ fiber'[pending[k]].at \in {"sent", "committed", "refused"} /\ pending[1] = pending[k]
             /\ fiber'[pending[k]].gen = fiber[pending[k]].gen
             /\ fiber'[pending[k]].at = "committed" => accepted.rev < fiber'[pending[k]].rev
    <3>1. k = 1
      BY <1>1, <1>3, <2>2 DEF PendingOK, Distinct
    <3> QED
      BY <1>1, <2>2, <3>1 DEF PendingOK
  <2> QED
    BY <1>2, <2>1, <2>2
<1>5. PendingOK'
  BY <1>1, <1>4 DEF PendingOK, Distinct
<1>6. \A d, e \in Ids : Before(pending, d, e) => IsPending(d) /\ IsPending(e)
  BY DEF Before, IsPending
<1>7. \A d, e \in Ids : Before(pending, d, e)' => Before(lane, d, e)'
  BY <1>1, <1>6 DEF LaneOK, Before
<1>8. LaneOK'
  BY <1>7 DEF LaneOK, Within
<1> QED
  BY <1>5, <1>8 DEF QueueInv

\* An own commit that is still pending is the oldest pending one.
LEMMA OwnIsHead ==
  ASSUME IInv, NEW r \in DOMAIN log, Own(r)
  PROVE  /\ log[r].cmd \in Ids /\ 1 \in DOMAIN pending /\ pending[1] = log[r].cmd
         /\ Targets(r) = Affected(log[r].cmd)
         /\ \A i \in Affected(log[r].cmd) : log[r].doc[i].val = image[log[r].cmd].after[i]
<1>1. log[r].cmd \in Ids
  BY PendingType DEF Own, IsPending
<1>2. /\ fiber[log[r].cmd].at \notin {"idle", "queued", "sent"}
      /\ Targets(r) = Affected(log[r].cmd)
      /\ \A i \in Affected(log[r].cmd) : log[r].doc[i].val = image[log[r].cmd].after[i]
  BY <1>1 DEF IInv, LogOK
<1> QED
  BY <1>1, <1>2, SentIsHead DEF Own

LEMMA QueueAccept ==
  ASSUME IInv, NEW r, Accepts(r),
         \A d \in Ids : d # log[r].cmd => fiber'[d] = fiber[d],
         Distinct(lane'),
         \A d \in Ids : Within(lane', d) <=> fiber'[d].at \notin {"idle", "done"},
         \A d, e \in Ids : d # log[r].cmd /\ e # log[r].cmd /\ Before(lane, d, e) => Before(lane', d, e)
  PROVE  QueueInv'
<1> DEFINE p == log[r].cmd
<1>1. /\ r \in DOMAIN log /\ r = accepted.rev + 1 /\ accepted.rev \in Nat
      /\ pending' = RemoveFirst(pending, p) /\ seen' = seen \cup {p} /\ accepted'.rev = r
      /\ UNCHANGED <<generation, recovery>>
  BY AcceptsStep DEF Accepts, Install, Retires, IInv, TypeOK
<1>2. PendingOK /\ LaneOK /\ pending \in Seq(Ids) /\ Distinct(pending)
  BY PendingType DEF IInv, PendingOK
<1>3. /\ pending' \in Seq(Ids) /\ Distinct(pending')
      /\ \A x : Within(pending', x) <=> Within(pending, x) /\ x # p
      /\ \A x, y : Before(pending', x, y) <=> Before(pending, x, y) /\ x # p /\ y # p
  BY <1>1, <1>2, RemoveFirstKeeps
<1>4. Recovering' => pending' = <<>>
  <2>1. SUFFICES ASSUME Recovering PROVE pending' = <<>>
    BY <1>1 DEF Recovering
  <2>2. pending = <<>>
    BY <1>2, <2>1 DEF PendingOK
  <2>3. ~Within(pending, p)
    BY <2>2 DEF Within
  <2> QED
    BY <1>1, <1>2, <2>2, <2>3, RemoveFirstIsRemoveAt
<1> HIDE DEF p
<1>5. ASSUME NEW k \in DOMAIN pending'
      PROVE  /\ fiber'[pending'[k]].at \in {"queued", "sent", "committed", "refused"}
             /\ fiber'[pending'[k]].at # "queued" => k = 1
             /\ fiber'[pending'[k]].gen = generation
             /\ pending'[k] \notin seen'
             /\ fiber'[pending'[k]].at = "committed" => r < fiber'[pending'[k]].rev
  <2> DEFINE x == pending'[k]
  <2>1. Within(pending', x)
    BY DEF Within
  <2>2. PICK l \in DOMAIN pending : pending[l] = x
    BY <1>3, <2>1 DEF Within
  <2>3. x # p /\ x \in Ids
    BY <1>3, <2>1, <2>2, PendingType
  <2>4. fiber'[x] = fiber[x]
    BY <2>3 DEF p
  <2>5. /\ fiber[x].at \in {"queued", "sent", "committed", "refused"}
        /\ fiber[x].at # "queued" => l = 1
        /\ fiber[x].gen = generation /\ x \notin seen
        /\ fiber[x].at = "committed" => accepted.rev < fiber[x].rev
    BY <1>2, <2>2 DEF PendingOK
  <2>6. fiber[x].at = "committed" => r < fiber[x].rev
    <3>1. SUFFICES ASSUME fiber[x].at = "committed" PROVE r < fiber[x].rev
      OBVIOUS
    <3>2. fiber[x].rev \in DOMAIN log /\ log[fiber[x].rev].cmd = x
      BY <2>3, <3>1, AnswerRange
    <3>3. fiber[x].rev # r
      BY <2>3, <3>2 DEF p
    <3>4. fiber[x].rev \in Int
      BY <3>2, LogType DEF IInv
    <3> QED
      BY <1>1, <2>5, <3>1, <3>3, <3>4
  <2>7. fiber[x].at # "queued" => k = 1
    <3>1. SUFFICES ASSUME fiber[x].at # "queued" PROVE k = 1
      OBVIOUS
    <3>2. l = 1
      BY <2>5, <3>1
    <3>3. ~Own(r)
      <4>1. SUFFICES ASSUME Own(r) PROVE FALSE
        OBVIOUS
      <4>2. pending[1] = p
        BY <1>1, <4>1, OwnIsHead DEF p
      <4> QED
        BY <2>2, <2>3, <3>2, <4>2
    <3>4. ~Within(pending, p)
      BY <3>3 DEF Own, IsPending, Within, p
    <3>5. pending' = pending
      BY <1>1, <1>2, <3>4, RemoveFirstIsRemoveAt
    <3> QED
      BY <1>2, <2>2, <3>2, <3>5 DEF Distinct
  <2> HIDE DEF x
  <2>8. x \notin seen'
    BY <1>1, <2>3, <2>5
  <2> QED
    BY <2>4, <2>5, <2>6, <2>7, <2>8 DEF x
<1>6. PendingOK'
  BY <1>1, <1>3, <1>4, <1>5 DEF PendingOK
<1>7. \A d, e \in Ids : Before(pending', d, e) => Before(lane', d, e)
  BY <1>2, <1>3 DEF LaneOK, p
<1>8. LaneOK'
  BY <1>7 DEF LaneOK, Within, Before
<1> QED
  BY <1>6, <1>8 DEF QueueInv

LEMMA QueueEdit ==
  ASSUME IInv, NEW c \in Ids, UserEdits(c)
  PROVE  QueueInv'
<1>1. fiber[c].at = "idle" /\ ~Recovering
  BY DEF UserEdits
<1>2. PICK S \in SUBSET Items : \E new \in [S -> Values] : Mutate(c, new)
  BY DEF UserEdits
<1>3. PICK new \in [S -> Values] : Mutate(c, new)
  BY <1>2
<1>4. /\ UNCHANGED <<log, accepted, seen, generation, recovery>>
      /\ fiber'[c].at = "queued" /\ fiber'[c].gen = generation
      /\ \A d \in Ids : d # c => fiber'[d] = fiber[d]
      /\ pending' = Append(pending, c) /\ lane' = Append(lane, c)
  BY <1>1, <1>3, MutateStep
<1>5. PendingOK /\ LaneOK /\ SeenOK /\ LogOK /\ Distinct(pending) /\ Distinct(lane)
  BY DEF IInv, PendingOK, LaneOK
<1>6. \A k \in DOMAIN pending : pending[k] # c
  BY <1>1, <1>5 DEF PendingOK
<1>7. ~Within(pending, c) /\ ~Within(lane, c)
  BY <1>1, <1>5, <1>6 DEF LaneOK, Within
<1>8. c \notin seen
  BY <1>1, <1>5 DEF SeenOK, LogOK
<1>9. /\ pending' \in Seq(Ids) /\ Distinct(pending')
      /\ \A x, y : Before(pending', x, y) <=> Before(pending, x, y) \/ (Within(pending, x) /\ y = c)
  BY <1>4, <1>5, <1>7, PendingType, AppendKeeps
<1>10. /\ lane' \in Seq(Ids) /\ Distinct(lane')
       /\ \A x : Within(lane', x) <=> Within(lane, x) \/ x = c
       /\ \A x, y : Before(lane', x, y) <=> Before(lane, x, y) \/ (Within(lane, x) /\ y = c)
  BY <1>4, <1>5, <1>7, PendingType, AppendKeeps
<1>11. /\ Len(pending') = Len(pending) + 1 /\ DOMAIN pending' = 1 .. Len(pending')
       /\ \A k \in 1 .. Len(pending) : pending'[k] = pending[k]
       /\ pending'[Len(pending) + 1] = c
  BY <1>4, <1>9, PendingType, AppendProperties, LenProperties
<1>12. ASSUME NEW k \in DOMAIN pending'
       PROVE  /\ fiber'[pending'[k]].at \in {"queued", "sent", "committed", "refused"}
              /\ fiber'[pending'[k]].at # "queued" => k = 1
              /\ fiber'[pending'[k]].gen = generation
              /\ pending'[k] \notin seen
              /\ fiber'[pending'[k]].at = "committed" => accepted.rev < fiber'[pending'[k]].rev
  <2>1. CASE k \in DOMAIN pending
    <3>1. pending'[k] = pending[k] /\ pending[k] \in Ids /\ fiber'[pending[k]] = fiber[pending[k]]
      BY <1>4, <1>6, <1>11, <2>1, PendingType
    <3> QED
      BY <1>5, <2>1, <3>1 DEF PendingOK
  <2>2. CASE k \notin DOMAIN pending
    <3>1. k = Len(pending) + 1
      BY <1>11, <2>2, PendingType
    <3>2. pending'[k] = c
      BY <1>11, <3>1
    <3> QED
      BY <1>4, <1>8, <3>2
  <2> QED
    BY <2>1, <2>2
<1>13. ~Recovering'
  BY <1>1, <1>4 DEF Recovering
<1>14. PendingOK'
  BY <1>4, <1>9, <1>12, <1>13 DEF PendingOK
<1>15. \A d \in Ids : Within(lane', d) <=> fiber'[d].at \notin {"idle", "done"}
  BY <1>4, <1>5, <1>10 DEF LaneOK
<1>16. \A d \in Ids : Within(pending, d) => Within(lane, d)
  <2>1. ASSUME NEW d \in Ids, Within(pending, d) PROVE fiber[d].at \notin {"idle", "done"}
    BY <1>5, <2>1 DEF PendingOK, Within
  <2> QED
    BY <1>5, <2>1 DEF LaneOK
<1>17. \A d, e \in Ids : Before(pending', d, e) => Before(lane', d, e)
  BY <1>5, <1>9, <1>10, <1>16 DEF LaneOK
<1>18. LaneOK'
  BY <1>10, <1>15, <1>17 DEF LaneOK, Within, Before
<1> QED
  BY <1>14, <1>18 DEF QueueInv

LEMMA StepKeepsQueue ==
  ASSUME IInv, Step PROVE QueueInv'
<1>1. TypeOK /\ PendingOK /\ LaneOK /\ Distinct(lane)
  BY DEF IInv, LaneOK
<1>2. \A d \in Ids : Within(lane, d) <=> fiber[d].at \notin {"idle", "done"}
  BY <1>1 DEF LaneOK
<1>3. ASSUME NEW c \in Ids, UNCHANGED <<pending, generation, seen, accepted, lane>>,
             Recovering' => Recovering,
             fiber[c].at \notin {"idle", "done"}, fiber'[c].at \notin {"idle", "done"},
             \A d \in Ids : d # c => fiber'[d] = fiber[d],
             IsPending(c) =>
               \/ fiber'[c] = fiber[c]
               \/ /\ fiber'[c].at \in {"sent", "committed", "refused"} /\ pending[1] = c
                  /\ fiber'[c].gen = fiber[c].gen
                  /\ fiber'[c].at = "committed" => accepted.rev < fiber'[c].rev
      PROVE  QueueInv'
  <2>1. \A d \in Ids : Within(lane', d) <=> fiber'[d].at \notin {"idle", "done"}
    BY <1>2, <1>3
  <2> QED
    BY <1>1, <1>3, <2>1, QueueSame
<1>4. ASSUME UNCHANGED <<pending, generation, seen, accepted, lane, fiber>>, Recovering' => Recovering
      PROVE  QueueInv'
  BY <1>1, <1>2, <1>4, QueueSame
<1>5. ASSUME NEW c \in Ids, Quits(c) PROVE QueueInv'
  <2>1. /\ Distinct(lane')
        /\ \A d : Within(lane', d) <=> Within(lane, d) /\ d # c
        /\ \A d, e : Before(lane', d, e) <=> Before(lane, d, e) /\ d # c /\ e # c
        /\ fiber'[c].at = "done" /\ \A d \in Ids : d # c => fiber'[d] = fiber[d]
    BY <1>5, EndStep DEF Quits
  <2>2. UNCHANGED <<pending, generation, seen, accepted, recovery>> /\ ~IsPending(c)
    BY <1>5 DEF Quits, Kept
  <2>3. \A d \in Ids : Within(lane', d) <=> fiber'[d].at \notin {"idle", "done"}
    BY <1>2, <2>1
  <2>4. Recovering' => Recovering
    BY <2>2 DEF Recovering
  <2> QED
    BY <2>1, <2>2, <2>3, <2>4, QueueSame
<1>6. ASSUME NEW c \in Ids, Breaks(c) PROVE QueueInv'
  <2>1. /\ pending' = <<>> /\ lane' = lane /\ fiber'[c].at = "failed"
        /\ \A d \in Ids : d # c => fiber'[d] = fiber[d]
    BY <1>6, RecoverType, FailStep DEF Breaks
  <2>2. fiber[c].at \notin {"idle", "done"}
    BY <1>6 DEF Breaks
  <2>3. \A d \in Ids : Within(lane', d) <=> fiber'[d].at \notin {"idle", "done"}
    BY <1>2, <2>1, <2>2
  <2> QED
    BY <1>1, <2>1, <2>3, QueueEmpty
<1>7. fiber \in [Ids -> Fiber] /\ Revision \in Nat /\ accepted.rev <= Revision /\ accepted.rev \in Nat
  BY <1>1, LogType DEF TypeOK, IInv, AcceptedIsCommitted
<1>8. ASSUME NEW c \in Ids, Leaves(c) PROVE QueueInv'
  <2>1. /\ UNCHANGED <<pending, generation, seen, accepted, lane, recovery>>
        /\ fiber[c].at = "queued" /\ IsPending(c) /\ HasLane(c)
    BY <1>8 DEF Leaves, Kept
  <2>2. fiber'[c].at = "sent" /\ fiber'[c].gen = fiber[c].gen /\ \A d \in Ids : d # c => fiber'[d] = fiber[d]
    <3>1. fiber[c] \in Fiber
      BY <1>7
    <3> QED
      BY <1>7, <1>8, <3>1 DEF Leaves, Fiber
  <2>3. pending[1] = c
    BY <2>1, TurnIsHead
  <2> QED
    BY <1>3, <2>1, <2>2, <2>3 DEF Recovering
<1>9. ASSUME NEW c \in Ids, Decides(c) PROVE QueueInv'
  <2>1. /\ UNCHANGED <<pending, generation, seen, accepted, lane, recovery>> /\ fiber[c].at = "sent"
        /\ \/ fiber' = [fiber EXCEPT ![c].at = "committed", ![c].rev = Revision + 1]
           \/ fiber' = [fiber EXCEPT ![c].at = "refused"]
    BY <1>9 DEF Decides, Kept
  <2>2. /\ fiber'[c].at \in {"committed", "refused"} /\ fiber'[c].gen = fiber[c].gen
        /\ fiber'[c].at = "committed" => fiber'[c].rev = Revision + 1
        /\ \A d \in Ids : d # c => fiber'[d] = fiber[d]
    <3>1. fiber[c] \in Fiber
      BY <1>7
    <3> QED
      BY <1>7, <2>1, <3>1 DEF Fiber
  <2>3. IsPending(c) => pending[1] = c
    BY <2>1, SentIsHead
  <2>4. accepted.rev < Revision + 1
    BY <1>7
  <2> QED
    BY <1>3, <2>1, <2>2, <2>3, <2>4 DEF Recovering
<1>10. ASSUME NEW c \in Ids, Loses(c) PROVE QueueInv'
  <2>1. /\ UNCHANGED <<pending, generation, seen, accepted, lane, recovery>> /\ fiber[c].at = "sent"
        /\ fiber'[c].at = "refused" /\ fiber'[c].gen = fiber[c].gen
        /\ \A d \in Ids : d # c => fiber'[d] = fiber[d]
    BY <1>10, PutStep DEF Loses, Kept, Stages
  <2>2. IsPending(c) => pending[1] = c
    BY <2>1, SentIsHead
  <2> QED
    BY <1>3, <2>1, <2>2 DEF Recovering
<1>11. ASSUME NEW c \in Ids, Waits(c) PROVE QueueInv'
  <2>1. /\ UNCHANGED <<pending, generation, seen, accepted, lane, recovery>> /\ fiber[c].at = "committed"
        /\ ~IsPending(c) /\ fiber' = [fiber EXCEPT ![c].at = "late", ![c].gate = recovery.count]
    BY <1>11 DEF Waits, Kept
  <2>2. fiber'[c].at = "late" /\ \A d \in Ids : d # c => fiber'[d] = fiber[d]
    <3>1. fiber[c] \in Fiber
      BY <1>7
    <3> QED
      BY <1>7, <2>1, <3>1 DEF Fiber
  <2> QED
    BY <1>3, <2>1, <2>2 DEF Recovering
<1>12. ASSUME NEW c \in Ids, AcceptsAnswer(c) PROVE QueueInv'
  <2>1. /\ Distinct(lane')
        /\ \A d : Within(lane', d) <=> Within(lane, d) /\ d # c
        /\ \A d, e : Before(lane', d, e) <=> Before(lane, d, e) /\ d # c /\ e # c
        /\ fiber'[c].at = "done" /\ \A d \in Ids : d # c => fiber'[d] = fiber[d]
    BY <1>12, EndStep DEF AcceptsAnswer
  <2>2. Accepts(fiber[c].rev) /\ log[fiber[c].rev].cmd = c
    BY <1>12, AnswerRange DEF AcceptsAnswer
  <2>3. \A d \in Ids : Within(lane', d) <=> fiber'[d].at \notin {"idle", "done"}
    BY <1>2, <2>1
  <2> QED
    BY <2>1, <2>2, <2>3, QueueAccept
<1>13. CASE AcceptsEvent
  BY <1>1, <1>2, <1>13, QueueAccept DEF AcceptsEvent
<1>14. CASE Falls
  <2>1. pending' = <<>> /\ UNCHANGED <<lane, fiber>>
    BY <1>14, RecoverType DEF Falls
  <2> QED
    BY <1>1, <1>2, <2>1, QueueEmpty
<1>15. CASE Streams \/ UNCHANGED vars \/ \E r \in RemoteIds : Remote(r)
  <2>1. UNCHANGED <<pending, generation, seen, accepted, lane, fiber, recovery>>
    BY <1>15 DEF Streams, Kept, Remote, document, vars
  <2> QED
    BY <1>4, <2>1 DEF Recovering
<1>16. CASE ReadSnapshot \/ SnapshotFails
  <2>1. UNCHANGED <<pending, generation, seen, accepted, lane, fiber>> /\ Recovering
    BY <1>16 DEF ReadSnapshot, SnapshotFails, document, Recovering
  <2> QED
    BY <1>4, <2>1
<1>17. CASE InstallSnapshot
  <2>1. UNCHANGED <<pending, lane, fiber>> /\ Recovering
    BY <1>17 DEF InstallSnapshot, Recovering
  <2>2. pending' = <<>>
    BY <1>1, <2>1 DEF PendingOK
  <2> QED
    BY <1>1, <1>2, <2>1, <2>2, QueueEmpty
<1> QED
  BY <1>5, <1>6, <1>8, <1>9, <1>10, <1>11, <1>12, <1>13, <1>14, <1>15, <1>16, <1>17, QueueEdit DEF Step

-----------------------------------------------------------------------------
(***************************************************************************)
(* What is shown.                                                          *)
(***************************************************************************)
LEMMA ShownFrame ==
  ASSUME ShownOK, UNCHANGED <<shown, accepted, pending, image, recovery>> PROVE ShownOK'
<1>1. /\ \A i : Plain(i)' = Plain(i)
      /\ \A i, k : Touched(i, k)' = Touched(i, k)
  BY DEF Plain, Touched, Affected
<1>2. Recovering' = Recovering /\ DOMAIN pending' = DOMAIN pending
  BY DEF Recovering
<1> QED
  BY <1>1, <1>2 DEF ShownOK

LEMMA ShownEdit ==
  ASSUME IInv, NEW c \in Ids, UserEdits(c) PROVE ShownOK'
<1>1. fiber[c].at = "idle" /\ ~Recovering
  BY DEF UserEdits
<1>2. PICK S \in SUBSET Items : \E new \in [S -> Values] : Mutate(c, new)
  BY DEF UserEdits
<1>3. PICK new \in [S -> Values] : Mutate(c, new)
  BY <1>2
<1>4. /\ UNCHANGED <<accepted, recovery>> /\ image'[c].after = new
      /\ \A i \in Items : shown'[i] = IF i \in S THEN new[i] ELSE shown[i]
      /\ \A d \in Ids : d # c => image'[d] = image[d]
      /\ pending' = Append(pending, c)
  BY <1>1, <1>3, MutateStep, ZenonT(40)
<1>5. PendingOK /\ ShownOK
  BY DEF IInv
<1>6. \A k \in DOMAIN pending : pending[k] # c /\ pending[k] \in Ids
  BY <1>1, <1>5, PendingType DEF PendingOK
<1> DEFINE n == Len(pending) + 1
<1>7. /\ DOMAIN pending' = 1 .. n /\ pending'[n] = c /\ n \in DOMAIN pending'
      /\ \A k \in DOMAIN pending : k \in DOMAIN pending' /\ pending'[k] = pending[k] /\ k < n
      /\ \A k \in DOMAIN pending' : k \in DOMAIN pending \/ k = n
  <2>1. /\ pending' \in Seq(Ids) /\ Len(pending') = n /\ pending'[n] = c
        /\ \A k \in 1 .. Len(pending) : pending'[k] = pending[k]
    BY <1>4, PendingType, AppendProperties
  <2>2. DOMAIN pending' = 1 .. n
    BY <2>1, LenProperties
  <2> QED
    BY <2>1, <2>2, PendingType
<1>8. \A k \in DOMAIN pending' : k <= n
  BY <1>7, PendingType
<1> HIDE DEF n
<1>9. /\ \A k \in DOMAIN pending : image'[pending'[k]] = image[pending[k]]
      /\ image'[pending'[n]].after = new
  BY <1>4, <1>6, <1>7
<1>10. /\ \A k \in DOMAIN pending : DOMAIN image'[pending'[k]].after = Affected(pending[k])
       /\ DOMAIN image'[pending'[n]].after = S
  BY <1>9 DEF Affected
<1>11. ~Recovering'
  BY <1>1, <1>4 DEF Recovering
<1>12. ASSUME NEW i \in Items
       PROVE  Plain(i)' \/ \E k \in DOMAIN pending' : Touched(i, k)'
  <2>1. CASE i \in S
    <3>1. shown'[i] = image'[pending'[n]].after[i] /\ i \in DOMAIN image'[pending'[n]].after
      BY <1>4, <1>9, <1>10, <2>1
    <3>2. ASSUME NEW m \in DOMAIN pending', m = n PROVE Touched(i, m)'
      BY <1>8, <3>1, <3>2 DEF Touched, Affected
    <3> QED
      BY <1>7, <3>2
  <2>2. CASE i \notin S /\ Plain(i)
    <3>1. shown'[i] = accepted'.items[i].val
      BY <1>4, <2>2 DEF Plain
    <3>2. \A k \in DOMAIN pending' : i \notin DOMAIN image'[pending'[k]].after
      BY <1>7, <1>10, <2>2 DEF Plain
    <3> QED
      BY <3>1, <3>2 DEF Plain, Affected
  <2>3. ASSUME i \notin S, NEW k \in DOMAIN pending, Touched(i, k)
        PROVE  k \in DOMAIN pending' /\ Touched(i, k)'
    <3>1. i \in DOMAIN image'[pending'[k]].after /\ shown'[i] = image'[pending'[k]].after[i]
      BY <1>4, <1>9, <1>10, <2>3 DEF Touched
    <3>2. \A l \in DOMAIN pending' : i \in DOMAIN image'[pending'[l]].after => l <= k
      BY <1>7, <1>10, <2>3 DEF Touched
    <3> QED
      BY <1>7, <3>1, <3>2 DEF Touched, Affected
  <2> QED
    BY <1>1, <1>5, <2>1, <2>2, <2>3 DEF ShownOK
<1> QED
  BY <1>11, <1>12 DEF ShownOK

\* What acceptEvent makes of each item.
LEMMA InstallItem ==
  ASSUME IInv, NEW r, Accepts(r), NEW i \in Items
  PROVE  /\ accepted'.items[i] = Doc(r)[i]
         /\ shown'[i] = IF i \in Targets(r) \ Protected(r) THEN Doc(r)[i].val ELSE shown[i]
         /\ i \notin Targets(r) => Doc(r)[i] = accepted.items[i]
<1>1. /\ r \in 1 .. Revision /\ r = accepted.rev + 1 /\ accepted' = [rev |-> r, items |-> Doc(r)]
  BY AcceptsStep
<1>2. accepted.items = Doc(accepted.rev) /\ accepted.rev \in Nat
  BY DEF IInv, AcceptedIsCommitted, TypeOK
<1>3. r - 1 = accepted.rev
  BY <1>1, <1>2
<1>4. shown' = [j \in Items |-> IF j \in Targets(r) \ Protected(r) THEN Doc(r)[j].val ELSE shown[j]]
  BY DEF Accepts, Install
<1> QED
  BY <1>1, <1>2, <1>3, <1>4 DEF Targets

\* Which items others of the pending mutations touch.
LEMMA OthersTouched ==
  ASSUME NEW c, NEW i
  PROVE  i \in OthersTouch(c) <=> \E k \in DOMAIN pending : pending[k] # c /\ i \in Affected(pending[k])
BY DEF OthersTouch

LEMMA ShownAcceptsOwn ==
  ASSUME IInv, NEW r, Accepts(r), Own(r) PROVE ShownOK'
<1>1. /\ r \in 1 .. Revision /\ r \in DOMAIN log
      /\ UNCHANGED <<log, image, recovery, generation>>
  BY AcceptsStep DEF Accepts
<1> DEFINE p == log[r].cmd
<1>2. p \in Ids /\ 1 \in DOMAIN pending /\ pending[1] = p /\ Targets(r) = Affected(p)
  BY <1>1, OwnIsHead
<1>3. pending' = RemoveFirst(pending, p)
  BY DEF Accepts, Install, Retires
<1>4. Distinct(pending) /\ ShownOK /\ ~Recovering
  <2>1. IsPending(p)
    BY DEF Own
  <2> QED
    BY <1>2, <2>1, PendingIsCurrent DEF IInv, PendingOK
<1>5. /\ DOMAIN pending' = 1 .. Len(pending) - 1
      /\ \A k \in DOMAIN pending' : k + 1 \in DOMAIN pending /\ pending'[k] = pending[k + 1]
  BY <1>2, <1>3, <1>4, PendingType, RemoveHead
<1>6. \A k \in DOMAIN pending : k # 1 =>
        k - 1 \in DOMAIN pending' /\ pending'[k - 1] = pending[k] /\ pending[k] # p
  <2>1. ASSUME NEW k \in DOMAIN pending, k # 1
        PROVE  k - 1 \in DOMAIN pending' /\ pending'[k - 1] = pending[k] /\ pending[k] # p
    <3>1. k - 1 \in DOMAIN pending' /\ k - 1 + 1 = k
      BY <1>5, <2>1, PendingType
    <3>2. pending'[k - 1] = pending[k]
      BY <1>5, <3>1
    <3> QED
      BY <1>2, <1>4, <2>1, <3>1, <3>2 DEF Distinct
  <2> QED
    BY <2>1
<1>7. \A d : Affected(d)' = Affected(d)
  BY <1>1 DEF Affected
<1>8. Protected(r) = OthersTouch(p)
  BY DEF Protected
<1>9. \A k \in DOMAIN pending' : k + 1 # 1 /\ k \in Int
  BY <1>5, PendingType
<1> HIDE DEF p
<1>10. ASSUME NEW i \in Items, NEW k \in DOMAIN pending, k # 1, Touched(i, k), shown'[i] = shown[i]
       PROVE  k - 1 \in DOMAIN pending' /\ Touched(i, k - 1)'
  <2>1. k - 1 \in DOMAIN pending' /\ pending'[k - 1] = pending[k] /\ k \in Int
    BY <1>6, <1>10, PendingType
  <2>2. \A l \in DOMAIN pending' : i \in Affected(pending'[l]) => l <= k - 1
    <3>1. ASSUME NEW l \in DOMAIN pending', i \in Affected(pending'[l]) PROVE l <= k - 1
      <4>1. l + 1 \in DOMAIN pending /\ pending'[l] = pending[l + 1] /\ l \in Int
        BY <1>5, <1>9
      <4>2. l + 1 <= k
        BY <1>10, <3>1, <4>1 DEF Touched
      <4> QED
        BY <2>1, <4>1, <4>2
    <3> QED
      BY <3>1
  <2>3. i \in Affected(pending'[k - 1]) /\ shown'[i] = image'[pending'[k - 1]].after[i]
    BY <1>1, <1>10, <2>1 DEF Touched
  <2>4. /\ i \in DOMAIN image'[pending'[k - 1]].after
        /\ \A l \in DOMAIN pending' : i \in DOMAIN image'[pending'[l]].after => l <= k - 1
    BY <1>1, <2>2, <2>3 DEF Affected
  <2> QED
    BY <2>1, <2>3, <2>4 DEF Touched, Affected
<1>11. ASSUME NEW i \in Items, i \notin OthersTouch(p), shown'[i] = accepted'.items[i].val
       PROVE  Plain(i)'
  <2>1. \A k \in DOMAIN pending' : i \notin Affected(pending'[k])
    BY <1>5, <1>6, <1>9, <1>11, OthersTouched
  <2> QED
    BY <1>7, <1>11, <2>1 DEF Plain, Affected
<1>12. ASSUME NEW i \in Items
       PROVE  Plain(i)' \/ \E k \in DOMAIN pending' : Touched(i, k)'
  <2>1. /\ accepted'.items[i] = Doc(r)[i]
        /\ shown'[i] = IF i \in Targets(r) \ Protected(r) THEN Doc(r)[i].val ELSE shown[i]
        /\ i \notin Targets(r) => Doc(r)[i] = accepted.items[i]
    BY InstallItem
  <2>2. Plain(i) \/ \E k \in DOMAIN pending : Touched(i, k)
    BY <1>4 DEF ShownOK
  <2>3. CASE i \in OthersTouch(p)
    <3>1. PICK l \in DOMAIN pending : pending[l] # p /\ i \in Affected(pending[l])
      BY <2>3, OthersTouched
    <3>2. PICK k \in DOMAIN pending : Touched(i, k)
      BY <2>2, <3>1 DEF Plain
    <3>3. l <= k /\ l # 1
      BY <1>2, <3>1, <3>2 DEF Touched
    <3>4. k # 1
      BY <3>1, <3>2, <3>3, PendingType
    <3>5. shown'[i] = shown[i]
      BY <1>8, <2>1, <2>3
    <3> QED
      BY <1>10, <3>2, <3>4, <3>5
  <2>4. CASE i \notin OthersTouch(p) /\ i \in Targets(r)
    BY <1>8, <1>11, <2>1, <2>4
  <2>5. CASE i \notin OthersTouch(p) /\ i \notin Targets(r)
    <3>1. \A k \in DOMAIN pending : i \notin Affected(pending[k])
      BY <1>2, <2>5, OthersTouched
    <3>2. shown[i] = accepted.items[i].val
      BY <2>2, <3>1 DEF Plain, Touched
    <3> QED
      BY <1>11, <2>1, <2>5, <3>2
  <2> QED
    BY <2>3, <2>4, <2>5
<1> QED
  BY <1>12 DEF ShownOK

LEMMA ShownAcceptsForeign ==
  ASSUME IInv, NEW r, Accepts(r), ~Own(r) PROVE ShownOK'
<1>1. UNCHANGED <<log, image, recovery, generation>>
  BY AcceptsStep
<1>2. Distinct(pending) /\ ShownOK
  BY DEF IInv, PendingOK
<1>3. pending' = pending
  <2>1. ~Within(pending, log[r].cmd)
    BY DEF Own, IsPending, Within
  <2>2. pending' = RemoveFirst(pending, log[r].cmd)
    BY DEF Accepts, Install, Retires
  <2> QED
    BY <1>2, <2>1, <2>2, PendingType, RemoveFirstIsRemoveAt
<1>4. \A d : Affected(d)' = Affected(d)
  BY <1>1 DEF Affected
<1>5. \A k \in DOMAIN pending : pending[k] # None
  BY PendingType, NameAssumption
<1>6. Recovering' = Recovering
  BY <1>1 DEF Recovering
<1>7. ASSUME ~Recovering, NEW i \in Items
      PROVE  Plain(i)' \/ \E k \in DOMAIN pending' : Touched(i, k)'
  <2>1. /\ accepted'.items[i] = Doc(r)[i]
        /\ shown'[i] = IF i \in Targets(r) THEN Doc(r)[i].val ELSE shown[i]
        /\ i \notin Targets(r) => Doc(r)[i] = accepted.items[i]
    BY InstallItem DEF Protected
  <2>2. CASE Plain(i)
    <3>1. shown'[i] = accepted'.items[i].val
      BY <2>1, <2>2 DEF Plain
    <3> QED
      BY <1>3, <1>4, <2>2, <3>1 DEF Plain, Affected
  <2>3. ASSUME NEW k \in DOMAIN pending, Touched(i, k)
        PROVE  k \in DOMAIN pending' /\ Touched(i, k)'
    <3>1. i \in OthersTouch(None)
      BY <1>5, <2>3, OthersTouched DEF Touched
    <3>2. i \in Targets(r) => shown[i] = Doc(r)[i].val
      BY <3>1 DEF Accepts, Overlaps, Effects
    <3>3. shown'[i] = shown[i]
      BY <2>1, <3>2
    <3> QED
      BY <1>1, <1>3, <2>3, <3>3 DEF Touched, Affected
  <2> QED
    BY <1>2, <1>7, <2>2, <2>3 DEF ShownOK
<1> QED
  BY <1>6, <1>7 DEF ShownOK

LEMMA StepKeepsShown ==
  ASSUME IInv, Step PROVE ShownOK'
<1>1. ShownOK
  BY DEF IInv
<1>2. ASSUME NEW c \in Ids, UserEdits(c) PROVE ShownOK'
  BY <1>2, ShownEdit
<1>3. ASSUME NEW r, Accepts(r) PROVE ShownOK'
  BY <1>3, ShownAcceptsOwn, ShownAcceptsForeign
<1>4. ASSUME NEW c \in Ids,
             Quits(c) \/ Leaves(c) \/ Decides(c) \/ Loses(c) \/ Waits(c)
      PROVE  ShownOK'
  BY <1>1, <1>4, ShownFrame DEF Quits, Leaves, Decides, Loses, Waits, Kept
<1>5. ASSUME NEW c \in Ids, Breaks(c) PROVE ShownOK'
  BY <1>5, RecoverType DEF Breaks, ShownOK
<1>6. CASE Falls
  BY <1>6, RecoverType DEF Falls, ShownOK
<1>7. CASE Streams \/ UNCHANGED vars \/ \E r \in RemoteIds : Remote(r)
  BY <1>1, <1>7, ShownFrame DEF Streams, Kept, Remote, document, vars
<1>8. CASE ReadSnapshot \/ SnapshotFails
  <2>1. recovery'.at # "no"
    BY <1>8 DEF ReadSnapshot, SnapshotFails, IInv, TypeOK
  <2> QED
    BY <2>1 DEF ShownOK, Recovering
<1>9. CASE InstallSnapshot
  <2>1. /\ accepted' = [rev |-> recovery.rev, items |-> recovery.items]
        /\ shown' = Vals(recovery.items) /\ UNCHANGED pending /\ Recovering
    BY <1>9 DEF InstallSnapshot, Recovering
  <2>2. pending' = <<>>
    BY <2>1 DEF IInv, PendingOK
  <2>3. \A i \in Items : shown'[i] = accepted'.items[i].val
    BY <2>1 DEF Vals
  <2>4. \A i \in Items : Plain(i)'
    BY <2>2, <2>3 DEF Plain
  <2> QED
    BY <2>4 DEF ShownOK
<1> QED
  BY <1>2, <1>3, <1>4, <1>5, <1>6, <1>7, <1>8, <1>9 DEF Step, AcceptsAnswer, AcceptsEvent

-----------------------------------------------------------------------------
(***************************************************************************)
(* The history.                                                            *)
(***************************************************************************)
\* The bottom change of a stack is forgotten.
Drops(n, was, now, doc, wasA, nowA) ==
  /\ n \in Nat /\ n > 0 /\ Linked(n, was, now, doc)
  /\ \A k \in 1 .. n - 1 : wasA[k] = was[k + 1] /\ nowA[k] = now[k + 1]

LEMMA LinkedTail ==
  ASSUME NEW n, NEW was, NEW now, NEW doc, NEW wasA, NEW nowA, Drops(n, was, now, doc, wasA, nowA)
  PROVE  Linked(n - 1, wasA, nowA, doc)
<1> USE DEF Drops
<1>1. \A k \in 1 .. n - 1 : k + 1 \in 1 .. n
  OBVIOUS
<1>2. \A k \in 1 .. n - 1 : DOMAIN wasA[k] = DOMAIN nowA[k]
  BY <1>1 DEF Linked
<1>3. ASSUME NEW k \in 1 .. n - 1, NEW l \in 1 .. n - 1, k < l,
             NEW i \in DOMAIN nowA[k] \cap DOMAIN wasA[l],
             \A m \in 1 .. n - 1 : k < m /\ m < l => i \notin DOMAIN wasA[m]
      PROVE  wasA[l][i] = nowA[k][i]
  <2>1. ASSUME NEW m \in 1 .. n, k + 1 < m, m < l + 1 PROVE i \notin DOMAIN was[m]
    <3>1. m - 1 \in 1 .. n - 1 /\ k < m - 1 /\ m - 1 < l /\ m - 1 + 1 = m
      BY <2>1
    <3> QED
      BY <1>3, <3>1
  <2>2. k + 1 \in 1 .. n /\ l + 1 \in 1 .. n /\ k + 1 < l + 1
    BY <1>3
  <2>3. i \in DOMAIN now[k + 1] \cap DOMAIN was[l + 1]
    OBVIOUS
  <2>4. was[l + 1][i] = now[k + 1][i]
    BY <2>1, <2>2, <2>3 DEF Linked
  <2> QED
    BY <2>4
<1>4. ASSUME NEW k \in 1 .. n - 1, NEW i \in DOMAIN nowA[k],
             \A m \in 1 .. n - 1 : k < m => i \notin DOMAIN wasA[m]
      PROVE  doc[i] = nowA[k][i]
  <2>1. ASSUME NEW m \in 1 .. n, k + 1 < m PROVE i \notin DOMAIN was[m]
    <3>1. m - 1 \in 1 .. n - 1 /\ k < m - 1 /\ m - 1 + 1 = m
      BY <2>1
    <3> QED
      BY <1>4, <3>1
  <2>2. k + 1 \in 1 .. n /\ i \in DOMAIN now[k + 1]
    OBVIOUS
  <2>3. doc[i] = now[k + 1][i]
    BY <2>1, <2>2 DEF Linked
  <2> QED
    BY <2>3
<1> QED
  BY <1>2, <1>3, <1>4 DEF Linked

\* The last change is taken back: each of its items is as it was before.
Pops(n, was, now, doc, wasA, nowA, doc2) ==
  /\ n \in Nat /\ n > 0 /\ Linked(n, was, now, doc)
  /\ \A k \in 1 .. n - 1 : wasA[k] = was[k] /\ nowA[k] = now[k]
  /\ \A i \in DOMAIN was[n] : doc2[i] = was[n][i]
  /\ \A k \in 1 .. n - 1 : \A i \in DOMAIN now[k] \ DOMAIN was[n] : doc2[i] = doc[i]

LEMMA LinkedPop ==
  ASSUME NEW n, NEW was, NEW now, NEW doc, NEW wasA, NEW nowA, NEW doc2,
         Pops(n, was, now, doc, wasA, nowA, doc2)
  PROVE  Linked(n - 1, wasA, nowA, doc2)
<1> USE DEF Pops
<1>1. /\ \A k \in 1 .. n - 1 : k \in 1 .. n /\ k < n
      /\ n \in 1 .. n
  OBVIOUS
<1>2. \A k \in 1 .. n - 1 : DOMAIN wasA[k] = DOMAIN nowA[k]
  BY <1>1 DEF Linked
<1>3. ASSUME NEW k \in 1 .. n - 1, NEW l \in 1 .. n - 1, k < l,
             NEW i \in DOMAIN nowA[k] \cap DOMAIN wasA[l],
             \A m \in 1 .. n - 1 : k < m /\ m < l => i \notin DOMAIN wasA[m]
      PROVE  wasA[l][i] = nowA[k][i]
  <2>1. ASSUME NEW m \in 1 .. n, k < m, m < l PROVE i \notin DOMAIN was[m]
    <3>1. m \in 1 .. n - 1
      BY <2>1
    <3> QED
      BY <1>3, <2>1, <3>1
  <2> QED
    BY <1>1, <1>3, <2>1 DEF Linked
<1>4. ASSUME NEW k \in 1 .. n - 1, NEW i \in DOMAIN nowA[k],
             \A m \in 1 .. n - 1 : k < m => i \notin DOMAIN wasA[m]
      PROVE  doc2[i] = nowA[k][i]
  <2>1. ASSUME NEW m \in 1 .. n, k < m, m # n PROVE i \notin DOMAIN was[m]
    <3>1. m \in 1 .. n - 1
      BY <2>1
    <3> QED
      BY <1>4, <2>1, <3>1
  <2>2. CASE i \in DOMAIN was[n]
    <3>1. \A m \in 1 .. n : k < m /\ m < n => i \notin DOMAIN was[m]
      BY <2>1
    <3>2. k \in 1 .. n /\ k < n /\ n \in 1 .. n /\ i \in DOMAIN now[k]
      BY <1>1
    <3>3. was[n][i] = now[k][i]
      BY <2>2, <3>1, <3>2 DEF Linked
    <3> QED
      BY <2>2, <3>3
  <2>3. CASE i \notin DOMAIN was[n]
    <3>1. \A m \in 1 .. n : k < m => i \notin DOMAIN was[m]
      BY <2>1, <2>3
    <3>2. doc[i] = now[k][i]
      BY <1>1, <3>1 DEF Linked
    <3> QED
      BY <2>3, <3>2
  <2> QED
    BY <2>2, <2>3
<1> QED
  BY <1>2, <1>3, <1>4 DEF Linked

\* A change is made: each of its items was as it is, and is as it is now.
Pushes(n, was, now, doc, t, wasA, nowA, doc2) ==
  /\ n \in Nat /\ t = n + 1 /\ Linked(n, was, now, doc)
  /\ \A k \in 1 .. n : wasA[k] = was[k] /\ nowA[k] = now[k]
  /\ DOMAIN wasA[t] = DOMAIN nowA[t]
  /\ \A i \in DOMAIN wasA[t] : wasA[t][i] = doc[i] /\ doc2[i] = nowA[t][i]
  /\ \A k \in 1 .. n : \A i \in DOMAIN now[k] \ DOMAIN wasA[t] : doc2[i] = doc[i]

LEMMA LinkedPush ==
  ASSUME NEW n, NEW was, NEW now, NEW doc, NEW t, NEW wasA, NEW nowA, NEW doc2,
         Pushes(n, was, now, doc, t, wasA, nowA, doc2)
  PROVE  Linked(t, wasA, nowA, doc2)
<1> USE DEF Pushes
<1>1. /\ \A k \in 1 .. t : k \in 1 .. n \/ k = t
      /\ \A k \in 1 .. n : k \in 1 .. t /\ k < t /\ k \in Int
      /\ t \in 1 .. t /\ t \in Int
  OBVIOUS
<1>2. \A k \in 1 .. t : DOMAIN wasA[k] = DOMAIN nowA[k]
  BY <1>1 DEF Linked
<1>3. ASSUME NEW k \in 1 .. t, NEW l \in 1 .. t, k < l,
             NEW i \in DOMAIN nowA[k] \cap DOMAIN wasA[l],
             \A m \in 1 .. t : k < m /\ m < l => i \notin DOMAIN wasA[m]
      PROVE  wasA[l][i] = nowA[k][i]
  <2>1. k \in 1 .. n /\ i \in DOMAIN now[k]
    BY <1>1, <1>3
  <2>2. CASE l \in 1 .. n
    <3>1. \A m \in 1 .. n : k < m /\ m < l => i \notin DOMAIN was[m]
      BY <1>1, <1>3
    <3> QED
      BY <1>3, <2>1, <2>2, <3>1 DEF Linked
  <2>3. CASE l = t
    <3>1. \A m \in 1 .. n : k < m => i \notin DOMAIN was[m]
      BY <1>1, <1>3, <2>3
    <3>2. doc[i] = now[k][i]
      BY <2>1, <3>1 DEF Linked
    <3> QED
      BY <2>1, <2>3, <3>2
  <2> QED
    BY <1>1, <2>2, <2>3
<1>4. ASSUME NEW k \in 1 .. t, NEW i \in DOMAIN nowA[k],
             \A m \in 1 .. t : k < m => i \notin DOMAIN wasA[m]
      PROVE  doc2[i] = nowA[k][i]
  <2>1. CASE k = t
    BY <2>1
  <2>2. CASE k \in 1 .. n
    <3>1. i \notin DOMAIN wasA[t] /\ \A m \in 1 .. n : k < m => i \notin DOMAIN was[m]
      BY <1>1, <1>4, <2>2
    <3>2. doc[i] = now[k][i] /\ i \in DOMAIN now[k]
      BY <2>2, <3>1 DEF Linked
    <3> QED
      BY <2>2, <3>1, <3>2
  <2> QED
    BY <1>1, <2>1, <2>2
<1> QED
  BY <1>2, <1>3, <1>4 DEF Linked

LEMMA LinkedSame ==
  ASSUME NEW n \in Nat, NEW was, NEW now, NEW doc, Linked(n, was, now, doc),
         NEW doc2, \A k \in 1 .. n : \A i \in DOMAIN now[k] : doc2[i] = doc[i]
  PROVE  Linked(n, was, now, doc2)
BY DEF Linked

LEMMA LinkedNone == ASSUME NEW was, NEW now, NEW doc PROVE Linked(0, was, now, doc)
BY DEF Linked

LEMMA StackFields ==
  ASSUME NEW s \in Seq(Entry)
  PROVE  /\ Len(s) \in Nat /\ DOMAIN s = 1 .. Len(s)
         /\ \A k \in 1 .. Len(s) :
              /\ Befores(s)[k] = s[k].before /\ Afters(s)[k] = s[k].after
              /\ s[k] \in Entry /\ DOMAIN s[k].before \subseteq Items /\ DOMAIN s[k].after \subseteq Items
<1>1. Len(s) \in Nat /\ DOMAIN s = 1 .. Len(s)
  BY LenProperties
<1>2. \A k \in 1 .. Len(s) : s[k] \in Entry
  BY ElementOfSeq
<1>3. \A k \in 1 .. Len(s) : Befores(s)[k] = s[k].before /\ Afters(s)[k] = s[k].after
  BY <1>1 DEF Befores, Afters
<1>4. \A e \in Entry : DOMAIN e.before \subseteq Items /\ DOMAIN e.after \subseteq Items
  BY ImagesOut DEF Entry
<1> QED
  BY <1>1, <1>2, <1>3, <1>4

\* The last change of one stack is taken back and pushed on the other, where
\* it runs the other way.
Moves(n, fw, fn, m, tw, tn, doc, fwA, fnA, t, twA, tnA, doc2) ==
  /\ n \in Nat /\ n > 0 /\ m \in Nat /\ t = m + 1
  /\ Linked(n, fw, fn, doc) /\ Linked(m, tw, tn, doc)
  /\ \A k \in 1 .. n - 1 : fwA[k] = fw[k] /\ fnA[k] = fn[k]
  /\ \A k \in 1 .. m : twA[k] = tw[k] /\ tnA[k] = tn[k]
  /\ twA[t] = fn[n] /\ tnA[t] = fw[n]
  /\ \A k \in 1 .. n : DOMAIN fn[k] \subseteq Items
  /\ \A k \in 1 .. m : DOMAIN tn[k] \subseteq Items
  /\ \A i \in DOMAIN fw[n] : doc2[i] = fw[n][i]
  /\ \A i \in Items \ DOMAIN fw[n] : doc2[i] = doc[i]

LEMMA LinkedMove ==
  ASSUME NEW n, NEW fw, NEW fn, NEW m, NEW tw, NEW tn, NEW doc, NEW fwA, NEW fnA,
         NEW t, NEW twA, NEW tnA, NEW doc2,
         Moves(n, fw, fn, m, tw, tn, doc, fwA, fnA, t, twA, tnA, doc2)
  PROVE  Linked(n - 1, fwA, fnA, doc2) /\ Linked(t, twA, tnA, doc2)
<1> USE DEF Moves
<1>1. n \in 1 .. n /\ \A k \in 1 .. n - 1 : k \in 1 .. n
  OBVIOUS
<1>2. DOMAIN fw[n] = DOMAIN fn[n]
  BY <1>1 DEF Linked
<1>3. \A i \in DOMAIN fn[n] : fn[n][i] = doc[i]
  <2>1. \A k \in 1 .. n : ~(n < k)
    OBVIOUS
  <2> QED
    BY <1>1, <2>1 DEF Linked
<1>4. \A k \in 1 .. n - 1 : \A i \in DOMAIN fn[k] \ DOMAIN fw[n] : doc2[i] = doc[i]
  BY <1>1
<1>5. Pops(n, fw, fn, doc, fwA, fnA, doc2)
  BY <1>4 DEF Pops
<1>6. DOMAIN twA[t] = DOMAIN tnA[t]
  BY <1>2
<1>7. \A i \in DOMAIN twA[t] : twA[t][i] = doc[i] /\ doc2[i] = tnA[t][i]
  BY <1>2, <1>3
<1>8. \A k \in 1 .. m : \A i \in DOMAIN tn[k] \ DOMAIN twA[t] : doc2[i] = doc[i]
  BY <1>2
<1>9. Pushes(m, tw, tn, doc, t, twA, tnA, doc2)
  BY <1>6, <1>7, <1>8 DEF Pushes
<1> QED
  BY <1>5, <1>9, LinkedPop, LinkedPush

LEMMA HistoryUndo ==
  ASSUME IInv, NEW c \in Ids, Undo(c) PROVE HistoryOK'
<1> DEFINE n == Len(undo)
           m == Len(redo)
           e == undo[n]
<1>1. /\ ~Recovering /\ undo # <<>> /\ Mutate(c, Part(e.before, Changed(e.before)))
      /\ undo' = SubSeq(undo, 1, n - 1) /\ redo' = Append(redo, e)
  BY DEF Undo, Ready
<1>2. /\ undo \in Seq(Entry) /\ redo \in Seq(Entry) /\ shown \in [Items -> Values]
      /\ Linked(n, Befores(undo), Afters(undo), shown)
      /\ Linked(m, Afters(redo), Befores(redo), shown)
  BY DEF IInv, TypeOK, HistoryOK
<1>3. /\ n \in Nat /\ n > 0 /\ m \in Nat /\ Len(undo') = n - 1 /\ Len(redo') = m + 1
      /\ undo' \in Seq(Entry) /\ redo' \in Seq(Entry) /\ e \in Entry
      /\ \A k \in 1 .. n - 1 : undo'[k] = undo[k] /\ k \in 1 .. n /\ k \in 1 .. Len(undo')
      /\ \A k \in 1 .. m : redo'[k] = redo[k] /\ k \in 1 .. Len(redo')
      /\ redo'[m + 1] = e /\ m + 1 \in 1 .. Len(redo') /\ n \in 1 .. n
  <2>1. /\ n \in Nat /\ n > 0 /\ n \in 1 .. n /\ e \in Entry
        /\ undo' \in Seq(Entry) /\ Len(undo') = n - 1
        /\ \A k \in 1 .. n - 1 : undo'[k] = undo[k]
    BY <1>1, <1>2, FrontFields
  <2>2. /\ m \in Nat /\ redo' \in Seq(Entry) /\ Len(redo') = m + 1
        /\ (\A k \in 1 .. m : redo'[k] = redo[k]) /\ redo'[m + 1] = e
    BY <1>1, <1>2, <2>1, AppendProperties, LenProperties
  <2>3. m + 1 \in 1 .. m + 1 /\ \A k \in 1 .. m : k \in 1 .. m + 1
    BY <2>2
  <2>4. \A k \in 1 .. n - 1 : k \in 1 .. n
    BY <2>1
  <2> HIDE DEF n, m, e
  <2> QED
    BY <2>1, <2>2, <2>3, <2>4
<1>4. DOMAIN e.before \subseteq Items
  BY <1>2, <1>3, StackFields
<1>5. UNCHANGED recovery /\ \A i \in Items : shown'[i] = IF i \in DOMAIN e.before THEN e.before[i] ELSE shown[i]
  BY <1>1, <1>2, <1>4 DEF Mutate, Over, Part, Changed
<1> HIDE DEF e
<1>6. /\ \A k \in 1 .. n - 1 : Befores(undo')[k] = Befores(undo)[k] /\ Afters(undo')[k] = Afters(undo)[k]
      /\ \A k \in 1 .. m : Afters(redo')[k] = Afters(redo)[k] /\ Befores(redo')[k] = Befores(redo)[k]
      /\ Afters(redo')[m + 1] = Afters(undo)[n] /\ Befores(redo')[m + 1] = Befores(undo)[n]
      /\ \A k \in 1 .. n : DOMAIN Afters(undo)[k] \subseteq Items
      /\ \A k \in 1 .. m : DOMAIN Befores(redo)[k] \subseteq Items
      /\ Befores(undo)[n] = e.before
  <2>1. /\ \A k \in 1 .. n : /\ Befores(undo)[k] = undo[k].before /\ Afters(undo)[k] = undo[k].after
                             /\ DOMAIN undo[k].after \subseteq Items
        /\ \A k \in 1 .. m : /\ Befores(redo)[k] = redo[k].before /\ Afters(redo)[k] = redo[k].after
                             /\ DOMAIN redo[k].before \subseteq Items
    BY <1>2, StackFields
  <2>2. /\ \A k \in 1 .. Len(undo') : Befores(undo')[k] = undo'[k].before /\ Afters(undo')[k] = undo'[k].after
        /\ \A k \in 1 .. Len(redo') : Befores(redo')[k] = redo'[k].before /\ Afters(redo')[k] = redo'[k].after
    BY <1>3, StackFields
  <2>3. undo[n] = e /\ n \in 1 .. n
    BY <1>3 DEF e
  <2> HIDE DEF n, m
  <2>4. \A k \in 1 .. n - 1 : Befores(undo')[k] = Befores(undo)[k] /\ Afters(undo')[k] = Afters(undo)[k]
    BY <1>3, <2>1, <2>2
  <2>5. \A k \in 1 .. m : Afters(redo')[k] = Afters(redo)[k] /\ Befores(redo')[k] = Befores(redo)[k]
    <3>1. ASSUME NEW k \in 1 .. m
          PROVE  Afters(redo')[k] = Afters(redo)[k] /\ Befores(redo')[k] = Befores(redo)[k]
      <4>1. redo'[k] = redo[k] /\ k \in 1 .. Len(redo')
        BY <1>3
      <4>2. Afters(redo')[k] = redo'[k].after /\ Befores(redo')[k] = redo'[k].before
        BY <2>2, <4>1
      <4> QED
        BY <2>1, <4>1, <4>2
    <3> QED
      BY <3>1
  <2>6. Afters(redo')[m + 1] = e.after /\ Befores(redo')[m + 1] = e.before
    BY <1>3, <2>2
  <2>7. Afters(undo)[n] = e.after /\ Befores(undo)[n] = e.before
    BY <2>1, <2>3
  <2> QED
    BY <2>1, <2>4, <2>5, <2>6, <2>7
<1>7. /\ \A i \in DOMAIN Befores(undo)[n] : shown'[i] = Befores(undo)[n][i]
      /\ \A i \in Items \ DOMAIN Befores(undo)[n] : shown'[i] = shown[i]
  BY <1>4, <1>5, <1>6
<1> HIDE DEF n, m
<1>8. /\ Linked(n - 1, Befores(undo'), Afters(undo'), shown')
      /\ Linked(m + 1, Afters(redo'), Befores(redo'), shown')
  <2> DEFINE t == m + 1
  <2>1. Moves(n, Befores(undo), Afters(undo), m, Afters(redo), Befores(redo), shown,
              Befores(undo'), Afters(undo'), t, Afters(redo'), Befores(redo'), shown')
    BY <1>2, <1>3, <1>6, <1>7 DEF Moves
  <2> HIDE DEF t
  <2> QED
    BY <2>1, LinkedMove DEF t
<1>9. ~Recovering'
  BY <1>1, <1>5 DEF Recovering
<1> QED
  BY <1>3, <1>8, <1>9 DEF HistoryOK, Befores, Afters

LEMMA HistoryRedo ==
  ASSUME IInv, NEW c \in Ids, Redo(c) PROVE HistoryOK'
<1> DEFINE n == Len(redo)
           m == Len(undo)
           e == redo[n]
<1>1. /\ ~Recovering /\ redo # <<>> /\ Mutate(c, Part(e.after, Changed(e.after)))
      /\ redo' = SubSeq(redo, 1, n - 1) /\ undo' = Append(undo, e)
  BY DEF Redo, Ready
<1>2. /\ undo \in Seq(Entry) /\ redo \in Seq(Entry) /\ shown \in [Items -> Values]
      /\ Linked(m, Befores(undo), Afters(undo), shown)
      /\ Linked(n, Afters(redo), Befores(redo), shown)
  BY DEF IInv, TypeOK, HistoryOK
<1>3. /\ n \in Nat /\ n > 0 /\ m \in Nat /\ Len(redo') = n - 1 /\ Len(undo') = m + 1
      /\ redo' \in Seq(Entry) /\ undo' \in Seq(Entry) /\ e \in Entry
      /\ \A k \in 1 .. n - 1 : redo'[k] = redo[k] /\ k \in 1 .. n /\ k \in 1 .. Len(redo')
      /\ \A k \in 1 .. m : undo'[k] = undo[k] /\ k \in 1 .. Len(undo')
      /\ undo'[m + 1] = e /\ m + 1 \in 1 .. Len(undo') /\ n \in 1 .. n
  <2>1. /\ n \in Nat /\ n > 0 /\ n \in 1 .. n /\ e \in Entry
        /\ redo' \in Seq(Entry) /\ Len(redo') = n - 1
        /\ \A k \in 1 .. n - 1 : redo'[k] = redo[k]
    BY <1>1, <1>2, FrontFields
  <2>2. /\ m \in Nat /\ undo' \in Seq(Entry) /\ Len(undo') = m + 1
        /\ (\A k \in 1 .. m : undo'[k] = undo[k]) /\ undo'[m + 1] = e
    BY <1>1, <1>2, <2>1, AppendProperties, LenProperties
  <2>3. m + 1 \in 1 .. m + 1 /\ \A k \in 1 .. m : k \in 1 .. m + 1
    BY <2>2
  <2>4. \A k \in 1 .. n - 1 : k \in 1 .. n
    BY <2>1
  <2> HIDE DEF n, m, e
  <2> QED
    BY <2>1, <2>2, <2>3, <2>4
<1>4. DOMAIN e.after \subseteq Items
  BY <1>2, <1>3, StackFields
<1>5. UNCHANGED recovery /\ \A i \in Items : shown'[i] = IF i \in DOMAIN e.after THEN e.after[i] ELSE shown[i]
  BY <1>1, <1>2, <1>4 DEF Mutate, Over, Part, Changed
<1> HIDE DEF e
<1>6. /\ \A k \in 1 .. n - 1 : Befores(redo')[k] = Befores(redo)[k] /\ Afters(redo')[k] = Afters(redo)[k]
      /\ \A k \in 1 .. m : Afters(undo')[k] = Afters(undo)[k] /\ Befores(undo')[k] = Befores(undo)[k]
      /\ Befores(undo')[m + 1] = Befores(redo)[n] /\ Afters(undo')[m + 1] = Afters(redo)[n]
      /\ \A k \in 1 .. n : DOMAIN Befores(redo)[k] \subseteq Items
      /\ \A k \in 1 .. m : DOMAIN Afters(undo)[k] \subseteq Items
      /\ Afters(redo)[n] = e.after
  <2>1. /\ \A k \in 1 .. n : /\ Afters(redo)[k] = redo[k].after /\ Befores(redo)[k] = redo[k].before
                             /\ DOMAIN redo[k].before \subseteq Items
        /\ \A k \in 1 .. m : /\ Afters(undo)[k] = undo[k].after /\ Befores(undo)[k] = undo[k].before
                             /\ DOMAIN undo[k].after \subseteq Items
    BY <1>2, StackFields
  <2>2. /\ \A k \in 1 .. Len(redo') : Afters(redo')[k] = redo'[k].after /\ Befores(redo')[k] = redo'[k].before
        /\ \A k \in 1 .. Len(undo') : Afters(undo')[k] = undo'[k].after /\ Befores(undo')[k] = undo'[k].before
    BY <1>3, StackFields
  <2>3. redo[n] = e /\ n \in 1 .. n
    BY <1>3 DEF e
  <2> HIDE DEF n, m
  <2>4. \A k \in 1 .. n - 1 : Afters(redo')[k] = Afters(redo)[k] /\ Befores(redo')[k] = Befores(redo)[k]
    BY <1>3, <2>1, <2>2
  <2>5. \A k \in 1 .. m : Befores(undo')[k] = Befores(undo)[k] /\ Afters(undo')[k] = Afters(undo)[k]
    <3>1. ASSUME NEW k \in 1 .. m
          PROVE  Befores(undo')[k] = Befores(undo)[k] /\ Afters(undo')[k] = Afters(undo)[k]
      <4>1. undo'[k] = undo[k] /\ k \in 1 .. Len(undo')
        BY <1>3
      <4>2. Befores(undo')[k] = undo'[k].before /\ Afters(undo')[k] = undo'[k].after
        BY <2>2, <4>1
      <4> QED
        BY <2>1, <4>1, <4>2
    <3> QED
      BY <3>1
  <2>6. Befores(undo')[m + 1] = e.before /\ Afters(undo')[m + 1] = e.after
    BY <1>3, <2>2
  <2>7. Befores(redo)[n] = e.before /\ Afters(redo)[n] = e.after
    BY <2>1, <2>3
  <2> QED
    BY <2>1, <2>4, <2>5, <2>6, <2>7
<1>7. /\ \A i \in DOMAIN Afters(redo)[n] : shown'[i] = Afters(redo)[n][i]
      /\ \A i \in Items \ DOMAIN Afters(redo)[n] : shown'[i] = shown[i]
  BY <1>4, <1>5, <1>6
<1> HIDE DEF n, m
<1>8. /\ Linked(n - 1, Afters(redo'), Befores(redo'), shown')
      /\ Linked(m + 1, Befores(undo'), Afters(undo'), shown')
  <2> DEFINE t == m + 1
  <2>1. Moves(n, Afters(redo), Befores(redo), m, Befores(undo), Afters(undo), shown,
              Afters(redo'), Befores(redo'), t, Befores(undo'), Afters(undo'), shown')
    BY <1>2, <1>3, <1>6, <1>7 DEF Moves
  <2> HIDE DEF t
  <2> QED
    BY <2>1, LinkedMove DEF t
<1>9. ~Recovering'
  BY <1>1, <1>5 DEF Recovering
<1> QED
  BY <1>3, <1>8, <1>9 DEF HistoryOK, Befores, Afters

LEMMA HistoryCommit ==
  ASSUME IInv, NEW c \in Ids, NEW e \in Edits, Commit(c, e) PROVE HistoryOK'
<1> DEFINE n == Len(undo)
           new == Image(e, c)
           entry == [before |-> Part(shown, DOMAIN e), after |-> new]
           longer == Append(undo, entry)
<1>1. ~Recovering /\ Mutate(c, new) /\ Record(entry)
  BY DEF Commit, Ready
<1>2. /\ HistoryType(undo, redo) /\ undo \in Seq(Entry) /\ shown \in [Items -> Values] /\ n \in Nat
      /\ Linked(n, Befores(undo), Afters(undo), shown)
  BY LenProperties DEF IInv, TypeOK, HistoryOK, HistoryType
<1>3. DOMAIN e \in SUBSET Items /\ new \in [DOMAIN e -> Values] /\ DOMAIN new = DOMAIN e
  BY EditDomain
<1>4. entry \in Entry
  <2>1. Part(shown, DOMAIN e) \in [DOMAIN e -> Values]
    BY <1>2, <1>3 DEF Part
  <2> QED
    BY <1>3, <2>1, ImagesIn DEF Entry
<1>5. UNCHANGED recovery /\ \A i \in Items : shown'[i] = IF i \in DOMAIN e THEN new[i] ELSE shown[i]
  BY <1>1, <1>2, <1>3 DEF Mutate, Over
<1>6. /\ entry.after = new /\ DOMAIN entry.before = DOMAIN e
      /\ \A i \in DOMAIN e : entry.before[i] = shown[i]
  BY DEF Part
<1> HIDE DEF new, entry
<1>7. /\ longer \in Seq(Entry) /\ Len(longer) = n + 1 /\ longer[n + 1] = entry
      /\ \A k \in 1 .. n : longer[k] = undo[k]
  BY <1>2, <1>4, AppendProperties
<1> HIDE DEF longer
<1> DEFINE t == n + 1
<1>8. Linked(t, Befores(longer), Afters(longer), shown')
  <2>1. /\ \A k \in 1 .. n : Befores(undo)[k] = undo[k].before /\ Afters(undo)[k] = undo[k].after
        /\ \A k \in 1 .. n : DOMAIN undo[k].after \subseteq Items
    BY <1>2, StackFields
  <2>2. \A k \in 1 .. t : Befores(longer)[k] = longer[k].before /\ Afters(longer)[k] = longer[k].after
    BY <1>7, StackFields
  <2>3. (\A k \in 1 .. n : k \in 1 .. t) /\ t \in 1 .. t
    BY <1>2
  <2> HIDE DEF n
  <2>4. \A k \in 1 .. n : Befores(longer)[k] = Befores(undo)[k] /\ Afters(longer)[k] = Afters(undo)[k]
    <3>1. ASSUME NEW k \in 1 .. n
          PROVE  Befores(longer)[k] = Befores(undo)[k] /\ Afters(longer)[k] = Afters(undo)[k]
      <4>1. longer[k] = undo[k] /\ k \in 1 .. t
        BY <1>7, <2>3
      <4> QED
        BY <2>1, <2>2, <4>1
    <3> QED
      BY <3>1
  <2>5. Befores(longer)[t] = entry.before /\ Afters(longer)[t] = new
    BY <1>6, <1>7, <2>2, <2>3
  <2>6. /\ DOMAIN Befores(longer)[t] = DOMAIN Afters(longer)[t]
        /\ \A i \in DOMAIN Befores(longer)[t] :
             Befores(longer)[t][i] = shown[i] /\ shown'[i] = Afters(longer)[t][i]
    BY <1>3, <1>5, <1>6, <2>5
  <2>7. \A k \in 1 .. n : \A i \in DOMAIN Afters(undo)[k] \ DOMAIN Befores(longer)[t] :
          shown'[i] = shown[i]
    BY <1>5, <1>6, <2>1, <2>5
  <2>8. t = n + 1
    OBVIOUS
  <2> HIDE DEF t
  <2>9. Pushes(n, Befores(undo), Afters(undo), shown, t, Befores(longer), Afters(longer), shown')
    BY <1>2, <2>4, <2>6, <2>7, <2>8 DEF Pushes
  <2> QED
    BY <2>9, LinkedPush
<1>9. redo' = <<>> /\ (undo' = longer \/ undo' = Tail(longer))
  BY <1>1, <1>2, <1>4, RecordStep DEF longer
<1>10. Linked(Len(undo'), Befores(undo'), Afters(undo'), shown')
  <2>1. CASE undo' = longer
    BY <1>7, <1>8, <2>1
  <2>2. CASE undo' = Tail(longer)
    <3>1. longer # <<>>
      BY <1>2, <1>7, EmptySeq
    <3>2. /\ undo' \in Seq(Entry) /\ Len(undo') = Len(longer) - 1
          /\ \A k \in 1 .. Len(longer) - 1 : undo'[k] = longer[k + 1]
      BY <1>7, <2>2, <3>1, HeadTailProperties
    <3>3. /\ t \in Nat /\ t > 0 /\ Len(undo') = t - 1 /\ Len(longer) = t
          /\ \A k \in 1 .. t - 1 : k \in 1 .. t /\ k + 1 \in 1 .. t
      BY <1>2, <1>7, <3>2
    <3> HIDE DEF t
    <3>4. \A k \in 1 .. t : Befores(longer)[k] = longer[k].before /\ Afters(longer)[k] = longer[k].after
      BY <1>7, <3>3, StackFields
    <3>5. \A k \in 1 .. t - 1 : Befores(undo')[k] = undo'[k].before /\ Afters(undo')[k] = undo'[k].after
      BY <3>2, <3>3, StackFields
    <3>6. \A k \in 1 .. t - 1 :
            Befores(undo')[k] = Befores(longer)[k + 1] /\ Afters(undo')[k] = Afters(longer)[k + 1]
      BY <3>2, <3>3, <3>4, <3>5, ZenonT(40)
    <3>7. Drops(t, Befores(longer), Afters(longer), shown', Befores(undo'), Afters(undo'))
      BY <1>8, <3>3, <3>6 DEF Drops
    <3> QED
      BY <3>3, <3>7, LinkedTail
  <2> QED
    BY <1>9, <2>1, <2>2
<1>11. Linked(Len(redo'), Afters(redo'), Befores(redo'), shown')
  <2>1. Len(redo') = 0
    BY <1>9, EmptySeq
  <2> QED
    BY <2>1, LinkedNone
<1>12. ~Recovering'
  BY <1>1, <1>5 DEF Recovering
<1> QED
  BY <1>10, <1>11, <1>12 DEF HistoryOK, Befores, Afters

LEMMA HistoryNone ==
  ASSUME undo' = <<>>, redo' = <<>> PROVE HistoryOK'
<1>1. Len(undo') = 0 /\ Len(redo') = 0
  BY EmptySeq
<1>2. /\ Linked(Len(undo'), Befores(undo'), Afters(undo'), shown')
      /\ Linked(Len(redo'), Afters(redo'), Befores(redo'), shown')
  BY <1>1, LinkedNone
<1> QED
  BY <1>2 DEF HistoryOK, Befores, Afters

\* The history is left alone, and so is everything that it restores.
LEMMA HistoryFrame ==
  ASSUME IInv, UNCHANGED <<undo, redo>>, Recovering' => Recovering,
         \A k \in DOMAIN undo : \A i \in DOMAIN undo[k].after : shown'[i] = shown[i],
         \A k \in DOMAIN redo : \A i \in DOMAIN redo[k].before : shown'[i] = shown[i]
  PROVE  HistoryOK'
<1>1. /\ undo \in Seq(Entry) /\ redo \in Seq(Entry) /\ HistoryOK
      /\ Linked(Len(undo), Befores(undo), Afters(undo), shown)
      /\ Linked(Len(redo), Afters(redo), Befores(redo), shown)
  BY DEF IInv, TypeOK, HistoryOK
<1>2. /\ Len(undo) \in Nat /\ DOMAIN undo = 1 .. Len(undo)
      /\ \A k \in 1 .. Len(undo) : Afters(undo)[k] = undo[k].after
      /\ Len(redo) \in Nat /\ DOMAIN redo = 1 .. Len(redo)
      /\ \A k \in 1 .. Len(redo) : Befores(redo)[k] = redo[k].before
  BY <1>1, StackFields
<1>3. /\ \A k \in 1 .. Len(undo) : \A i \in DOMAIN Afters(undo)[k] : shown'[i] = shown[i]
      /\ \A k \in 1 .. Len(redo) : \A i \in DOMAIN Befores(redo)[k] : shown'[i] = shown[i]
  BY <1>2
<1>4. Linked(Len(undo), Befores(undo), Afters(undo), shown')
  BY <1>1, <1>2, <1>3, LinkedSame
<1>5. Linked(Len(redo), Afters(redo), Befores(redo), shown')
  BY <1>1, <1>2, <1>3, LinkedSame
<1>6. Befores(undo') = Befores(undo) /\ Afters(undo') = Afters(undo)
      /\ Befores(redo') = Befores(redo) /\ Afters(redo') = Afters(redo)
  OBVIOUS
<1> QED
  BY <1>1, <1>4, <1>5, <1>6 DEF HistoryOK, Befores, Afters

LEMMA HistoryAccepts ==
  ASSUME IInv, NEW r, Accepts(r) PROVE HistoryOK'
<1>1. /\ r \in DOMAIN log /\ UNCHANGED <<log, image, recovery>>
      /\ undo' = (IF Forgets(r) THEN <<>> ELSE undo) /\ redo' = (IF Forgets(r) THEN <<>> ELSE redo)
  BY AcceptsStep DEF Accepts, Install
<1>2. \A i \in Items : shown'[i] = IF i \in Targets(r) \ Protected(r) THEN Doc(r)[i].val ELSE shown[i]
  BY InstallItem
<1>3. /\ undo \in Seq(Entry) /\ redo \in Seq(Entry) /\ PendingOK /\ ShownOK
      /\ \A k \in DOMAIN undo : DOMAIN undo[k].after \subseteq Items
      /\ \A k \in DOMAIN redo : DOMAIN redo[k].before \subseteq Items
  <2>1. undo \in Seq(Entry) /\ redo \in Seq(Entry) /\ PendingOK /\ ShownOK
    BY DEF IInv, TypeOK
  <2>2. /\ DOMAIN undo = 1 .. Len(undo) /\ \A k \in 1 .. Len(undo) : DOMAIN undo[k].after \subseteq Items
        /\ DOMAIN redo = 1 .. Len(redo) /\ \A k \in 1 .. Len(redo) : DOMAIN redo[k].before \subseteq Items
    BY <2>1, StackFields
  <2> QED
    BY <2>1, <2>2
<1>4. CASE Own(r)
  <2> DEFINE p == log[r].cmd
  <2>1. /\ p \in Ids /\ 1 \in DOMAIN pending /\ pending[1] = p /\ Targets(r) = Affected(p)
        /\ \A i \in Affected(p) : log[r].doc[i].val = image[p].after[i]
    BY <1>1, <1>4, OwnIsHead
  <2>2. ~Recovering
    BY <1>4, <2>1, PendingIsCurrent DEF Own
  <2>3. Doc(r) = log[r].doc
    <3>1. r # 0
      BY <1>1, LogType DEF IInv
    <3> QED
      BY <3>1 DEF Doc
  <2> HIDE DEF p
  <2>4. ASSUME NEW i \in Items PROVE shown'[i] = shown[i]
    <3>1. CASE i \in Targets(r) \ Protected(r)
      <4>1. \A k \in DOMAIN pending : pending[k] # p => i \notin Affected(pending[k])
        BY <1>4, <3>1, OthersTouched DEF Protected, p
      <4>2. Plain(i) \/ \E k \in DOMAIN pending : Touched(i, k)
        BY <1>3, <2>2 DEF ShownOK
      <4>3. i \in Affected(pending[1])
        BY <2>1, <3>1
      <4>4. PICK k \in DOMAIN pending : Touched(i, k)
        BY <2>1, <4>2, <4>3 DEF Plain
      <4>5. pending[k] = p /\ shown[i] = image[pending[k]].after[i]
        BY <4>1, <4>4 DEF Touched
      <4> QED
        BY <1>2, <2>1, <2>3, <3>1, <4>5
    <3> QED
      BY <1>2, <3>1
  <2>5. ~Forgets(r)
    BY <1>4 DEF Forgets
  <2> QED
    BY <1>1, <1>3, <2>4, <2>5, HistoryFrame DEF Recovering
<1>5. CASE ~Own(r) /\ Forgets(r)
  BY <1>1, <1>5, HistoryNone
<1>6. CASE ~Own(r) /\ ~Forgets(r)
  <2>1. ASSUME NEW i \in Items, i \notin Effects(r) PROVE shown'[i] = shown[i]
    BY <1>2, <2>1 DEF Effects
  <2>2. ~Touches(undo, Effects(r)) /\ ~Touches(redo, Effects(r))
    BY <1>6 DEF Forgets
  <2>3. /\ \A k \in DOMAIN undo : \A i \in DOMAIN undo[k].after : i \in Items /\ i \notin Effects(r)
        /\ \A k \in DOMAIN redo : \A i \in DOMAIN redo[k].before : i \in Items /\ i \notin Effects(r)
    BY <1>3, <2>2 DEF Touches
  <2> QED
    BY <1>1, <1>6, <2>1, <2>3, HistoryFrame DEF Recovering
<1> QED
  BY <1>4, <1>5, <1>6

LEMMA StepKeepsHistory ==
  ASSUME IInv, Step PROVE HistoryOK'
<1>1. ASSUME UNCHANGED <<undo, redo, shown>>, Recovering' => Recovering PROVE HistoryOK'
  BY <1>1, HistoryFrame
<1>2. ASSUME NEW c \in Ids, UserEdits(c) PROVE HistoryOK'
  BY <1>2, HistoryUndo, HistoryRedo, HistoryCommit DEF UserEdits
<1>3. ASSUME NEW r, Accepts(r) PROVE HistoryOK'
  BY <1>3, HistoryAccepts
<1>4. ASSUME NEW c \in Ids,
             Quits(c) \/ Leaves(c) \/ Decides(c) \/ Loses(c) \/ Waits(c)
      PROVE  HistoryOK'
  BY <1>1, <1>4 DEF Quits, Leaves, Decides, Loses, Waits, Kept, Recovering
<1>5. ASSUME Recover PROVE HistoryOK'
  BY <1>5, RecoverType, HistoryNone
<1>6. CASE Streams \/ UNCHANGED vars \/ \E r \in RemoteIds : Remote(r)
  BY <1>1, <1>6 DEF Streams, Kept, Remote, document, vars, Recovering
<1>7. CASE ReadSnapshot \/ SnapshotFails
  <2>1. UNCHANGED <<undo, redo, shown>> /\ Recovering
    BY <1>7 DEF ReadSnapshot, SnapshotFails, document, Recovering
  <2> QED
    BY <1>1, <2>1
<1>8. CASE InstallSnapshot
  BY <1>8, HistoryNone DEF InstallSnapshot
<1> QED
  BY <1>2, <1>3, <1>4, <1>5, <1>6, <1>7, <1>8 DEF Step, AcceptsAnswer, AcceptsEvent, Breaks, Falls

-----------------------------------------------------------------------------
(***************************************************************************)
(* The invariant is inductive, and what follows from it.                   *)
(***************************************************************************)
LEMMA InitHolds ==
  Init => IInv
<1> SUFFICES ASSUME Init PROVE IInv
  OBVIOUS
<1>1. Doc(0) = [i \in Items |-> NoRow] /\ Doc(0) \in [Items -> Row] /\ Vals(Doc(0)) \in [Items -> Values]
      /\ Vals(Doc(0)) = [i \in Items |-> Absent]
  BY NoRowType DEF Doc, Vals
<1>2. Revision = 0 /\ DOMAIN log = {} /\ DOMAIN pending = {} /\ DOMAIN lane = {}
  BY EmptySeq DEF Init, Revision
<1>3. [before |-> <<>>, after |-> <<>>] \in Entry
  <2>1. <<>> \in [{} -> Values] /\ {} \in SUBSET Items
    OBVIOUS
  <2> QED
    BY <2>1, ImagesIn DEF Entry
<1>4. [at |-> "idle", gen |-> 0, rev |-> 0, gate |-> 0, guards |-> [i \in Items |-> 0]] \in Fiber
  BY DEF Fiber
<1>5. HistoryType(undo, redo)
  BY EmptyHistory DEF Init
<1>6. TypeOK
  <2>1. log \in Seq([cmd : Ids \cup RemoteIds, doc : [Items -> Row]])
        /\ pending \in Seq(Ids) /\ lane \in Seq(Ids)
    BY EmptySeq DEF Init
  <2>2. accepted \in AcceptedType /\ recovery \in RecoveryType
    BY <1>1 DEF Init, AcceptedType, RecoveryType
  <2>3. fiber \in [Ids -> Fiber] /\ image \in [Ids -> Entry]
    BY <1>3, <1>4 DEF Init
  <2> QED
    BY <1>1, <1>5, <2>1, <2>2, <2>3, TypeParts DEF Init
<1>7. \A c \in Ids : fiber[c].at = "idle"
  BY DEF Init
<1>8. LogOK /\ GuardsOK /\ AnswersOK /\ SeenOK
  BY <1>2, <1>7 DEF LogOK, GuardsOK, AnswersOK, SeenOK, Init
<1>9. AcceptedIsCommitted /\ SnapshotOK /\ stream.cursor <= Revision
  BY <1>2 DEF AcceptedIsCommitted, SnapshotOK, Init
<1>10. PendingOK /\ LaneOK
  BY <1>2, <1>7 DEF PendingOK, LaneOK, Distinct, Within, Before, Init
<1>11. ShownOK
  BY <1>1, <1>2 DEF ShownOK, Plain, Init, Vals
<1>12. HistoryOK
  <2>1. Len(undo) = 0 /\ Len(redo) = 0 /\ undo = <<>> /\ redo = <<>>
    BY EmptySeq DEF Init
  <2> QED
    BY <2>1, LinkedNone DEF HistoryOK
<1> QED
  BY <1>6, <1>8, <1>9, <1>10, <1>11, <1>12 DEF IInv

LEMMA NextKeeps ==
  IInv /\ [Next]_vars => IInv'
<1> SUFFICES ASSUME IInv, [Next]_vars PROVE IInv'
  OBVIOUS
<1>1. Step
  BY Kinds
<1>2. TypeOK'
  BY <1>1, StepKeepsType
<1>3. FibersInv' /\ AcceptedInv' /\ QueueInv' /\ ShownOK' /\ HistoryOK'
  BY <1>1, <1>2, StepKeepsFibers, StepKeepsAccepted, StepKeepsQueue, StepKeepsShown, StepKeepsHistory
<1> QED
  BY <1>2, <1>3 DEF IInv, FibersInv, AcceptedInv, QueueInv

LEMMA InvariantHolds ==
  Spec => []IInv
<1>1. Init => IInv
  BY InitHolds
<1>2. IInv /\ [Next]_vars => IInv'
  BY NextKeeps
<1> QED
  BY <1>1, <1>2, PTL DEF Spec

\* The accepted items are the document of the accepted revision, whether
\* they came from a snapshot, from answers or from events
\* (CanvasDocumentService.acceptEvent, installSnapshot).
THEOREM AcceptedStaysCommitted ==
  Spec => []AcceptedIsCommitted
<1>1. IInv => AcceptedIsCommitted
  BY DEF IInv
<1> QED
  BY <1>1, InvariantHolds, PTL

\* The user always sees what is accepted under every mutation that is still
\* pending, in the order in which they were made, whatever commits, answers
\* and reloads come in between (CanvasDocumentService.acceptEvent's protected
\* items and overlap check).
THEOREM ShownStaysInOrder ==
  Spec => []ShownIsAcceptedAndPending
<1>1. ASSUME IInv PROVE ShownIsAcceptedAndPending
  <2> SUFFICES ASSUME ~Recovering PROVE shown = Overlay(Vals(accepted.items))
    BY DEF ShownIsAcceptedAndPending
  <2>1. ShownOK /\ shown \in [Items -> Values]
    BY <1>1 DEF IInv, TypeOK
  <2>2. ASSUME NEW i \in Items
        PROVE  shown[i] = Overlay(Vals(accepted.items))[i]
    <3> DEFINE touching == {k \in DOMAIN pending : i \in Affected(pending[k])}
               last == CHOOSE k \in touching : \A j \in touching : j <= k
    <3>1. Overlay(Vals(accepted.items))[i] =
            IF touching = {} THEN accepted.items[i].val ELSE image[pending[last]].after[i]
      BY DEF Overlay, Vals
    <3>2. CASE Plain(i)
      <4>1. touching = {} /\ shown[i] = accepted.items[i].val
        BY <3>2 DEF Plain
      <4> HIDE DEF touching, last
      <4> QED
        BY <3>1, <4>1
    <3>3. ASSUME NEW k \in DOMAIN pending, Touched(i, k)
          PROVE  shown[i] = Overlay(Vals(accepted.items))[i]
      <4>1. k \in touching /\ \A j \in touching : j <= k
        BY <3>3 DEF Touched
      <4>2. touching \subseteq Nat
        BY <1>1, PendingType
      <4> HIDE DEF touching
      <4>3. last \in touching /\ \A j \in touching : j <= last
        BY <4>1
      <4>4. k <= last /\ last <= k /\ k \in Nat /\ last \in Nat
        BY <4>1, <4>2, <4>3
      <4> HIDE DEF last
      <4>5. last = k
        BY <4>4
      <4> QED
        BY <3>1, <3>3, <4>1, <4>5 DEF Touched
    <3> QED
      BY <2>1, <3>2, <3>3 DEF ShownOK
  <2>3. Overlay(Vals(accepted.items)) = [i \in Items |-> Overlay(Vals(accepted.items))[i]]
    BY DEF Overlay
  <2> HIDE DEF Overlay
  <2> QED
    BY <2>1, <2>2, <2>3
<1> QED
  BY <1>1, InvariantHolds, PTL

\* Undo and redo always find the items as their entry left them, so that an
\* undo never takes back what another client did since
\* (CanvasDocumentHistory, CanvasDocumentService.undo, redo), and the history
\* never exceeds its capacity.
THEOREM HistoryStaysSound ==
  Spec => []HistoryIsSound
<1>1. ASSUME IInv PROVE HistoryIsSound
  <2>1. TypeOK /\ HistoryOK /\ undo \in Seq(Entry) /\ redo \in Seq(Entry)
    BY <1>1 DEF IInv, TypeOK
  <2>2. ASSUME undo # <<>>
        PROVE  undo[Len(undo)].after = Part(shown, DOMAIN undo[Len(undo)].after)
    <3> DEFINE n == Len(undo)
               new == undo[n].after
    <3>1. n \in Nat /\ n > 0 /\ undo[n] \in Entry
      BY <2>1, <2>2, FrontFields
    <3>2. n \in 1 .. n /\ \A m \in 1 .. n : ~(n < m)
      BY <3>1
    <3>3. Afters(undo)[n] = new
      BY <2>1, <3>2, StackFields
    <3>4. \A i \in DOMAIN new : shown[i] = new[i]
      BY <2>1, <3>2, <3>3 DEF HistoryOK, Linked
    <3>5. new \in [DOMAIN new -> Values]
      BY <3>1, ImagesOut DEF Entry
    <3> HIDE DEF new
    <3> QED
      BY <3>4, <3>5 DEF Part, new
  <2>3. ASSUME redo # <<>>
        PROVE  redo[Len(redo)].before = Part(shown, DOMAIN redo[Len(redo)].before)
    <3> DEFINE n == Len(redo)
               old == redo[n].before
    <3>1. n \in Nat /\ n > 0 /\ redo[n] \in Entry
      BY <2>1, <2>3, FrontFields
    <3>2. n \in 1 .. n /\ \A m \in 1 .. n : ~(n < m)
      BY <3>1
    <3>3. Befores(redo)[n] = old
      BY <2>1, <3>2, StackFields
    <3>4. \A i \in DOMAIN old : shown[i] = old[i]
      BY <2>1, <3>2, <3>3 DEF HistoryOK, Linked
    <3>5. old \in [DOMAIN old -> Values]
      BY <3>1, ImagesOut DEF Entry
    <3> HIDE DEF old
    <3> QED
      BY <3>4, <3>5 DEF Part, old
  <2> QED
    BY <2>1, <2>2, <2>3 DEF HistoryIsSound, HistoryMatches
<1> QED
  BY <1>1, InvariantHolds, PTL

\* The answer of a pending command is never behind what is accepted, is for
\* what the command changed and is new; the accepted revision never goes back,
\* although a snapshot is read at one moment and installed at another; and no
\* mutation is dropped silently: it was accepted, or a recovery is on
\* (CanvasDocumentService.acceptEvent, scheduleRecovery).
THEOREM AnswersStayRight ==
  Spec => AnswersAreTakenRight
<1>1. ASSUME IInv PROVE AnswersMakeSense
  <2>1. ASSUME NEW c \in Ids, fiber[c].at = "committed", IsPending(c)
        PROVE  /\ ~Stale(fiber[c].rev) /\ c \notin seen
               /\ Affected(c) = Targets(fiber[c].rev)
    <3>1. fiber[c].rev \in DOMAIN log /\ log[fiber[c].rev].cmd = c
      BY <1>1, <2>1, AnswerRange
    <3>2. Affected(c) = Targets(fiber[c].rev)
      BY <1>1, <3>1 DEF IInv, LogOK
    <3>3. accepted.rev < fiber[c].rev /\ c \notin seen
      BY <1>1, <2>1 DEF IInv, PendingOK, IsPending
    <3>4. accepted.rev \in Nat /\ fiber[c].rev \in Nat
      BY <1>1, <3>1, LogType DEF IInv, TypeOK
    <3> QED
      BY <3>2, <3>3, <3>4 DEF Stale
  <2> QED
    BY <2>1 DEF AnswersMakeSense
<1>2. ASSUME IInv, [Next]_vars
      PROVE  /\ accepted'.rev >= accepted.rev
             /\ \A c \in Ids : IsPending(c) /\ ~IsPending(c)' => c \in seen' \/ Recovering'
  <2>1. Step /\ accepted.rev \in Nat
    BY <1>2, Kinds DEF IInv, TypeOK
  <2>2. ASSUME UNCHANGED <<accepted, pending>>
        PROVE  /\ accepted'.rev >= accepted.rev
               /\ \A c \in Ids : IsPending(c) /\ ~IsPending(c)' => c \in seen' \/ Recovering'
    BY <2>1, <2>2 DEF IsPending
  <2>3. ASSUME Recover, UNCHANGED accepted
        PROVE  /\ accepted'.rev >= accepted.rev
               /\ \A c \in Ids : IsPending(c) /\ ~IsPending(c)' => c \in seen' \/ Recovering'
    BY <1>2, <2>1, <2>3, RecoverType
  <2>4. ASSUME NEW r, Accepts(r)
        PROVE  /\ accepted'.rev >= accepted.rev
               /\ \A c \in Ids : IsPending(c) /\ ~IsPending(c)' => c \in seen' \/ Recovering'
    <3>1. accepted'.rev = r /\ r = accepted.rev + 1
      BY <1>2, <2>4, AcceptsStep
    <3>2. Distinct(pending) /\ pending \in Seq(Ids)
      BY <1>2, PendingType DEF IInv, PendingOK
    <3>3. pending' = RemoveFirst(pending, log[r].cmd) /\ seen' = seen \cup {log[r].cmd}
      BY <2>4 DEF Accepts, Install, Retires
    <3>4. \A x : Within(pending', x) <=> Within(pending, x) /\ x # log[r].cmd
      BY <3>2, <3>3, RemoveFirstKeeps
    <3>5. \A c \in Ids : IsPending(c) /\ ~IsPending(c)' => c = log[r].cmd
      BY <3>4 DEF IsPending, Within
    <3> QED
      BY <2>1, <3>1, <3>3, <3>5
  <2>5. ASSUME NEW d \in Ids, UserEdits(d)
        PROVE  /\ accepted'.rev >= accepted.rev
               /\ \A c \in Ids : IsPending(c) /\ ~IsPending(c)' => c \in seen' \/ Recovering'
    <3>1. pending' = Append(pending, d) /\ UNCHANGED accepted
      BY <2>5 DEF UserEdits, Mutate
    <3>2. /\ Len(pending') = Len(pending) + 1 /\ pending' \in Seq(Ids)
          /\ \A k \in 1 .. Len(pending) : pending'[k] = pending[k]
      BY <1>2, <3>1, PendingType, AppendProperties
    <3>3. DOMAIN pending' = 1 .. Len(pending) + 1
      BY <3>2, LenProperties
    <3>4. \A k \in DOMAIN pending : k \in DOMAIN pending' /\ pending'[k] = pending[k]
      BY <1>2, <3>2, <3>3, PendingType
    <3> QED
      BY <2>1, <3>1, <3>4 DEF IsPending
  <2>6. CASE InstallSnapshot
    <3>1. /\ recovery.at = "answered" /\ UNCHANGED pending
          /\ accepted' = [rev |-> recovery.rev, items |-> recovery.items]
      BY <2>6 DEF InstallSnapshot
    <3>2. accepted.rev <= recovery.rev /\ recovery.rev \in Nat
      BY <1>2, <3>1 DEF IInv, SnapshotOK, TypeOK
    <3> QED
      BY <2>1, <3>1, <3>2 DEF IsPending
  <2>7. CASE \/ \E c \in Ids : Quits(c) \/ Leaves(c) \/ Decides(c) \/ Loses(c) \/ Waits(c)
             \/ Streams \/ UNCHANGED vars \/ ReadSnapshot \/ SnapshotFails
             \/ \E r \in RemoteIds : Remote(r)
    <3>1. UNCHANGED <<accepted, pending>>
      BY <2>7 DEF Quits, Leaves, Decides, Loses, Waits, Kept, Streams, vars, document,
                  ReadSnapshot, SnapshotFails, Remote
    <3> QED
      BY <2>2, <3>1
  <2>8. CASE \/ \E c \in Ids : Breaks(c) \/ AcceptsAnswer(c)
             \/ AcceptsEvent \/ Falls
    BY <2>3, <2>4, <2>8 DEF Breaks, AcceptsAnswer, AcceptsEvent, Falls
  <2> QED
    BY <2>1, <2>5, <2>6, <2>7, <2>8 DEF Step
<1>3. IInv /\ [Next]_vars => [accepted'.rev >= accepted.rev]_vars
  BY <1>2
<1>4. IInv /\ [Next]_vars =>
        [\A c \in Ids : IsPending(c) /\ ~IsPending(c)' => c \in seen' \/ Recovering']_vars
  BY <1>2
<1> QED
  BY <1>1, <1>3, <1>4, InvariantHolds, PTL
    DEF Spec, AnswersAreTakenRight, NeverGoesBack, NothingDroppedSilently
=============================================================================
