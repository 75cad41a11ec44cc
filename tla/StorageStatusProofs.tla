------------------------ MODULE StorageStatusProofs ------------------------
(***************************************************************************)
(* Proofs about StorageStatus for any items, any values and any number of  *)
(* writes and transactions: when the statuses set_storage reports are      *)
(* right, and what modify_time counts.                                     *)
(***************************************************************************)
EXTENDS StorageStatus, HostStateProofs, FiniteSetTheorems

Item(ctx, a, k) == entry(ctx.accounts, a).storage[k]

(* The item a write works on, and what becomes of it.                      *)
Found(item, value) == IF item = None THEN Value_new(value) ELSE item
Written(item, value) == update_data(Found(item, value), value)
Shown(item) == IF item = None THEN ZeroWord ELSE item.data

LEMMA ItemType ==
  ASSUME NEW ctx \in TestHostContext, NEW a \in Address, NEW k \in Key
  PROVE  Item(ctx, a, k) \in Value \cup {None} /\ get_storage(ctx, a, k) = Shown(Item(ctx, a, k))
<1>1. Item(ctx, a, k) \in Value \cup {None}
  BY EntryType DEF Item, AccountData
<1>2. CASE ctx.accounts[a] = None
  BY <1>1, <1>2 DEF get_storage, Item, Shown, entry, AccountData_new
<1>3. CASE ctx.accounts[a] # None
  BY <1>1, <1>3 DEF get_storage, Item, Shown, entry
<1> QED  BY <1>1, <1>2, <1>3

(* set_storage writes one item and leaves every other as it was.           *)
LEMMA ItemsWritten ==
  ASSUME NEW ctx \in TestHostContext, NEW a \in Address, NEW key \in Key,
         NEW value \in Word, NEW b \in Address, NEW k \in Key
  PROVE  Item(set_storage(ctx, a, key, value), b, k) =
           IF b = a /\ k = key THEN Written(Item(ctx, a, key), value) ELSE Item(ctx, b, k)
<1> DEFINE new == update_data(slot(ctx.accounts, a, key, value), value)
           account == [entry(ctx.accounts, a) EXCEPT !.storage[key] = new]
<1>1. new = Written(Item(ctx, a, key), value)
  BY DEF Written, Found, Item, slot
<1>2. entry(ctx.accounts, a) \in AccountData /\ new \in Value
  BY EntryType, SlotType
<1> HIDE DEF new
<1>3. account \in AccountData
  BY <1>2 DEF AccountData
<1>4. \A l \in Key : account.storage[l] =
                       IF l = key THEN new ELSE entry(ctx.accounts, a).storage[l]
  BY <1>2 DEF AccountData
<1>5. set_storage(ctx, a, key, value) = [ctx EXCEPT !.accounts[a] = account]
  BY DEF set_storage, new
<1> HIDE DEF account
<1>6. \A c \in Address : set_storage(ctx, a, key, value).accounts[c] =
                           IF c = a THEN account ELSE ctx.accounts[c]
  BY <1>5 DEF TestHostContext
<1>7. entry(set_storage(ctx, a, key, value).accounts, b) =
        IF b = a THEN account ELSE entry(ctx.accounts, b)
  BY <1>3, <1>6, NoneAssumption DEF entry
<1> QED  BY <1>1, <1>4, <1>7 DEF Item

(* What one write does to its item, and what is reported of it.            *)
Outcome(old, new, value, status) ==
  /\ new \in Value /\ new # None /\ new.data = value
  /\ status \in Reported
  /\ old = None => (new.modify_time = 0 /\ status = "added")
  /\ old # None =>
       /\ old \in Value
       /\ new.modify_time = IF old.data = value THEN old.modify_time ELSE old.modify_time + 1
       /\ status = IF old.data = value
                     THEN IF old.modify_time = 0 THEN "added" ELSE "unchanged"
                     ELSE IF old.modify_time = 0 THEN "modified" ELSE "modified_again"

LEMMA OneWrite ==
  ASSUME NEW ctx \in TestHostContext, NEW a \in Address, NEW key \in Key,
         NEW value \in Word
  PROVE  Outcome(Item(ctx, a, key), Written(Item(ctx, a, key), value), value,
                 storage_status(ctx, a, key, value))
<1> DEFINE old == Item(ctx, a, key)
           new == Written(old, value)
           status == storage_status(ctx, a, key, value)
<1>1. old \in Value \cup {None} /\ old = entry(ctx.accounts, a).storage[key]
  BY ItemType DEF Item
<1>2. slot(ctx.accounts, a, key, value) = Found(old, value)
  BY <1>1 DEF slot, Found
<1>3. ASSUME old = None  PROVE Outcome(old, new, value, status)
  <2>1. Found(old, value) = [data |-> value, modify_time |-> 0]
    BY <1>3 DEF Found, Value_new
  <2>2. new = [data |-> value, modify_time |-> 0]
    BY <2>1 DEF Written, update_data
  <2>3. status = "added"
    BY <1>2, <2>1 DEF storage_status, update_data
  <2> HIDE DEF old, new, status
  <2> QED  BY <1>3, <2>2, <2>3, NoneAssumption DEF Value, Reported, Outcome
<1>4. ASSUME old # None  PROVE Outcome(old, new, value, status)
  <2>1. old \in Value /\ Found(old, value) = old /\ old.modify_time \in Nat /\ old.data \in Word
    BY <1>1, <1>4 DEF Found, Value
  <2>2. new = IF value # old.data
                THEN [data |-> value, modify_time |-> old.modify_time + 1] ELSE old
    BY <2>1 DEF Written, update_data
  <2>3. new \in Value /\ new # None /\ new.data = value
    BY <2>1, <2>2, NoneAssumption DEF Value
  <2>4. status = CASE new.modify_time = 0 /\ value # old.data    -> "invalid"
                   [] new.modify_time = 0 /\ ~(value # old.data) -> "added"
                   [] new.modify_time = 1 /\ value # old.data    -> "modified"
                   [] new.modify_time > 1 /\ value # old.data    -> "modified_again"
                   [] new.modify_time > 0 /\ ~(value # old.data) -> "unchanged"
    BY <1>2, <2>1 DEF storage_status, Written
  <2> HIDE DEF old, new, status
  <2>5. new.modify_time = IF old.data = value THEN old.modify_time ELSE old.modify_time + 1
    BY <2>1, <2>2
  <2>6. status = IF old.data = value
                   THEN IF old.modify_time = 0 THEN "added" ELSE "unchanged"
                   ELSE IF old.modify_time = 0 THEN "modified" ELSE "modified_again"
    BY <2>1, <2>4, <2>5
  <2> QED  BY <1>4, <2>1, <2>3, <2>5, <2>6 DEF Reported, Outcome
<1> QED  BY <1>3, <1>4
-----------------------------------------------------------------------------
(* What an item and the writes it has had say of each other: the named     *)
(* properties for one item, and what they need to be inductive, namely     *)
(* that modify_time tells the rung of the ladder the item has reached.     *)

Right(w, i) ==
  /\ w.status \in {"modified", "modified_again"} => Changes(w)
  /\ w.status = "unchanged" => ~Changes(w)
  /\ Changes(w) /\ w.status = "added" => w.old = ZeroWord /\ i = 1

Climbs(writes, i, j) ==
  i < j =>
    /\ writes[j].status = "added" => writes[i].status = "added"
    /\ writes[j].status = "modified" => writes[i].status = "added"
    /\ writes[j].status = "modified_again" =>
         \E n \in 1 .. j - 1 : writes[n].status = "modified"

Rung(item, writes) ==
  /\ item.modify_time = 0 => \A i \in 1 .. Len(writes) : writes[i].status = "added"
  /\ item.modify_time > 0 => \E i \in 1 .. Len(writes) : writes[i].status = "modified"

Seen(writes) == {i \in 2 .. Len(writes) : Changes(writes[i])}

Kept(item, writes) ==
  /\ item = None <=> writes = << >>
  /\ \A i \in 1 .. Len(writes) : Right(writes[i], i)
  /\ \A i, j \in 1 .. Len(writes) : Climbs(writes, i, j)
  /\ item # None => Rung(item, writes)
  /\ item # None => item.modify_time = Cardinality(Seen(writes))

LEMMA SeenIsFinite ==
  ASSUME NEW writes \in Seq(Write)
  PROVE  IsFiniteSet(Seen(writes))
<1>1. Len(writes) \in Int /\ 2 \in Int
  OBVIOUS
<1>2. IsFiniteSet(2 .. Len(writes))
  BY <1>1, FS_Interval
<1>3. Seen(writes) \in SUBSET (2 .. Len(writes))
  BY DEF Seen
<1> QED  BY <1>2, <1>3, FS_Subset

(* One more write leaves the writes before it where they were.             *)
LEMMA Appended ==
  ASSUME NEW writes \in Seq(Write), NEW w \in Write
  PROVE  LET longer == Append(writes, w)
         IN  /\ longer \in Seq(Write)
             /\ Len(longer) = Len(writes) + 1
             /\ Len(writes) \in Nat
             /\ \A i \in 1 .. Len(writes) : longer[i] = writes[i]
             /\ longer[Len(writes) + 1] = w
  BY AppendProperties

LEMMA WriteKeeps ==
  ASSUME NEW item \in Value \cup {None}, NEW new, NEW value \in Word,
         NEW writes \in Seq(Write), NEW w \in Write,
         Kept(item, writes), Outcome(item, new, value, w.status),
         w.old = Shown(item), w.new = value
  PROVE  Kept(new, Append(writes, w))
<1> DEFINE n == Len(writes)
           longer == Append(writes, w)
<1>1. /\ longer \in Seq(Write) /\ Len(longer) = n + 1 /\ n \in Nat
      /\ \A i \in 1 .. n : longer[i] = writes[i]
      /\ longer[n + 1] = w
  BY Appended
<1>2. item # None => item.modify_time \in Nat
  BY DEF Value
<1>3. item = None <=> n = 0
  BY <1>1 DEF Kept
<1>4. new # None /\ longer # << >>
  BY <1>1 DEF Outcome
<1> HIDE DEF n, longer
<1>5. \A i \in 1 .. n + 1 : Right(longer[i], i)
  <2>1. Right(w, n + 1)
    <3>1. CASE item = None
      BY <3>1, <1>3 DEF Right, Outcome, Shown
    <3>2. CASE item # None
      BY <3>2, <1>2 DEF Right, Outcome, Shown, Changes
    <3> QED  BY <3>1, <3>2
  <2>2. \A i \in 1 .. n : Right(writes[i], i)
    BY DEF Kept, n
  <2> QED  BY <1>1, <2>1, <2>2
<1>6. item # None => Rung(item, writes)
  BY DEF Kept
<1>7. \A i, j \in 1 .. n + 1 : Climbs(longer, i, j)
  <2> SUFFICES ASSUME NEW i \in 1 .. n + 1, NEW j \in 1 .. n + 1, i < j
               PROVE  Climbs(longer, i, j)
    BY DEF Climbs
  <2>1. i \in 1 .. n
    BY <1>1
  <2>2. CASE j \in 1 .. n
    <3>1. Climbs(writes, i, j)
      BY <2>1, <2>2 DEF Kept, n
    <3>2. \A k \in 1 .. j - 1 : longer[k] = writes[k]
      BY <1>1, <2>2
    <3> QED  BY <1>1, <2>1, <2>2, <3>1, <3>2 DEF Climbs
  <2>3. CASE j = n + 1
    <3>1. item # None /\ longer[j] = w /\ longer[i] = writes[i]
      BY <1>1, <1>3, <2>1, <2>3
    <3>2. CASE item.modify_time = 0
      BY <1>6, <2>1, <3>1, <3>2 DEF Rung, Climbs, Outcome, n
    <3>3. CASE item.modify_time # 0
      <4>1. w.status \in {"unchanged", "modified_again"}
        BY <3>1, <3>3 DEF Outcome
      <4>2. PICK k \in 1 .. n : writes[k].status = "modified"
        BY <1>2, <1>6, <3>1, <3>3 DEF Rung, n
      <4>3. k \in 1 .. j - 1 /\ longer[k].status = "modified"
        BY <1>1, <2>3, <4>2
      <4> QED  BY <3>1, <4>1, <4>3 DEF Climbs
    <3> QED  BY <3>2, <3>3
  <2> QED  BY <1>1, <2>2, <2>3
<1>8. Rung(new, longer)
  <2>1. CASE item = None
    <3>1. new.modify_time = 0 /\ w.status = "added" /\ n = 0
      BY <1>3, <2>1 DEF Outcome
    <3> QED  BY <1>1, <3>1 DEF Rung
  <2>2. CASE item # None
    <3>1. Rung(item, writes)
      BY <1>6, <2>2
    <3>2. \A i \in 1 .. n + 1 : longer[i] = IF i = n + 1 THEN w ELSE writes[i]
      BY <1>1
    <3>3. CASE item.modify_time = 0 /\ item.data = value
      <4>1. new.modify_time = 0 /\ w.status = "added"
        BY <2>2, <3>3 DEF Outcome
      <4> QED  BY <1>1, <3>1, <3>2, <3>3, <4>1 DEF Rung, n
    <3>4. CASE item.modify_time = 0 /\ item.data # value
      <4>1. new.modify_time > 0 /\ w.status = "modified" /\ n + 1 \in 1 .. n + 1
        BY <1>1, <2>2, <3>4 DEF Outcome
      <4> QED  BY <1>1, <4>1 DEF Rung
    <3>5. CASE item.modify_time # 0
      <4>1. PICK k \in 1 .. n : writes[k].status = "modified"
        BY <1>2, <2>2, <3>1, <3>5 DEF Rung, n
      <4>2. new.modify_time > 0
        BY <1>2, <2>2, <3>5 DEF Outcome
      <4>3. k \in 1 .. n + 1 /\ longer[k].status = "modified"
        BY <1>1, <4>1
      <4> QED  BY <1>1, <4>2, <4>3 DEF Rung
    <3> QED  BY <3>3, <3>4, <3>5
  <2> QED  BY <2>1, <2>2
<1>9. new.modify_time = Cardinality(Seen(longer))
  <2>1. CASE item = None
    <3>1. Seen(longer) = {}
      BY <1>1, <1>3, <2>1 DEF Seen
    <3> QED  BY <2>1, <3>1, FS_EmptySet DEF Outcome
  <2>2. CASE item # None
    <3>1. n >= 1 /\ item.modify_time = Cardinality(Seen(writes))
      BY <1>1, <1>3, <2>2 DEF Kept
    <3>2. Changes(w) <=> item.data # value
      BY <2>2 DEF Changes, Shown
    <3>3. \A i : i \in Seen(longer) <=>
                   i \in Seen(writes) \/ (i = n + 1 /\ Changes(w))
      BY <1>1, <3>1 DEF Seen, n
    <3>4. IsFiniteSet(Seen(writes)) /\ n + 1 \notin Seen(writes)
      BY <1>1, SeenIsFinite DEF Seen, n
    <3>5. CASE item.data = value
      <4>1. Seen(longer) = Seen(writes)
        BY <3>2, <3>3, <3>5
      <4> QED  BY <2>2, <3>1, <3>5, <4>1 DEF Outcome
    <3>6. CASE item.data # value
      <4>1. Seen(longer) = Seen(writes) \cup {n + 1}
        BY <3>2, <3>3, <3>6
      <4>2. Cardinality(Seen(longer)) = Cardinality(Seen(writes)) + 1
        BY <3>4, <4>1, FS_AddElement
      <4> QED  BY <2>2, <3>1, <3>6, <4>2 DEF Outcome
    <3> QED  BY <3>5, <3>6
  <2> QED  BY <2>1, <2>2
<1> QED  BY <1>1, <1>4, <1>5, <1>7, <1>8, <1>9 DEF Kept, longer
-----------------------------------------------------------------------------
(* The inductive invariant: every item agrees with the writes it has had.  *)

ItemsKept == \A a \in Address, k \in Key : Kept(Item(host, a, k), history[a][k])

IInv == TypeOK /\ ItemsKept

LEMMA Initially == Init => IInv
<1> SUFFICES ASSUME Init  PROVE IInv
  OBVIOUS
<1>1. PICK c \in Address : host = TestHostContext_new(0, c)
  BY DEF Init
<1>2. host \in TestHostContext /\ \A a \in Address : host.accounts[a] = None
  BY <1>1, ValuesAssumption DEF TestHostContext_new, TestHostContext
<1>3. history = [a \in Address |-> [k \in Key |-> << >>]]
  BY DEF Init
<1>4. original \in [Address -> [Key -> Word]]
  BY <1>2, ShowsType DEF Init
<1>5. TypeOK
  BY <1>2, <1>3, <1>4 DEF TypeOK
<1>6. ASSUME NEW a \in Address, NEW k \in Key
      PROVE  Kept(Item(host, a, k), history[a][k])
  <2>1. Item(host, a, k) = None
    BY <1>2 DEF Item, entry, AccountData_new
  <2>2. history[a][k] = << >>
    BY <1>3
  <2> QED  BY <2>1, <2>2 DEF Kept
<1> QED  BY <1>5, <1>6 DEF IInv, ItemsKept

LEMMA WriteStep ==
  ASSUME IInv, NEW a \in Address, NEW key \in Key, NEW value \in Word,
         SetStorage(a, key, value)
  PROVE  IInv'
<1> DEFINE w == [start  |-> original[a][key],
                 old    |-> get_storage(host, a, key),
                 new    |-> get_storage(host', a, key),
                 status |-> storage_status(host, a, key, value)]
           old == Item(host, a, key)
<1> USE DEF IInv
<1>1. host \in TestHostContext /\ history \in [Address -> [Key -> Seq(Write)]]
  BY DEF TypeOK
<1>2. host' = set_storage(host, a, key, value) /\ host' \in TestHostContext
  BY <1>1, SetStorageType DEF SetStorage
<1>3. Outcome(old, Written(old, value), value, w.status)
  BY <1>1, OneWrite
<1>4. Item(host', a, key) = Written(old, value)
  BY <1>1, <1>2, ItemsWritten
<1>5. w.old = Shown(old) /\ w.old \in Word
  BY <1>1, ItemType, ValuesAssumption DEF Shown, Value
<1>6. w.new = value
  <2>1. get_storage(host', a, key) = Shown(Item(host', a, key))
    BY <1>2, ItemType
  <2> QED  BY <1>3, <1>4, <2>1 DEF Outcome, Shown
<1>7. w \in Write
  BY <1>3, <1>5, <1>6 DEF Write, Outcome, TypeOK
<1>8. /\ history' = [history EXCEPT ![a] = [history[a] EXCEPT ![key] = Append(@, w)]]
      /\ original' = original
  BY <1>1 DEF SetStorage
<1> HIDE DEF w, old
<1>9. /\ Append(history[a][key], w) \in Seq(Write)
      /\ \A b \in Address, k \in Key :
           history'[b][k] = IF b = a /\ k = key THEN Append(history[a][key], w)
                                                ELSE history[b][k]
  BY <1>1, <1>7, <1>8
<1>10. TypeOK'
  BY <1>1, <1>2, <1>7, <1>8, <1>9 DEF TypeOK
<1>11. ASSUME NEW b \in Address, NEW k \in Key
       PROVE  Kept(Item(host', b, k), history'[b][k])
  <2>1. Kept(Item(host, b, k), history[b][k])
    BY DEF ItemsKept
  <2>2. CASE b = a /\ k = key
    <3>1. old \in Value \cup {None} /\ Kept(old, history[a][key])
      BY <1>1, <2>1, <2>2, ItemType DEF old
    <3>2. history[a][key] \in Seq(Write)
      BY <1>1
    <3>3. Kept(Written(old, value), Append(history[a][key], w))
      BY <1>3, <1>5, <1>6, <1>7, <3>1, <3>2, WriteKeeps
    <3> QED  BY <1>4, <1>9, <2>2, <3>3
  <2>3. CASE ~(b = a /\ k = key)
    <3>1. Item(host', b, k) = Item(host, b, k)
      BY <1>1, <1>2, <2>3, ItemsWritten
    <3> QED  BY <1>9, <2>1, <2>3, <3>1
  <2> QED  BY <2>2, <2>3
<1> QED  BY <1>10, <1>11 DEF ItemsKept

LEMMA Invariance == Spec => []IInv
<1>1. Init => IInv
  BY Initially
<1>2. IInv /\ [Next]_vars => IInv'
  <2> SUFFICES ASSUME IInv, [Next]_vars  PROVE IInv'
    OBVIOUS
  <2>1. ASSUME NEW a \in Address, NEW key \in Key, NEW value \in Word,
               SetStorage(a, key, value)
        PROVE  IInv'
    BY <2>1, WriteStep
  <2>2. CASE NextTransaction
    BY <2>2, ShowsType DEF NextTransaction, IInv, TypeOK, ItemsKept, Item
  <2>3. CASE Exhausted
    BY <2>3 DEF Exhausted, vars, IInv, TypeOK, ItemsKept, Item
  <2>4. CASE UNCHANGED vars
    BY <2>4 DEF vars, IInv, TypeOK, ItemsKept, Item
  <2> QED  BY <2>1, <2>2, <2>3, <2>4 DEF Next
<1> QED  BY <1>1, <1>2, PTL DEF Spec

(* An item's history is a sequence, whose places the properties name.      *)
LEMMA Places ==
  ASSUME IInv, NEW a \in Address, NEW k \in Key
  PROVE  DOMAIN history[a][k] = 1 .. Len(history[a][k])
BY DEF IInv, TypeOK

(* The context, the values items held at the beginning and the histories   *)
(* are well formed, for items, values and writes of any number.            *)
THEOREM TypeCorrect == Spec => []TypeOK
BY Invariance, PTL DEF IInv

(* set_storage reports a modification only of a change that can be seen,   *)
(* and the absence of one never; "added" is right whenever the value has   *)
(* changed, and is reported of some writes that change nothing as well.    *)
THEOREM StatusTellsChangeHolds == Spec => []StatusTellsChange
<1>1. IInv => StatusTellsChange
  <2> SUFFICES ASSUME IInv, NEW a \in Address, NEW k \in Key,
                      NEW i \in DOMAIN history[a][k]
               PROVE  Right(history[a][k][i], i)
    BY DEF StatusTellsChange, Right
  <2> QED  BY Places DEF IInv, ItemsKept, Kept
<1> QED  BY <1>1, Invariance, PTL

(* Over the life of an item the statuses only climb: added, modified once, *)
(* modified again, in any number of transactions.                          *)
THEOREM LadderHolds == Spec => []Ladder
<1>1. IInv => Ladder
  <2> SUFFICES ASSUME IInv, NEW a \in Address, NEW k \in Key,
                      NEW i \in DOMAIN history[a][k], NEW j \in DOMAIN history[a][k]
               PROVE  Climbs(history[a][k], i, j)
    BY DEF Ladder, Climbs
  <2> QED  BY Places DEF IInv, ItemsKept, Kept
<1> QED  BY <1>1, Invariance, PTL

(* modify_time is the number of changes that could be seen after the write *)
(* that made the item.                                                     *)
THEOREM TimeCountsChangesHolds == Spec => []TimeCountsChanges
<1>1. IInv => TimeCountsChanges
  BY DEF IInv, ItemsKept, Kept, TimeCountsChanges, Item, Seen
<1> QED  BY <1>1, Invariance, PTL
=============================================================================
