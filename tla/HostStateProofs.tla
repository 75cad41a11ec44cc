--------------------------- MODULE HostStateProofs ---------------------------
(***************************************************************************)
(* Lemmas about the operations on a TestHostContext: each returns a        *)
(* context, keeps everything the context held (Extends), and changes of    *)
(* what the callbacks show exactly what it should.                         *)
(***************************************************************************)
EXTENDS HostState, SequenceTheorems, TLAPS

-----------------------------------------------------------------------------
(* Prefixes of sequences, element by element.                              *)

LEMMA PrefixElements ==
  ASSUME NEW S, NEW s \in Seq(S), NEW t \in Seq(S)
  PROVE  IsPrefix(s, t) <=>
           Len(s) <= Len(t) /\ \A i \in 1 .. Len(s) : s[i] = t[i]
<1>1. /\ Len(s) \in Nat /\ Len(t) \in Nat
      /\ \A i \in 1 .. Len(s) : s[i] \in S
      /\ \A i \in 1 .. Len(t) : t[i] \in S
  BY LenProperties, ElementOfSeq
<1>2. SUFFICES ASSUME Len(s) <= Len(t)
               PROVE  SubSeq(s, 1, Len(s)) = SubSeq(t, 1, Len(s)) <=>
                        \A i \in 1 .. Len(s) : s[i] = t[i]
  BY DEF IsPrefix
<1>3. /\ SubSeq(s, 1, Len(s)) \in Seq(S)
      /\ Len(SubSeq(s, 1, Len(s))) = Len(s)
      /\ \A i \in 1 .. Len(s) : SubSeq(s, 1, Len(s))[i] = s[i]
  <2>1. /\ SubSeq(s, 1, Len(s)) \in Seq(S)
        /\ Len(SubSeq(s, 1, Len(s))) = IF 1 <= Len(s) THEN Len(s) - 1 + 1 ELSE 0
        /\ \A i \in 1 .. Len(s) - 1 + 1 : SubSeq(s, 1, Len(s))[i] = s[1 + i - 1]
    BY <1>1, SubSeqProperties
  <2> QED  BY <1>1, <2>1
<1>4. /\ SubSeq(t, 1, Len(s)) \in Seq(S)
      /\ Len(SubSeq(t, 1, Len(s))) = Len(s)
      /\ \A i \in 1 .. Len(s) : SubSeq(t, 1, Len(s))[i] = t[i]
  <2>1. \A i \in 1 .. Len(s) : t[i] \in S
    BY <1>1, <1>2
  <2>2. /\ SubSeq(t, 1, Len(s)) \in Seq(S)
        /\ Len(SubSeq(t, 1, Len(s))) = IF 1 <= Len(s) THEN Len(s) - 1 + 1 ELSE 0
        /\ \A i \in 1 .. Len(s) - 1 + 1 : SubSeq(t, 1, Len(s))[i] = t[1 + i - 1]
    BY <1>1, <2>1, SubSeqProperties
  <2> QED  BY <1>1, <2>2
<1>5. CASE \A i \in 1 .. Len(s) : s[i] = t[i]
  <2>1. \A i \in 1 .. Len(s) : SubSeq(s, 1, Len(s))[i] = SubSeq(t, 1, Len(s))[i]
    BY <1>3, <1>4, <1>5
  <2>2. SubSeq(s, 1, Len(s)) = SubSeq(t, 1, Len(s))
    BY <1>3, <1>4, <2>1, SeqEqual
  <2> QED  BY <1>5, <2>2
<1>6. CASE SubSeq(s, 1, Len(s)) = SubSeq(t, 1, Len(s))
  BY <1>3, <1>4, <1>6
<1> QED  BY <1>5, <1>6

LEMMA PrefixReflexive ==
  ASSUME NEW S, NEW s \in Seq(S)
  PROVE  IsPrefix(s, s)
BY LenProperties DEF IsPrefix

LEMMA PrefixTransitive ==
  ASSUME NEW S, NEW s \in Seq(S), NEW t \in Seq(S), NEW u \in Seq(S),
         IsPrefix(s, t), IsPrefix(t, u)
  PROVE  IsPrefix(s, u)
<1>1. /\ Len(s) \in Nat /\ Len(t) \in Nat /\ Len(u) \in Nat
      /\ Len(s) <= Len(t) /\ \A i \in 1 .. Len(s) : s[i] = t[i]
      /\ Len(t) <= Len(u) /\ \A i \in 1 .. Len(t) : t[i] = u[i]
  BY PrefixElements, LenProperties
<1>2. Len(s) <= Len(u) /\ \A i \in 1 .. Len(s) : s[i] = u[i]
  BY <1>1
<1> QED  BY <1>2, PrefixElements

LEMMA PrefixAppend ==
  ASSUME NEW S, NEW s \in Seq(S), NEW e \in S
  PROVE  Append(s, e) \in Seq(S) /\ IsPrefix(s, Append(s, e))
<1>1. /\ Append(s, e) \in Seq(S) /\ Len(s) \in Nat
      /\ Len(Append(s, e)) = Len(s) + 1
      /\ \A i \in 1 .. Len(s) : Append(s, e)[i] = s[i]
  BY AppendProperties, LenProperties
<1>2. Len(s) <= Len(Append(s, e)) /\ \A i \in 1 .. Len(s) : s[i] = Append(s, e)[i]
  BY <1>1
<1> QED  BY <1>1, <1>2, PrefixElements

-----------------------------------------------------------------------------
(* Types.                                                                  *)

LEMMA AccountDataNewType == AccountData_new \in AccountData
BY ValuesAssumption, EmptySeq DEF AccountData_new, AccountData

LEMMA EntryType ==
  ASSUME NEW ctx \in TestHostContext, NEW a \in Address
  PROVE  entry(ctx.accounts, a) \in AccountData
BY AccountDataNewType DEF TestHostContext, entry

(* Every writer but selfdestruct replaces one account.                     *)
LEMMA AccountReplacedType ==
  ASSUME NEW ctx \in TestHostContext, NEW a \in Address, NEW account \in AccountData
  PROVE  [ctx EXCEPT !.accounts[a] = account] \in TestHostContext
BY DEF TestHostContext

LEMMA UpdateCodeType ==
  ASSUME NEW ctx \in TestHostContext, NEW a \in Address, NEW code \in Code
  PROVE  /\ [entry(ctx.accounts, a) EXCEPT !.code = code] \in AccountData
         /\ update_code(ctx, a, code) \in TestHostContext
<1>1. [entry(ctx.accounts, a) EXCEPT !.code = code] \in AccountData
  BY EntryType DEF AccountData
<1> QED  BY <1>1, AccountReplacedType DEF update_code

LEMMA SlotType ==
  ASSUME NEW ctx \in TestHostContext, NEW a \in Address,
         NEW key \in Key, NEW value \in Word
  PROVE  /\ slot(ctx.accounts, a, key, value) \in Value
         /\ update_data(slot(ctx.accounts, a, key, value), value) \in Value
<1>1. slot(ctx.accounts, a, key, value) \in Value
  BY EntryType DEF AccountData, slot, Value_new, Value
<1> QED  BY <1>1 DEF update_data, Value

LEMMA SetStorageType ==
  ASSUME NEW ctx \in TestHostContext, NEW a \in Address,
         NEW key \in Key, NEW value \in Word
  PROVE  set_storage(ctx, a, key, value) \in TestHostContext
<1> DEFINE new == update_data(slot(ctx.accounts, a, key, value), value)
           account == [entry(ctx.accounts, a) EXCEPT !.storage[key] = new]
<1>1. new \in Value
  BY SlotType
<1>2. account \in AccountData
  BY <1>1, EntryType DEF AccountData
<1> QED  BY <1>2, AccountReplacedType DEF set_storage

LEMMA EmitLogType ==
  ASSUME NEW ctx \in TestHostContext, NEW a \in Address, NEW e \in Entry
  PROVE  emit_log(ctx, a, e) \in TestHostContext
<1> DEFINE account == [entry(ctx.accounts, a) EXCEPT !.logs = Append(@, e)]
<1>1. account \in AccountData
  BY EntryType, PrefixAppend DEF AccountData
<1> QED  BY <1>1, AccountReplacedType DEF emit_log

LEMMA SelfDestructType ==
  ASSUME NEW ctx \in TestHostContext, NEW a \in Address
  PROVE  selfdestruct(ctx, a) \in TestHostContext
BY PrefixAppend DEF selfdestruct, TestHostContext

LEMMA UpdateType ==
  ASSUME NEW self \in TestHostContext, NEW other \in TestHostContext
  PROVE  update(self, other) \in TestHostContext
BY DEF update, TestHostContext

-----------------------------------------------------------------------------
(* The match at the end of set_storage never reaches its panic: a slot     *)
(* that is inserted already holds the value it is about to be given.       *)

LEMMA SetStorageNeverPanics ==
  ASSUME NEW ctx \in TestHostContext, NEW a \in Address,
         NEW key \in Key, NEW value \in Word
  PROVE  storage_status(ctx, a, key, value) # "invalid"
<1> DEFINE old     == slot(ctx.accounts, a, key, value)
           changed == value # old.data
           time    == update_data(old, value).modify_time
<1>1. /\ old.modify_time \in Nat
      /\ time = IF changed THEN old.modify_time + 1 ELSE old.modify_time
  BY SlotType DEF update_data, Value
<1> HIDE DEF old
<1>2. CASE ~changed
  <2>1. time \in Nat
    BY <1>1, <1>2
  <2>2. storage_status(ctx, a, key, value) =
          CASE time = 0 -> "added" [] time > 0 -> "unchanged"
    BY <1>2, <2>1 DEF storage_status, old
  <2> QED  BY <2>1, <2>2
<1>3. CASE changed
  <2>1. time \in Nat /\ time > 0
    BY <1>1, <1>3
  <2>2. storage_status(ctx, a, key, value) =
          CASE time = 1 -> "modified" [] time > 1 -> "modified_again"
    BY <1>3, <2>1 DEF storage_status, old
  <2> QED  BY <2>1, <2>2
<1> QED  BY <1>2, <1>3

-----------------------------------------------------------------------------
(* Extends is a preorder.                                                  *)

LEMMA AccountExtendsReflexive ==
  ASSUME NEW account \in AccountData
  PROVE  AccountExtends(account, account)
<1>1. IsPrefix(account.logs, account.logs)
  BY PrefixReflexive DEF AccountData
<1>2. \A k \in Key : account.storage[k] # None =>
        ValueExtends(account.storage[k], account.storage[k])
  BY DEF AccountData, Value, ValueExtends
<1> QED  BY <1>1, <1>2 DEF AccountExtends

LEMMA ExtendsReflexive ==
  ASSUME NEW ctx \in TestHostContext
  PROVE  Extends(ctx, ctx)
<1>1. IsPrefix(ctx.destructed_accounts, ctx.destructed_accounts)
  BY PrefixReflexive DEF TestHostContext
<1>2. \A a \in Address : ctx.accounts[a] # None => ctx.accounts[a] \in AccountData
  BY DEF TestHostContext
<1> QED  BY <1>1, <1>2, AccountExtendsReflexive DEF Extends

LEMMA ValueExtendsTransitive ==
  ASSUME NEW x \in Value, NEW y \in Value, NEW z \in Value,
         ValueExtends(y, x), ValueExtends(z, y)
  PROVE  ValueExtends(z, x)
BY DEF Value, ValueExtends

LEMMA AccountExtendsTransitive ==
  ASSUME NEW x \in AccountData, NEW y \in AccountData, NEW z \in AccountData,
         AccountExtends(y, x), AccountExtends(z, y)
  PROVE  AccountExtends(z, x)
<1>1. x.code # None => z.code # None
  BY DEF AccountExtends
<1>2. IsPrefix(x.logs, z.logs)
  BY PrefixTransitive DEF AccountExtends, AccountData
<1>3. ASSUME NEW k \in Key, x.storage[k] # None
      PROVE  z.storage[k] # None /\ ValueExtends(z.storage[k], x.storage[k])
  <2>1. /\ y.storage[k] # None /\ ValueExtends(y.storage[k], x.storage[k])
        /\ z.storage[k] # None /\ ValueExtends(z.storage[k], y.storage[k])
    BY <1>3 DEF AccountExtends
  <2>2. x.storage[k] \in Value /\ y.storage[k] \in Value /\ z.storage[k] \in Value
    BY <1>3, <2>1 DEF AccountData
  <2> QED  BY <2>1, <2>2, ValueExtendsTransitive
<1> QED  BY <1>1, <1>2, <1>3 DEF AccountExtends

LEMMA ExtendsTransitive ==
  ASSUME NEW x \in TestHostContext, NEW y \in TestHostContext,
         NEW z \in TestHostContext, Extends(y, x), Extends(z, y)
  PROVE  Extends(z, x)
<1>1. IsPrefix(x.destructed_accounts, z.destructed_accounts)
  BY PrefixTransitive DEF Extends, TestHostContext
<1>2. ASSUME NEW a \in Address, x.accounts[a] # None
      PROVE  z.accounts[a] # None /\ AccountExtends(z.accounts[a], x.accounts[a])
  <2>1. /\ y.accounts[a] # None /\ AccountExtends(y.accounts[a], x.accounts[a])
        /\ z.accounts[a] # None /\ AccountExtends(z.accounts[a], y.accounts[a])
    BY <1>2 DEF Extends
  <2>2. /\ x.accounts[a] \in AccountData
        /\ y.accounts[a] \in AccountData
        /\ z.accounts[a] \in AccountData
    BY <1>2, <2>1 DEF TestHostContext
  <2> QED  BY <2>1, <2>2, AccountExtendsTransitive
<1> QED  BY <1>1, <1>2 DEF Extends

-----------------------------------------------------------------------------
(* Every operation extends the context it works on.                        *)

LEMMA AccountReplacedExtends ==
  ASSUME NEW ctx \in TestHostContext, NEW a \in Address, NEW account \in AccountData,
         AccountExtends(account, entry(ctx.accounts, a))
  PROVE  Extends([ctx EXCEPT !.accounts[a] = account], ctx)
<1> DEFINE new == [ctx EXCEPT !.accounts[a] = account]
<1>1. IsPrefix(ctx.destructed_accounts, new.destructed_accounts)
  BY PrefixReflexive DEF TestHostContext
<1>2. ASSUME NEW b \in Address, ctx.accounts[b] # None
      PROVE  new.accounts[b] # None /\ AccountExtends(new.accounts[b], ctx.accounts[b])
  <2>1. CASE b = a
    <3>1. new.accounts[b] = account
      BY <2>1 DEF TestHostContext
    <3>2. entry(ctx.accounts, a) = ctx.accounts[b]
      BY <1>2, <2>1 DEF entry
    <3> QED  BY <3>1, <3>2, NoneAssumption
  <2>2. CASE b # a
    <3>1. new.accounts[b] = ctx.accounts[b] /\ ctx.accounts[b] \in AccountData
      BY <1>2, <2>2 DEF TestHostContext
    <3> QED  BY <1>2, <3>1, AccountExtendsReflexive
  <2> QED  BY <2>1, <2>2
<1> QED  BY <1>1, <1>2 DEF Extends

LEMMA UpdateCodeExtends ==
  ASSUME NEW ctx \in TestHostContext, NEW a \in Address, NEW code \in Code
  PROVE  Extends(update_code(ctx, a, code), ctx)
<1> DEFINE old == entry(ctx.accounts, a)
           new == [old EXCEPT !.code = code]
<1>1. old \in AccountData /\ new \in AccountData
  BY EntryType, UpdateCodeType
<1>2. new.code = code /\ new.logs = old.logs /\ new.storage = old.storage
  BY <1>1 DEF AccountData
<1>3. AccountExtends(new, old)
  <2>1. AccountExtends(old, old)
    BY <1>1, AccountExtendsReflexive
  <2> QED  BY <1>2, <2>1, NoneAssumption DEF AccountExtends
<1> QED  BY <1>1, <1>3, AccountReplacedExtends DEF update_code

LEMMA SetStorageExtends ==
  ASSUME NEW ctx \in TestHostContext, NEW a \in Address,
         NEW key \in Key, NEW value \in Word
  PROVE  Extends(set_storage(ctx, a, key, value), ctx)
<1> DEFINE old  == entry(ctx.accounts, a)
           item == update_data(slot(ctx.accounts, a, key, value), value)
           new  == [old EXCEPT !.storage[key] = item]
<1>1. old \in AccountData /\ item \in Value
  BY EntryType, SlotType
<1>2. new \in AccountData
  BY <1>1 DEF AccountData
<1>3. /\ new.code = old.code /\ new.logs = old.logs
      /\ new.storage = [old.storage EXCEPT ![key] = item]
  BY <1>1 DEF AccountData
<1>4. AccountExtends(new, old)
  <2>1. AccountExtends(old, old)
    BY <1>1, AccountExtendsReflexive
  <2>2. ASSUME NEW k \in Key, old.storage[k] # None
        PROVE  new.storage[k] # None /\ ValueExtends(new.storage[k], old.storage[k])
    <3>1. CASE k = key
      <4>1. new.storage[k] = item /\ slot(ctx.accounts, a, key, value) = old.storage[k]
        BY <1>1, <1>3, <2>2, <3>1 DEF AccountData, slot
      <4>2. ValueExtends(item, slot(ctx.accounts, a, key, value))
        BY SlotType DEF ValueExtends, update_data, Value
      <4> QED  BY <1>1, <4>1, <4>2, NoneAssumption
    <3>2. CASE k # key
      <4>1. new.storage[k] = old.storage[k]
        BY <1>1, <1>3, <3>2 DEF AccountData
      <4> QED  BY <2>1, <2>2, <4>1 DEF AccountExtends
    <3> QED  BY <3>1, <3>2
  <2> QED  BY <1>3, <2>1, <2>2 DEF AccountExtends
<1> QED  BY <1>2, <1>4, AccountReplacedExtends DEF set_storage

LEMMA EmitLogExtends ==
  ASSUME NEW ctx \in TestHostContext, NEW a \in Address, NEW e \in Entry
  PROVE  Extends(emit_log(ctx, a, e), ctx)
<1> DEFINE old == entry(ctx.accounts, a)
           new == [old EXCEPT !.logs = Append(@, e)]
<1>1. old \in AccountData
  BY EntryType
<1>2. Append(old.logs, e) \in Seq(Entry) /\ IsPrefix(old.logs, Append(old.logs, e))
  BY <1>1, PrefixAppend DEF AccountData
<1>3. /\ new \in AccountData
      /\ new.code = old.code /\ new.storage = old.storage
      /\ new.logs = Append(old.logs, e)
  BY <1>1, <1>2 DEF AccountData
<1>4. AccountExtends(new, old)
  <2>1. AccountExtends(old, old)
    BY <1>1, AccountExtendsReflexive
  <2> QED  BY <1>2, <1>3, <2>1 DEF AccountExtends
<1> QED  BY <1>3, <1>4, AccountReplacedExtends DEF emit_log

LEMMA SelfDestructExtends ==
  ASSUME NEW ctx \in TestHostContext, NEW a \in Address
  PROVE  Extends(selfdestruct(ctx, a), ctx)
<1>1. /\ selfdestruct(ctx, a).accounts = ctx.accounts
      /\ selfdestruct(ctx, a).destructed_accounts = Append(ctx.destructed_accounts, a)
  BY DEF selfdestruct, TestHostContext
<1>2. IsPrefix(ctx.destructed_accounts, Append(ctx.destructed_accounts, a))
  BY PrefixAppend DEF TestHostContext
<1>3. Extends(ctx, ctx)
  BY ExtendsReflexive
<1> QED  BY <1>1, <1>2, <1>3 DEF Extends

-----------------------------------------------------------------------------
(* What the callbacks show before and after each operation.                *)

(* The value a callback reads from an account's storage item.              *)
ItemOf(account, k) ==
  IF account.storage[k] = None THEN ZeroWord ELSE account.storage[k].data

ItemsOf(account) == [k \in Key |-> ItemOf(account, k)]

LEMMA StorageOfAccount ==
  ASSUME NEW ctx
  PROVE  StorageOf(ctx) = [a \in Address |-> ItemsOf(entry(ctx.accounts, a))]
<1>1. ASSUME NEW a \in Address, NEW k \in Key
      PROVE  get_storage(ctx, a, k) = ItemOf(entry(ctx.accounts, a), k)
  <2>1. CASE ctx.accounts[a] = None
    BY <2>1 DEF get_storage, entry, AccountData_new, ItemOf
  <2>2. CASE ctx.accounts[a] # None
    BY <2>2 DEF get_storage, entry, ItemOf
  <2> QED  BY <2>1, <2>2
<1> QED  BY <1>1 DEF StorageOf, ItemsOf

(* The callbacks show of two contexts the same if they show of every       *)
(* account the same.                                                       *)
LEMMA AccountReplacedShows ==
  ASSUME NEW ctx \in TestHostContext, NEW a \in Address, NEW account \in AccountData,
         NEW new, new = [ctx EXCEPT !.accounts[a] = account]
  PROVE  /\ StorageOf(new) = [StorageOf(ctx) EXCEPT ![a] = ItemsOf(account)]
         /\ CodeOf(new)    = [CodeOf(ctx)    EXCEPT ![a] = account.code]
         /\ LogsOf(new)    = [LogsOf(ctx)    EXCEPT ![a] = account.logs]
         /\ new.destructed_accounts = ctx.destructed_accounts
<1>1. /\ new.accounts = [ctx.accounts EXCEPT ![a] = account]
      /\ new.accounts[a] = account
      /\ new.destructed_accounts = ctx.destructed_accounts
  BY DEF TestHostContext
<1>2. \A b \in Address : entry(new.accounts, b) =
                           IF b = a THEN account ELSE entry(ctx.accounts, b)
  BY <1>1, NoneAssumption DEF entry, TestHostContext
<1>3. StorageOf(new) = [StorageOf(ctx) EXCEPT ![a] = ItemsOf(account)]
  <2>1. /\ StorageOf(new) = [b \in Address |-> ItemsOf(entry(new.accounts, b))]
        /\ StorageOf(ctx) = [b \in Address |-> ItemsOf(entry(ctx.accounts, b))]
    BY StorageOfAccount
  <2> QED  BY <1>2, <2>1
<1>4. CodeOf(new) = [CodeOf(ctx) EXCEPT ![a] = account.code]
  <2> DEFINE before(b) == entry(ctx.accounts, b).code
             after(b)  == entry(new.accounts, b).code
  <2>1. \A b \in Address : after(b) = IF b = a THEN account.code ELSE before(b)
    BY <1>2
  <2>2. /\ CodeOf(new) = [b \in Address |-> after(b)]
        /\ CodeOf(ctx) = [b \in Address |-> before(b)]
    BY DEF CodeOf
  <2> HIDE DEF before, after
  <2> QED  BY <2>1, <2>2
<1>5. LogsOf(new) = [LogsOf(ctx) EXCEPT ![a] = account.logs]
  <2> DEFINE before(b) == entry(ctx.accounts, b).logs
             after(b)  == entry(new.accounts, b).logs
  <2>1. \A b \in Address : after(b) = IF b = a THEN account.logs ELSE before(b)
    BY <1>2
  <2>2. /\ LogsOf(new) = [b \in Address |-> after(b)]
        /\ LogsOf(ctx) = [b \in Address |-> before(b)]
    BY DEF LogsOf
  <2> HIDE DEF before, after
  <2> QED  BY <2>1, <2>2
<1> QED  BY <1>1, <1>3, <1>4, <1>5

LEMMA SetStorageShows ==
  ASSUME NEW ctx \in TestHostContext, NEW a \in Address,
         NEW key \in Key, NEW value \in Word
  PROVE  LET new == set_storage(ctx, a, key, value)
         IN  /\ StorageOf(new) = [StorageOf(ctx) EXCEPT ![a][key] = value]
             /\ CodeOf(new) = CodeOf(ctx)
             /\ LogsOf(new) = LogsOf(ctx)
             /\ new.destructed_accounts = ctx.destructed_accounts
<1> DEFINE old     == entry(ctx.accounts, a)
           item    == update_data(slot(ctx.accounts, a, key, value), value)
           account == [old EXCEPT !.storage[key] = item]
<1>1. old \in AccountData /\ item \in Value /\ item.data = value
  BY EntryType, SlotType DEF update_data, Value
<1>2. /\ account \in AccountData
      /\ account.code = old.code /\ account.logs = old.logs
      /\ account.storage = [old.storage EXCEPT ![key] = item]
  BY <1>1 DEF AccountData
<1>3. ItemsOf(account) = [ItemsOf(old) EXCEPT ![key] = value]
  <2>1. \A k \in Key : ItemOf(account, k) = IF k = key THEN value ELSE ItemOf(old, k)
    BY <1>1, <1>2, NoneAssumption DEF ItemOf, AccountData
  <2> QED  BY <2>1 DEF ItemsOf
<1>4. /\ StorageOf(ctx)[a] = ItemsOf(old)
      /\ CodeOf(ctx)[a] = old.code
      /\ LogsOf(ctx)[a] = old.logs
  BY StorageOfAccount DEF CodeOf, LogsOf
<1>5. set_storage(ctx, a, key, value) = [ctx EXCEPT !.accounts[a] = account]
  BY DEF set_storage
<1> DEFINE new == set_storage(ctx, a, key, value)
<1> HIDE DEF old, item, account, new
<1>6. /\ StorageOf(new) = [StorageOf(ctx) EXCEPT ![a] = ItemsOf(account)]
      /\ CodeOf(new)    = [CodeOf(ctx)    EXCEPT ![a] = account.code]
      /\ LogsOf(new)    = [LogsOf(ctx)    EXCEPT ![a] = account.logs]
      /\ new.destructed_accounts = ctx.destructed_accounts
  <2>1. new = [ctx EXCEPT !.accounts[a] = account] /\ account \in AccountData
    BY <1>2, <1>5 DEF new
  <2> QED  BY <2>1, AccountReplacedShows
<1>7. [CodeOf(ctx) EXCEPT ![a] = account.code] = CodeOf(ctx)
  BY <1>2, <1>4 DEF CodeOf
<1>8. [LogsOf(ctx) EXCEPT ![a] = account.logs] = LogsOf(ctx)
  BY <1>2, <1>4 DEF LogsOf
<1>9. [StorageOf(ctx) EXCEPT ![a] = ItemsOf(account)] =
        [StorageOf(ctx) EXCEPT ![a][key] = value]
  BY <1>3, <1>4
<1> QED  BY <1>6, <1>7, <1>8, <1>9 DEF new

LEMMA EmitLogShows ==
  ASSUME NEW ctx \in TestHostContext, NEW a \in Address, NEW e \in Entry
  PROVE  LET new == emit_log(ctx, a, e)
         IN  /\ StorageOf(new) = StorageOf(ctx)
             /\ CodeOf(new) = CodeOf(ctx)
             /\ LogsOf(new) = [LogsOf(ctx) EXCEPT ![a] = Append(@, e)]
             /\ new.destructed_accounts = ctx.destructed_accounts
<1> DEFINE old     == entry(ctx.accounts, a)
           account == [old EXCEPT !.logs = Append(@, e)]
<1>1. old \in AccountData
  BY EntryType
<1>2. /\ account \in AccountData
      /\ account.code = old.code /\ account.storage = old.storage
      /\ account.logs = Append(old.logs, e)
  BY <1>1, PrefixAppend DEF AccountData
<1>3. emit_log(ctx, a, e) = [ctx EXCEPT !.accounts[a] = account]
  BY DEF emit_log
<1>4. /\ StorageOf(ctx)[a] = ItemsOf(old)
      /\ CodeOf(ctx)[a] = old.code
      /\ LogsOf(ctx)[a] = old.logs
  BY StorageOfAccount DEF CodeOf, LogsOf
<1> DEFINE new == emit_log(ctx, a, e)
<1> HIDE DEF old, account, new
<1>5. /\ StorageOf(new) = [StorageOf(ctx) EXCEPT ![a] = ItemsOf(account)]
      /\ CodeOf(new)    = [CodeOf(ctx)    EXCEPT ![a] = account.code]
      /\ LogsOf(new)    = [LogsOf(ctx)    EXCEPT ![a] = account.logs]
      /\ new.destructed_accounts = ctx.destructed_accounts
  <2>1. new = [ctx EXCEPT !.accounts[a] = account] /\ account \in AccountData
    BY <1>2, <1>3 DEF new
  <2> QED  BY <2>1, AccountReplacedShows
<1>6. ItemsOf(account) = ItemsOf(old)
  BY <1>2 DEF ItemsOf, ItemOf
<1>7. [StorageOf(ctx) EXCEPT ![a] = ItemsOf(account)] = StorageOf(ctx)
  BY <1>4, <1>6 DEF StorageOf
<1>8. [CodeOf(ctx) EXCEPT ![a] = account.code] = CodeOf(ctx)
  BY <1>2, <1>4 DEF CodeOf
<1>9. [LogsOf(ctx) EXCEPT ![a] = account.logs] =
        [LogsOf(ctx) EXCEPT ![a] = Append(@, e)]
  BY <1>2, <1>4
<1> QED  BY <1>5, <1>7, <1>8, <1>9 DEF new

LEMMA UpdateCodeShows ==
  ASSUME NEW ctx \in TestHostContext, NEW a \in Address, NEW code \in Code
  PROVE  LET new == update_code(ctx, a, code)
         IN  /\ StorageOf(new) = StorageOf(ctx)
             /\ CodeOf(new) = [CodeOf(ctx) EXCEPT ![a] = code]
             /\ LogsOf(new) = LogsOf(ctx)
             /\ new.destructed_accounts = ctx.destructed_accounts
<1> DEFINE old     == entry(ctx.accounts, a)
           account == [old EXCEPT !.code = code]
<1>1. old \in AccountData
  BY EntryType
<1>2. /\ account \in AccountData
      /\ account.code = code /\ account.storage = old.storage
      /\ account.logs = old.logs
  BY <1>1, UpdateCodeType DEF AccountData
<1>3. update_code(ctx, a, code) = [ctx EXCEPT !.accounts[a] = account]
  BY DEF update_code
<1>4. /\ StorageOf(ctx)[a] = ItemsOf(old)
      /\ LogsOf(ctx)[a] = old.logs
  BY StorageOfAccount DEF LogsOf
<1> DEFINE new == update_code(ctx, a, code)
<1> HIDE DEF old, account, new
<1>5. /\ StorageOf(new) = [StorageOf(ctx) EXCEPT ![a] = ItemsOf(account)]
      /\ CodeOf(new)    = [CodeOf(ctx)    EXCEPT ![a] = account.code]
      /\ LogsOf(new)    = [LogsOf(ctx)    EXCEPT ![a] = account.logs]
      /\ new.destructed_accounts = ctx.destructed_accounts
  <2>1. new = [ctx EXCEPT !.accounts[a] = account] /\ account \in AccountData
    BY <1>2, <1>3 DEF new
  <2> QED  BY <2>1, AccountReplacedShows
<1>6. ItemsOf(account) = ItemsOf(old)
  BY <1>2 DEF ItemsOf, ItemOf
<1>7. [StorageOf(ctx) EXCEPT ![a] = ItemsOf(account)] = StorageOf(ctx)
  BY <1>4, <1>6 DEF StorageOf
<1>8. [LogsOf(ctx) EXCEPT ![a] = account.logs] = LogsOf(ctx)
  BY <1>2, <1>4 DEF LogsOf
<1> QED  BY <1>2, <1>5, <1>7, <1>8 DEF new

LEMMA SelfDestructShows ==
  ASSUME NEW ctx \in TestHostContext, NEW a \in Address
  PROVE  LET new == selfdestruct(ctx, a)
         IN  /\ StorageOf(new) = StorageOf(ctx)
             /\ CodeOf(new) = CodeOf(ctx)
             /\ LogsOf(new) = LogsOf(ctx)
             /\ new.destructed_accounts = Append(ctx.destructed_accounts, a)
<1>1. /\ selfdestruct(ctx, a).accounts = ctx.accounts
      /\ selfdestruct(ctx, a).destructed_accounts = Append(ctx.destructed_accounts, a)
  BY DEF selfdestruct, TestHostContext
<1>2. StorageOf(selfdestruct(ctx, a)) = StorageOf(ctx)
  BY <1>1, StorageOfAccount
<1> QED  BY <1>1, <1>2 DEF CodeOf, LogsOf

(* What a context shows of any account has the type World expects.         *)
LEMMA ShowsType ==
  ASSUME NEW ctx \in TestHostContext
  PROVE  /\ StorageOf(ctx) \in [Address -> [Key -> Word]]
         /\ CodeOf(ctx) \in [Address -> Code \cup {None}]
         /\ LogsOf(ctx) \in [Address -> Seq(Entry)]
<1>1. \A a \in Address : entry(ctx.accounts, a) \in AccountData
  BY EntryType
<1>2. \A a \in Address : ItemsOf(entry(ctx.accounts, a)) \in [Key -> Word]
  BY <1>1, ValuesAssumption DEF AccountData, Value, ItemsOf, ItemOf
<1>3. StorageOf(ctx) \in [Address -> [Key -> Word]]
  BY <1>2, StorageOfAccount
<1>4. /\ CodeOf(ctx) \in [Address -> Code \cup {None}]
      /\ LogsOf(ctx) \in [Address -> Seq(Entry)]
  BY <1>1 DEF CodeOf, LogsOf, AccountData
<1> QED  BY <1>3, <1>4
=============================================================================
