---------------------- MODULE ModuleGlobalCache_proofs ----------------------
(***************************************************************************)
(* Proofs about the caches of module globals, for any number of modules,   *)
(* names and objects and any nesting of stores.                            *)
(***************************************************************************)
EXTENDS ModuleGlobalCache, TLAPS

\* The entry the running call is about to put into its slot: the one that may
\* be stale, as no user code runs before Finish.
Closing(c, n) == ~UserRuns /\ Last(calls).cache = c /\ Last(calls).name = n

\* Each live cache is told of changes of its module's dict, and of the builtins
\* dict unless a Drop has spoilt that.
LiveIsWatched ==
  /\ \A c \in Caches : c \in watched <=> c \in live
  /\ "drop" \notin seen /\ live # {} => Builtins \in watched

\* Only the last call can be one in which no user code runs.
OthersOpen == \A i \in DOMAIN calls : i < Len(calls) => calls[i].open

\* What an unfinished store will put into its slot is still in the dict.
StoresAreCurrent ==
  "reenter" \notin seen =>
    \A i \in DOMAIN calls :
      calls[i].value # Null => dict[calls[i].cache][calls[i].name] = calls[i].value

GlobalsFresh ==
  seen \cap {"rebind", "reenter"} = {} =>
    \A c \in live, n \in Names : Closing(c, n) \/ FreshFromModule(c, n)

BuiltinsFresh ==
  seen = {} =>
    \A c \in live, n \in Names : Closing(c, n) \/ FreshFromBuiltins(c, n)

IInv ==
  /\ TypeOK
  /\ LiveIsWatched
  /\ PendingIsConsumed
  /\ OthersOpen
  /\ StoresAreCurrent
  /\ GlobalsFresh
  /\ BuiltinsFresh

-----------------------------------------------------------------------------
\* A sequence with an element appended.
LEMMA AppendFacts ==
  ASSUME NEW S, NEW s \in Seq(S), NEW x \in S
  PROVE  /\ Append(s, x) \in Seq(S) /\ Append(s, x) # <<>>
         /\ Last(Append(s, x)) = x /\ Pop(Append(s, x)) = s
         /\ Len(Append(s, x)) = Len(s) + 1 /\ DOMAIN Append(s, x) = 1..Len(s) + 1
         /\ \A i \in DOMAIN s : i \in 1..Len(s) /\ Append(s, x)[i] = s[i]
<1>1. /\ Append(s, x) \in Seq(S) /\ Append(s, x) # <<>>
      /\ Len(Append(s, x)) = Len(s) + 1 /\ DOMAIN Append(s, x) = 1..Len(s) + 1
      /\ \A i \in DOMAIN s : i \in 1..Len(s) /\ Append(s, x)[i] = s[i]
  OBVIOUS
<1>2. Last(Append(s, x)) = x
  BY DEF Last
<1>3. Pop(Append(s, x)) = s
  BY <1>1 DEF Pop
<1>4. QED
  BY <1>1, <1>2, <1>3

\* A sequence without its last element.
LEMMA PopFacts ==
  ASSUME NEW S, NEW s \in Seq(S), s # <<>>
  PROVE  /\ Pop(s) \in Seq(S) /\ Last(s) \in S
         /\ Len(s) \in Nat /\ Len(s) > 0 /\ Len(Pop(s)) = Len(s) - 1
         /\ DOMAIN Pop(s) = 1..Len(s) - 1 /\ DOMAIN s = 1..Len(s)
         /\ \A i \in DOMAIN Pop(s) : Pop(s)[i] = s[i]
         /\ Last(s) = s[Len(s)]
<1>1. Len(s) \in Nat /\ Len(s) > 0 /\ DOMAIN s = 1..Len(s)
  OBVIOUS
<1>2. Last(s) \in S /\ Last(s) = s[Len(s)]
  BY <1>1 DEF Last
<1>3. Pop(s) \in Seq(S) /\ Len(Pop(s)) = Len(s) - 1 /\ DOMAIN Pop(s) = 1..Len(s) - 1
  BY <1>1 DEF Pop
<1>4. \A i \in DOMAIN Pop(s) : Pop(s)[i] = s[i]
  BY <1>1 DEF Pop
<1>5. QED
  BY <1>1, <1>2, <1>3, <1>4

Slots == [Caches -> [Names -> Values \cup {Null}]]
Lists == [Caches -> [Names -> Seq(Values \cup {Null})]]

\* A function of caches and names, changed in one place.
LEMMA PointChange ==
  ASSUME NEW T, NEW f \in [Caches -> [Names -> T]], NEW c \in Caches, NEW n \in Names,
         NEW x \in T
  PROVE  /\ [f EXCEPT ![c][n] = x] \in [Caches -> [Names -> T]]
         /\ [f EXCEPT ![c][n] = x][c][n] = x
         /\ \A d \in Caches, m \in Names :
              d # c \/ m # n => [f EXCEPT ![c][n] = x][d][m] = f[d][m]
OBVIOUS

\* A watched change of c's entry n to v touches only that name: with nothing
\* pending it updates the slot, with v last it is taken for the cache's own.
LEMMA NotifyFacts ==
  ASSUME NEW p \in Lists, NEW c \in Caches, NEW n \in Names, NEW v \in Values \cup {Null},
         slot \in Slots, Notify(p, c, n, v)
  PROVE  /\ pending' \in Lists /\ slot' \in Slots
         /\ \A d \in Caches, m \in Names :
              d # c \/ m # n => pending'[d][m] = p[d][m] /\ slot'[d][m] = slot[d][m]
         /\ c \in watched /\ p[c][n] = <<>> => pending' = p /\ slot'[c][n] = v
         /\ c \in watched /\ p[c][n] # <<>> /\ Last(p[c][n]) = v =>
              pending'[c][n] = Pop(p[c][n]) /\ slot' = slot
<1>1. p[c][n] \in Seq(Values \cup {Null})
  BY DEF Lists
<1>2. p[c][n] # <<>> => Pop(p[c][n]) \in Seq(Values \cup {Null})
  BY <1>1, PopFacts
<1>3. CASE c \in watched /\ Ignores(p, c, n, v)
  <2>1. pending' = [p EXCEPT ![c][n] = Pop(p[c][n])] /\ slot' = slot
    BY <1>3 DEF Notify
  <2>2. pending' \in Lists /\ pending'[c][n] = Pop(p[c][n])
    BY <1>2, <1>3, <2>1, PointChange DEF Ignores, Lists
  <2>3. \A d \in Caches, m \in Names : d # c \/ m # n => pending'[d][m] = p[d][m]
    BY <1>2, <1>3, <2>1, PointChange DEF Ignores, Lists
  <2>4. QED
    BY <1>3, <2>1, <2>2, <2>3 DEF Ignores
<1>4. CASE ~(c \in watched /\ Ignores(p, c, n, v))
  <2>1. pending' = p /\ (c \notin watched => slot' = slot)
        /\ (c \in watched => slot' = [slot EXCEPT ![c][n] = v])
    BY <1>4 DEF Notify
  <2>2. slot' \in Slots
    BY <2>1, PointChange DEF Slots
  <2>3. \A d \in Caches, m \in Names : d # c \/ m # n => slot'[d][m] = slot[d][m]
    BY <2>1, PointChange DEF Slots
  <2>4. c \in watched => slot'[c][n] = v
    BY <2>1, PointChange DEF Slots
  <2>5. QED
    BY <1>4, <2>1, <2>2, <2>3, <2>4 DEF Ignores
<1>5. QED
  BY <1>3, <1>4

\* Initially no cache is live, and every slot is empty.
LEMMA InitIInv == Init => IInv
BY DEF Init, IInv, TypeOK, LiveIsWatched, PendingIsConsumed, OthersOpen, StoresAreCurrent,
  GlobalsFresh, BuiltinsFresh

-----------------------------------------------------------------------------
\* A store of v announces itself and is not taken for a foreign write.
LEMMA OwnWrite ==
  ASSUME IInv, NEW c \in live, NEW n \in Names, NEW v \in Values \cup {Null},
         Notify([pending EXCEPT ![c][n] = Append(@, v)], c, n, v)
  PROVE  slot' = slot /\ pending' \in Lists
         /\ \A d \in Caches, m \in Names : pending'[d][m] = pending[d][m]
<1>. DEFINE p == [pending EXCEPT ![c][n] = Append(pending[c][n], v)]
<1>1. c \in Caches /\ c \in watched /\ slot \in Slots /\ pending \in Lists
  BY DEF IInv, TypeOK, LiveIsWatched, Slots, Lists
<1>2. pending[c][n] \in Seq(Values \cup {Null})
  BY <1>1 DEF Lists
<1>3. /\ Append(pending[c][n], v) \in Seq(Values \cup {Null})
      /\ Append(pending[c][n], v) # <<>>
      /\ Last(Append(pending[c][n], v)) = v
      /\ Pop(Append(pending[c][n], v)) = pending[c][n]
  BY <1>2, AppendFacts
<1>4. /\ p \in Lists /\ p[c][n] = Append(pending[c][n], v)
      /\ \A d \in Caches, m \in Names : d # c \/ m # n => p[d][m] = pending[d][m]
  BY <1>1, <1>3, PointChange DEF Lists
<1>5. Notify(p, c, n, v)
  OBVIOUS
<1>. HIDE DEF p
<1>6. p[c][n] # <<>> /\ Last(p[c][n]) = v /\ Pop(p[c][n]) = pending[c][n]
  BY <1>3, <1>4
<1>7. pending' = [p EXCEPT ![c][n] = Pop(p[c][n])] /\ slot' = slot
  BY <1>1, <1>5, <1>6 DEF Notify, Ignores
<1>8. /\ pending' \in Lists /\ pending'[c][n] = pending[c][n]
      /\ \A d \in Caches, m \in Names : d # c \/ m # n => pending'[d][m] = p[d][m]
  BY <1>1, <1>2, <1>4, <1>6, <1>7, PointChange DEF Lists
<1>9. QED
  BY <1>4, <1>7, <1>8

\* Anybody else's write of v reaches the slot, if nothing is pending.
LEMMA ForeignWrite ==
  ASSUME IInv, NEW c \in Caches, NEW n \in Names, NEW v \in Values \cup {Null},
         Notify(pending, c, n, v)
  PROVE  /\ slot' \in Slots /\ pending' \in Lists
         /\ \A d \in Caches, m \in Names : d # c \/ m # n => slot'[d][m] = slot[d][m]
         /\ "rebind" \notin seen =>
              /\ \A d \in live, m \in Names : pending'[d][m] = <<>>
              /\ c \in live => slot'[c][n] = v
<1>1. /\ live \subseteq Caches /\ slot \in Slots /\ pending \in Lists
      /\ \A d \in Caches : d \in live <=> d \in watched
  BY DEF IInv, TypeOK, LiveIsWatched, Slots, Lists
<1>2. /\ slot' \in Slots /\ pending' \in Lists
      /\ \A d \in Caches, m \in Names :
           d # c \/ m # n => pending'[d][m] = pending[d][m] /\ slot'[d][m] = slot[d][m]
      /\ c \in watched /\ pending[c][n] = <<>> => pending' = pending /\ slot'[c][n] = v
  BY <1>1, NotifyFacts
<1>3. "rebind" \notin seen => \A d \in live, m \in Names : pending[d][m] = <<>>
  BY DEF IInv, PendingIsConsumed
<1>4. QED
  BY <1>1, <1>2, <1>3

\* The call a store or delete pushes.
LEMMA PushFacts ==
  ASSUME IInv, UserRuns, NEW f \in Call, calls' = Append(calls, f)
  PROVE  /\ calls' \in Seq(Call) /\ OthersOpen'
         /\ UserRuns' <=> f.open
         /\ Last(calls') = f
         /\ \A i \in DOMAIN calls' : calls'[i] = f \/ (i \in DOMAIN calls /\ calls'[i] = calls[i])
<1>1. calls \in Seq(Call)
  BY DEF IInv, TypeOK
<1>2. /\ calls' \in Seq(Call) /\ calls' # <<>> /\ Last(calls') = f
      /\ DOMAIN calls' = 1..Len(calls) + 1 /\ Len(calls') = Len(calls) + 1
      /\ \A i \in DOMAIN calls : calls'[i] = calls[i]
  BY <1>1, AppendFacts
<1>3. /\ Len(calls) \in Nat /\ DOMAIN calls = 1..Len(calls)
      /\ calls'[Len(calls) + 1] = f
  BY <1>1
<1>4. Len(calls) > 0 => calls[Len(calls)].open
  BY <1>1 DEF UserRuns, Last
<1>5. OthersOpen'
  BY <1>2, <1>3, <1>4 DEF IInv, OthersOpen
<1>6. QED
  BY <1>2, <1>3, <1>5 DEF UserRuns

-----------------------------------------------------------------------------
\* What every action lemma starts from.
LEMMA Basics ==
  ASSUME IInv
  PROVE  /\ live \subseteq Caches /\ slot \in Slots /\ pending \in Lists
         /\ dict \in [Caches -> [Names -> Values \cup {Absent}]]
         /\ builtins \in [Names -> Values \cup {Absent}]
         /\ calls \in Seq(Call)
         /\ UserRuns => \A c \in live, n \in Names : ~Closing(c, n)
BY DEF IInv, TypeOK, Slots, Lists, Closing

\* A store announces its write before the dict changes; its slot follows later.
LEMMA StoreGlobalIInv ==
  ASSUME IInv, NEW c \in Caches, NEW n \in Names, NEW v \in Values, NEW runs \in BOOLEAN,
         StoreGlobal(c, n, v, runs)
  PROVE  IInv'
<1>. DEFINE f == [cache |-> c, name |-> n, value |-> v, open |-> runs]
<1>1. /\ UserRuns /\ c \in live /\ c \in watched /\ live' = live /\ watched' = watched
      /\ builtins' = builtins /\ v # Null /\ v # Absent
  BY CacheConstants DEF StoreGlobal, IInv, LiveIsWatched
<1>2. f \in Call /\ f.cache = c /\ f.name = n /\ f.value = v /\ f.open = runs
  BY DEF Call
<1>3. calls' = Append(calls, f)
  BY DEF StoreGlobal
<1>. HIDE DEF f
<1>4. /\ dict' \in [Caches -> [Names -> Values \cup {Absent}]] /\ dict'[c][n] = v
      /\ \A d \in Caches, m \in Names : d # c \/ m # n => dict'[d][m] = dict[d][m]
  BY Basics, PointChange DEF StoreGlobal, SetEntry
<1>5. seen \subseteq seen' /\ seen' \subseteq {"rebind", "reenter", "drop"}
      /\ ("drop" \in seen' => "drop" \in seen)
  BY DEF StoreGlobal, Seen, IInv, TypeOK
<1>6. /\ "reenter" \notin seen' => ~Reenters(c, n)
      /\ "rebind" \notin seen' => dict[c][n] # v
  BY DEF StoreGlobal, Seen
<1>7. slot' = slot /\ pending' \in Lists
      /\ ("rebind" \notin seen' => \A d \in live, m \in Names : pending'[d][m] = <<>>)
  <2>1. pending[c][n] \in Seq(Values \cup {Null})
    BY Basics, <1>1 DEF Lists
  <2>2. CASE dict[c][n] = v
    <3>1. slot' = slot /\ pending' = [pending EXCEPT ![c][n] = Append(pending[c][n], v)]
      BY <2>2 DEF StoreGlobal, SetEntry
    <3>2. Append(pending[c][n], v) \in Seq(Values \cup {Null})
      BY <2>1, AppendFacts
    <3>3. QED
      BY <1>6, <2>2, <3>1, <3>2, Basics, PointChange DEF Lists
  <2>3. CASE dict[c][n] # v
    <3>1. Notify([pending EXCEPT ![c][n] = Append(@, v)], c, n, v)
      BY <2>3 DEF StoreGlobal, SetEntry
    <3>2. QED
      BY <1>1, <1>5, <3>1, OwnWrite, Basics DEF IInv, PendingIsConsumed
  <2>4. QED
    BY <2>2, <2>3
<1>8. TypeOK' /\ LiveIsWatched' /\ PendingIsConsumed' /\ OthersOpen'
  BY <1>1, <1>2, <1>3, <1>4, <1>5, <1>7, PushFacts
  DEF IInv, TypeOK, LiveIsWatched, PendingIsConsumed, Lists, Slots
<1>9. StoresAreCurrent'
  <2>. SUFFICES ASSUME "reenter" \notin seen', NEW i \in DOMAIN calls', calls'[i].value # Null
                PROVE  dict'[calls'[i].cache][calls'[i].name] = calls'[i].value
    BY DEF StoresAreCurrent
  <2>1. CASE calls'[i] = f
    BY <1>2, <1>4, <2>1
  <2>2. CASE i \in DOMAIN calls /\ calls'[i] = calls[i]
    <3>1. calls[i] \in Call
      BY <2>2, Basics
    <3>2. calls[i].cache # c \/ calls[i].name # n
      BY <1>6, <2>2 DEF Reenters
    <3>3. QED
      BY <1>4, <1>5, <2>2, <3>1, <3>2 DEF IInv, StoresAreCurrent, Call
  <2>3. QED
    BY <1>1, <1>2, <1>3, <2>1, <2>2, PushFacts
<1>10. \A d \in live, m \in Names : Closing(d, m)' <=> ~runs /\ d = c /\ m = n
  BY <1>1, <1>2, <1>3, PushFacts DEF Closing
<1>11. GlobalsFresh'
  <2>. SUFFICES ASSUME seen' \cap {"rebind", "reenter"} = {}, NEW d \in live, NEW m \in Names
                PROVE  Closing(d, m)' \/ FreshFromModule(d, m)'
    BY <1>1 DEF GlobalsFresh
  <2>1. FreshFromModule(d, m)
    BY <1>1, <1>5, Basics DEF IInv, GlobalsFresh
  <2>2. CASE d # c \/ m # n
    BY <1>4, <1>7, <2>1, <2>2, Basics DEF FreshFromModule
  <2>3. CASE d = c /\ m = n /\ runs
    BY <1>7, <2>1, <2>3 DEF StoreGlobal, MayRelease, FreshFromModule
  <2>4. QED
    BY <1>10, <2>2, <2>3
<1>12. BuiltinsFresh'
  <2>. SUFFICES ASSUME seen' = {}, NEW d \in live, NEW m \in Names
                PROVE  FreshFromBuiltins(d, m)'
    BY <1>1 DEF BuiltinsFresh
  <2>1. FreshFromBuiltins(d, m)
    BY <1>1, <1>5, Basics DEF IInv, BuiltinsFresh
  <2>2. CASE d # c \/ m # n
    BY <1>1, <1>4, <1>7, <2>1, <2>2, Basics DEF FreshFromBuiltins
  <2>3. CASE d = c /\ m = n
    BY <1>1, <1>4, <2>3 DEF FreshFromBuiltins
  <2>4. QED
    BY <2>2, <2>3
<1>13. QED
  BY <1>8, <1>9, <1>11, <1>12 DEF IInv

\* A delete clears the slot when it returns.  User code that its destructor
\* runs before that finds the slot empty: a cached value would have kept the
\* object alive.
LEMMA DelGlobalIInv ==
  ASSUME IInv, NEW c \in Caches, NEW n \in Names, NEW runs \in BOOLEAN, DelGlobal(c, n, runs)
  PROVE  IInv'
<1>. DEFINE f == [cache |-> c, name |-> n, value |-> Null, open |-> runs]
<1>1. /\ UserRuns /\ c \in live /\ live' = live /\ watched' = watched
      /\ builtins' = builtins /\ Null # Absent
  BY DEF DelGlobal, Null, Absent
<1>2. f \in Call /\ f.cache = c /\ f.name = n /\ f.value = Null /\ f.open = runs
  BY DEF Call
<1>3. calls' = Append(calls, f)
  BY DEF DelGlobal
<1>. HIDE DEF f
<1>4. /\ dict' \in [Caches -> [Names -> Values \cup {Absent}]] /\ dict'[c][n] = Absent
      /\ \A d \in Caches, m \in Names : d # c \/ m # n => dict'[d][m] = dict[d][m]
  BY Basics, PointChange DEF DelGlobal, DelEntry
<1>5. seen \subseteq seen' /\ seen' \subseteq {"rebind", "reenter", "drop"}
      /\ ("drop" \in seen' => "drop" \in seen)
  BY DEF DelGlobal, Seen, IInv, TypeOK
<1>6. "reenter" \notin seen' => ~Reenters(c, n)
  BY DEF DelGlobal, Seen
<1>7. slot' = slot /\ pending' \in Lists
      /\ \A d \in Caches, m \in Names : pending'[d][m] = pending[d][m]
  <2>1. Notify([pending EXCEPT ![c][n] = Append(@, Null)], c, n, Null)
    BY DEF DelGlobal, DelEntry
  <2>2. QED
    BY <1>1, <2>1, OwnWrite
<1>8. TypeOK' /\ LiveIsWatched' /\ PendingIsConsumed' /\ OthersOpen'
  BY <1>1, <1>2, <1>3, <1>4, <1>5, <1>7, PushFacts
  DEF IInv, TypeOK, LiveIsWatched, PendingIsConsumed, Lists, Slots
<1>9. StoresAreCurrent'
  <2>. SUFFICES ASSUME "reenter" \notin seen', NEW i \in DOMAIN calls', calls'[i].value # Null
                PROVE  dict'[calls'[i].cache][calls'[i].name] = calls'[i].value
    BY DEF StoresAreCurrent
  <2>1. i \in DOMAIN calls /\ calls'[i] = calls[i]
    BY <1>1, <1>2, <1>3, PushFacts
  <2>2. calls[i] \in Call
    BY <2>1, Basics
  <2>3. calls[i].cache # c \/ calls[i].name # n
    BY <1>6, <2>1 DEF Reenters
  <2>4. QED
    BY <1>4, <1>5, <2>1, <2>2, <2>3 DEF IInv, StoresAreCurrent, Call
<1>10. \A d \in live, m \in Names : Closing(d, m)' <=> ~runs /\ d = c /\ m = n
  BY <1>1, <1>2, <1>3, PushFacts DEF Closing
<1>11. GlobalsFresh'
  <2>. SUFFICES ASSUME seen' \cap {"rebind", "reenter"} = {}, NEW d \in live, NEW m \in Names
                PROVE  FreshFromModule(d, m)'
    BY <1>1 DEF GlobalsFresh
  <2>1. FreshFromModule(d, m)
    BY <1>1, <1>5, Basics DEF IInv, GlobalsFresh
  <2>2. QED
    BY <1>4, <1>7, <2>1, Basics DEF FreshFromModule
<1>12. BuiltinsFresh'
  <2>. SUFFICES ASSUME seen' = {}, NEW d \in live, NEW m \in Names
                PROVE  Closing(d, m)' \/ FreshFromBuiltins(d, m)'
    BY <1>1 DEF BuiltinsFresh
  <2>1. FreshFromBuiltins(d, m) /\ FreshFromModule(d, m)
    BY <1>1, <1>5, Basics DEF IInv, BuiltinsFresh, GlobalsFresh
  <2>2. CASE d # c \/ m # n
    BY <1>1, <1>4, <1>7, <2>1, <2>2, Basics DEF FreshFromBuiltins
  <2>3. CASE d = c /\ m = n /\ runs
    BY <1>7, <2>1, <2>3 DEF DelGlobal, MayRelease, FreshFromModule, FreshFromBuiltins
  <2>4. QED
    BY <1>10, <2>2, <2>3
<1>13. QED
  BY <1>8, <1>9, <1>11, <1>12 DEF IInv

\* A delete of an absent name takes back what it announced.
LEMMA DelGlobalMissingIInv ==
  ASSUME IInv, NEW c \in Caches, NEW n \in Names, DelGlobalMissing(c, n)
  PROVE  IInv'
<1>1. UNCHANGED <<live, dict, builtins, watched, pending, calls, seen>>
  BY DEF DelGlobalMissing
<1>2. /\ slot' \in Slots /\ slot'[c][n] = Null
      /\ \A d \in Caches, m \in Names : d # c \/ m # n => slot'[d][m] = slot[d][m]
  BY Basics, PointChange DEF DelGlobalMissing, Slots
<1>3. TypeOK' /\ LiveIsWatched' /\ PendingIsConsumed' /\ OthersOpen' /\ StoresAreCurrent'
  BY <1>1, <1>2 DEF IInv, TypeOK, LiveIsWatched, PendingIsConsumed, OthersOpen, StoresAreCurrent,
    Slots
<1>4. GlobalsFresh' /\ BuiltinsFresh'
  BY <1>1, <1>2, Basics DEF IInv, GlobalsFresh, BuiltinsFresh, FreshFromModule, FreshFromBuiltins,
    Closing, UserRuns
<1>5. QED
  BY <1>3, <1>4 DEF IInv

\* The value of the returning store is still in the dict, so the slot that gets
\* it is fresh; and user code runs again only now.
LEMMA FinishIInv ==
  ASSUME IInv, Finish
  PROVE  IInv'
<1>. DEFINE f == Last(calls)
<1>1. /\ UNCHANGED <<live, dict, builtins, watched, pending, seen>>
      /\ calls # <<>> /\ calls' = Pop(calls) /\ slot' = [slot EXCEPT ![f.cache][f.name] = f.value]
  BY DEF Finish
<1>2. /\ Pop(calls) \in Seq(Call) /\ f \in Call
      /\ Len(calls) \in Nat /\ Len(calls) > 0 /\ Len(Pop(calls)) = Len(calls) - 1
      /\ DOMAIN Pop(calls) = 1..Len(calls) - 1 /\ DOMAIN calls = 1..Len(calls)
      /\ \A i \in DOMAIN Pop(calls) : Pop(calls)[i] = calls[i]
      /\ f = calls[Len(calls)]
  BY <1>1, Basics, PopFacts
<1>. HIDE DEF f
<1>3. f.cache \in Caches /\ f.name \in Names /\ f.value \in Values \cup {Null}
  BY <1>2 DEF Call
<1>4. /\ slot' \in Slots /\ slot'[f.cache][f.name] = f.value
      /\ \A d \in Caches, m \in Names :
           d # f.cache \/ m # f.name => slot'[d][m] = slot[d][m]
  BY <1>1, <1>3, Basics, PointChange DEF Slots
<1>5. TypeOK' /\ LiveIsWatched' /\ PendingIsConsumed'
  BY <1>1, <1>2, <1>4 DEF IInv, TypeOK, LiveIsWatched, PendingIsConsumed, Slots
<1>6. \A i \in DOMAIN calls' : i \in DOMAIN calls /\ i < Len(calls) /\ calls'[i] = calls[i]
  BY <1>1, <1>2
<1>7. OthersOpen' /\ StoresAreCurrent'
  BY <1>1, <1>6 DEF IInv, OthersOpen, StoresAreCurrent
<1>8. "reenter" \notin seen /\ f.value # Null => dict[f.cache][f.name] = f.value
  BY <1>2 DEF IInv, StoresAreCurrent
<1>9. \A d \in live, m \in Names : d # f.cache \/ m # f.name => ~Closing(d, m)
  BY DEF Closing, f
<1>10. GlobalsFresh'
  <2>. SUFFICES ASSUME seen \cap {"rebind", "reenter"} = {}, NEW d \in live, NEW m \in Names
                PROVE  FreshFromModule(d, m)'
    BY <1>1 DEF GlobalsFresh
  <2>1. CASE d = f.cache /\ m = f.name
    BY <1>1, <1>4, <1>8, <2>1 DEF FreshFromModule
  <2>2. CASE d # f.cache \/ m # f.name
    BY <1>1, <1>4, <1>9, <2>2, Basics DEF IInv, GlobalsFresh, FreshFromModule
  <2>3. QED
    BY <2>1, <2>2
<1>11. BuiltinsFresh'
  <2>. SUFFICES ASSUME seen = {}, NEW d \in live, NEW m \in Names
                PROVE  FreshFromBuiltins(d, m)'
    BY <1>1 DEF BuiltinsFresh
  <2>1. CASE d = f.cache /\ m = f.name
    BY <1>1, <1>3, <1>4, <1>8, <2>1, CacheConstants DEF FreshFromBuiltins
  <2>2. CASE d # f.cache \/ m # f.name
    BY <1>1, <1>4, <1>9, <2>2, Basics DEF IInv, BuiltinsFresh, FreshFromBuiltins
  <2>3. QED
    BY <2>1, <2>2
<1>12. QED
  BY <1>5, <1>7, <1>10, <1>11 DEF IInv

\* A load fills an empty slot with what the lookup has found.
LEMMA LoadGlobalIInv ==
  ASSUME IInv, NEW c \in Caches, NEW n \in Names, LoadGlobal(c, n)
  PROVE  IInv'
<1>1. UserRuns /\ c \in live /\ UNCHANGED <<live, dict, builtins, watched, pending, calls, seen>>
  BY DEF LoadGlobal
<1>2. Lookup(c, n) \in Values
  BY Basics DEF LoadGlobal, Lookup
<1>3. /\ slot' \in Slots /\ slot'[c][n] = Lookup(c, n)
      /\ \A d \in Caches, m \in Names : d # c \/ m # n => slot'[d][m] = slot[d][m]
  BY <1>2, Basics, PointChange DEF LoadGlobal, Slots
<1>4. TypeOK' /\ LiveIsWatched' /\ PendingIsConsumed' /\ OthersOpen' /\ StoresAreCurrent'
  BY <1>1, <1>3 DEF IInv, TypeOK, LiveIsWatched, PendingIsConsumed, OthersOpen, StoresAreCurrent,
    Slots
<1>5. FreshFromModule(c, n)' /\ FreshFromBuiltins(c, n)'
  BY <1>1, <1>3, Basics DEF LoadGlobal, Lookup, FreshFromModule, FreshFromBuiltins
<1>6. GlobalsFresh' /\ BuiltinsFresh'
  <2>. SUFFICES ASSUME NEW d \in live, NEW m \in Names
                PROVE  /\ seen \cap {"rebind", "reenter"} = {} => FreshFromModule(d, m)'
                       /\ seen = {} => FreshFromBuiltins(d, m)'
    BY <1>1 DEF GlobalsFresh, BuiltinsFresh
  <2>1. CASE d = c /\ m = n
    BY <1>5, <2>1
  <2>2. CASE d # c \/ m # n
    <3>1. /\ seen \cap {"rebind", "reenter"} = {} => FreshFromModule(d, m)
          /\ seen = {} => FreshFromBuiltins(d, m)
      BY <1>1, Basics DEF IInv, GlobalsFresh, BuiltinsFresh
    <3>2. QED
      BY <1>1, <1>3, <2>2, <3>1, Basics DEF FreshFromModule, FreshFromBuiltins
  <2>3. QED
    BY <2>1, <2>2
<1>7. QED
  BY <1>4, <1>6 DEF IInv

\* A new cache starts with empty slots, and is told of both dicts.
LEMMA NewIInv ==
  ASSUME IInv, NEW c \in Caches, New(c)
  PROVE  IInv'
<1>1. /\ UserRuns /\ c \notin live /\ live' = live \cup {c} /\ watched' = watched \cup {c, Builtins}
      /\ UNCHANGED <<dict, builtins, calls, seen>>
  BY DEF New
<1>2. /\ slot' \in Slots /\ pending' \in Lists
      /\ \A m \in Names : slot'[c][m] = Null /\ pending'[c][m] = <<>>
      /\ \A d \in Caches : d # c => slot'[d] = slot[d] /\ pending'[d] = pending[d]
  BY Basics DEF New, Slots, Lists
<1>3. TypeOK' /\ LiveIsWatched'
  BY <1>1, <1>2, CacheConstants DEF IInv, TypeOK, LiveIsWatched, Slots, Lists
<1>4. PendingIsConsumed' /\ OthersOpen' /\ StoresAreCurrent'
  BY <1>1, <1>2, Basics DEF IInv, PendingIsConsumed, OthersOpen, StoresAreCurrent
<1>5. GlobalsFresh' /\ BuiltinsFresh'
  <2>. SUFFICES ASSUME NEW d \in live', NEW m \in Names
                PROVE  /\ seen \cap {"rebind", "reenter"} = {} => FreshFromModule(d, m)'
                       /\ seen = {} => FreshFromBuiltins(d, m)'
    BY <1>1 DEF GlobalsFresh, BuiltinsFresh
  <2>1. CASE d = c
    BY <1>2, <2>1 DEF FreshFromModule, FreshFromBuiltins
  <2>2. CASE d \in live /\ d # c
    <3>1. /\ seen \cap {"rebind", "reenter"} = {} => FreshFromModule(d, m)
          /\ seen = {} => FreshFromBuiltins(d, m)
      BY <1>1, <2>2, Basics DEF IInv, GlobalsFresh, BuiltinsFresh
    <3>2. QED
      BY <1>1, <1>2, <2>2, <3>1, Basics DEF FreshFromModule, FreshFromBuiltins
  <2>3. QED
    BY <1>1, <2>1, <2>2
<1>6. QED
  BY <1>3, <1>4, <1>5 DEF IInv

\* Once a cache is dropped beside another one, nothing is claimed of builtins.
LEMMA DropIInv ==
  ASSUME IInv, NEW c \in Caches, Drop(c)
  PROVE  IInv'
<1>1. /\ UserRuns /\ live' = live \ {c} /\ watched' = watched \ {c, Builtins}
      /\ UNCHANGED <<dict, builtins, pending, calls>>
  BY DEF Drop
<1>2. /\ slot' \in Slots
      /\ \A d \in Caches : d # c => slot'[d] = slot[d]
  BY Basics DEF Drop, Slots
<1>3. /\ seen \subseteq seen' /\ seen' \subseteq {"rebind", "reenter", "drop"}
      /\ "drop" \notin seen' => live' = {}
  BY <1>1 DEF Drop, IInv, TypeOK
<1>4. TypeOK' /\ LiveIsWatched'
  BY <1>1, <1>2, <1>3, CacheConstants DEF IInv, TypeOK, LiveIsWatched, Slots
<1>5. PendingIsConsumed' /\ OthersOpen' /\ StoresAreCurrent'
  BY <1>1, <1>3 DEF IInv, PendingIsConsumed, OthersOpen, StoresAreCurrent
<1>6. GlobalsFresh' /\ BuiltinsFresh'
  <2>. SUFFICES ASSUME NEW d \in live', NEW m \in Names
                PROVE  /\ seen' \cap {"rebind", "reenter"} = {} => FreshFromModule(d, m)'
                       /\ seen' = {} => FreshFromBuiltins(d, m)'
    BY DEF GlobalsFresh, BuiltinsFresh
  <2>1. /\ d \in live /\ d # c
        /\ seen' \cap {"rebind", "reenter"} = {} => FreshFromModule(d, m)
        /\ seen' = {} => FreshFromBuiltins(d, m)
    BY <1>1, <1>3, Basics DEF IInv, GlobalsFresh, BuiltinsFresh
  <2>2. QED
    BY <1>1, <1>2, <2>1, Basics DEF FreshFromModule, FreshFromBuiltins
<1>7. QED
  BY <1>4, <1>5, <1>6 DEF IInv

-----------------------------------------------------------------------------
\* What the writes of others leave alone, given what they do to dict and slot.
LEMMA OutsideFrame ==
  ASSUME IInv, UserRuns, UNCHANGED <<live, watched, calls>>,
         dict' \in [Caches -> [Names -> Values \cup {Absent}]],
         builtins' \in [Names -> Values \cup {Absent}],
         slot' \in Slots, pending' \in Lists,
         seen \subseteq seen', seen' \subseteq {"rebind", "reenter", "drop"},
         "drop" \in seen' => "drop" \in seen,
         "rebind" \notin seen' => \A c \in live, n \in Names : pending'[c][n] = <<>>,
         "reenter" \notin seen' =>
           \A i \in DOMAIN calls : calls[i].value # Null =>
             dict'[calls[i].cache][calls[i].name] = dict[calls[i].cache][calls[i].name],
         \A c \in live, n \in Names :
           /\ seen' \cap {"rebind", "reenter"} = {} /\ FreshFromModule(c, n)
                => FreshFromModule(c, n)'
           /\ seen' = {} /\ FreshFromModule(c, n) /\ FreshFromBuiltins(c, n)
                => FreshFromBuiltins(c, n)'
  PROVE  IInv'
<1>1. TypeOK' /\ LiveIsWatched' /\ PendingIsConsumed' /\ OthersOpen'
  BY DEF IInv, TypeOK, LiveIsWatched, PendingIsConsumed, OthersOpen, Slots, Lists
<1>2. StoresAreCurrent'
  BY DEF IInv, StoresAreCurrent
<1>3. GlobalsFresh' /\ BuiltinsFresh'
  <2>. SUFFICES ASSUME NEW c \in live, NEW n \in Names
                PROVE  /\ seen' \cap {"rebind", "reenter"} = {} => FreshFromModule(c, n)'
                       /\ seen' = {} => FreshFromBuiltins(c, n)'
    BY DEF GlobalsFresh, BuiltinsFresh
  <2>1. /\ seen' \cap {"rebind", "reenter"} = {} => FreshFromModule(c, n)
        /\ seen' = {} => FreshFromBuiltins(c, n)
    BY Basics DEF IInv, GlobalsFresh, BuiltinsFresh
  <2>2. QED
    BY <2>1
<1>4. QED
  BY <1>1, <1>2, <1>3 DEF IInv

\* A name that no unfinished store is for keeps the values they will put back.
LEMMA UntouchedStores ==
  ASSUME IInv, NEW c \in Caches, NEW n \in Names, ~Reenters(c, n),
         \A d \in Caches, m \in Names : d # c \/ m # n => dict'[d][m] = dict[d][m]
  PROVE  \A i \in DOMAIN calls : calls[i].value # Null =>
           dict'[calls[i].cache][calls[i].name] = dict[calls[i].cache][calls[i].name]
<1>. SUFFICES ASSUME NEW i \in DOMAIN calls, calls[i].value # Null
              PROVE  dict'[calls[i].cache][calls[i].name] = dict[calls[i].cache][calls[i].name]
  OBVIOUS
<1>1. calls[i] \in Call
  BY Basics
<1>2. calls[i].cache # c \/ calls[i].name # n
  BY DEF Reenters
<1>3. QED
  BY <1>1, <1>2 DEF Call

\* A write by other code reaches the slot through the watcher.
LEMMA SetOutsideIInv ==
  ASSUME IInv, NEW c \in Caches, NEW n \in Names, NEW v \in Values, SetOutside(c, n, v)
  PROVE  IInv'
<1>1. /\ UserRuns /\ UNCHANGED <<live, watched, calls, builtins>> /\ v # Absent
      /\ seen \subseteq seen' /\ seen' \subseteq {"rebind", "reenter", "drop"}
      /\ ("drop" \in seen' => "drop" \in seen)
      /\ "reenter" \notin seen' => ~Reenters(c, n)
  BY CacheConstants DEF SetOutside, Seen, IInv, TypeOK
<1>2. /\ dict' \in [Caches -> [Names -> Values \cup {Absent}]] /\ dict'[c][n] = v
      /\ \A d \in Caches, m \in Names : d # c \/ m # n => dict'[d][m] = dict[d][m]
  BY Basics, PointChange DEF SetOutside, SetEntry
<1>3. "reenter" \notin seen' =>
        \A i \in DOMAIN calls : calls[i].value # Null =>
          dict'[calls[i].cache][calls[i].name] = dict[calls[i].cache][calls[i].name]
  BY <1>1, <1>2, UntouchedStores
<1>4. /\ slot' \in Slots /\ pending' \in Lists
      /\ \A d \in Caches, m \in Names : d # c \/ m # n => slot'[d][m] = slot[d][m]
      /\ "rebind" \notin seen => \A d \in live, m \in Names : pending'[d][m] = <<>>
      /\ "rebind" \notin seen /\ c \in live =>
           (dict[c][n] = v /\ slot' = slot) \/ slot'[c][n] = v
  <2>1. CASE dict[c][n] = v
    <3>1. slot' = slot /\ pending' = pending
      BY <2>1 DEF SetOutside, SetEntry
    <3>2. QED
      BY <2>1, <3>1, Basics DEF IInv, PendingIsConsumed
  <2>2. CASE dict[c][n] # v
    <3>1. Notify(pending, c, n, v)
      BY <2>2 DEF SetOutside, SetEntry
    <3>2. QED
      BY <3>1, ForeignWrite
  <2>3. QED
    BY <2>1, <2>2
<1>5. ASSUME NEW d \in live, NEW m \in Names
      PROVE  /\ seen' \cap {"rebind", "reenter"} = {} /\ FreshFromModule(d, m)
                  => FreshFromModule(d, m)'
             /\ seen' = {} /\ FreshFromModule(d, m) /\ FreshFromBuiltins(d, m)
                  => FreshFromBuiltins(d, m)'
  <2>1. CASE d # c \/ m # n
    BY <1>1, <1>2, <1>4, <2>1, Basics DEF FreshFromModule, FreshFromBuiltins
  <2>2. CASE d = c /\ m = n
    BY <1>1, <1>2, <1>4, <2>2 DEF FreshFromModule, FreshFromBuiltins
  <2>3. QED
    BY <2>1, <2>2
<1>6. QED
  BY <1>1, <1>2, <1>3, <1>4, <1>5, Basics, OutsideFrame

\* A delete by other code empties the slot through the watcher.
LEMMA DelOutsideIInv ==
  ASSUME IInv, NEW c \in Caches, NEW n \in Names, DelOutside(c, n)
  PROVE  IInv'
<1>1. /\ UserRuns /\ UNCHANGED <<live, watched, calls, builtins>>
      /\ seen \subseteq seen' /\ seen' \subseteq {"rebind", "reenter", "drop"}
      /\ ("drop" \in seen' => "drop" \in seen)
      /\ "reenter" \notin seen' => ~Reenters(c, n)
      /\ Notify(pending, c, n, Null)
  BY DEF DelOutside, DelEntry, Seen, IInv, TypeOK
<1>2. /\ dict' \in [Caches -> [Names -> Values \cup {Absent}]] /\ dict'[c][n] = Absent
      /\ \A d \in Caches, m \in Names : d # c \/ m # n => dict'[d][m] = dict[d][m]
  BY Basics, PointChange DEF DelOutside, DelEntry
<1>3. "reenter" \notin seen' =>
        \A i \in DOMAIN calls : calls[i].value # Null =>
          dict'[calls[i].cache][calls[i].name] = dict[calls[i].cache][calls[i].name]
  BY <1>1, <1>2, UntouchedStores
<1>4. /\ slot' \in Slots /\ pending' \in Lists
      /\ \A d \in Caches, m \in Names : d # c \/ m # n => slot'[d][m] = slot[d][m]
      /\ "rebind" \notin seen => \A d \in live, m \in Names : pending'[d][m] = <<>>
      /\ "rebind" \notin seen /\ c \in live => slot'[c][n] = Null
  BY <1>1, ForeignWrite
<1>5. ASSUME NEW d \in live, NEW m \in Names
      PROVE  /\ seen' \cap {"rebind", "reenter"} = {} /\ FreshFromModule(d, m)
                  => FreshFromModule(d, m)'
             /\ seen' = {} /\ FreshFromModule(d, m) /\ FreshFromBuiltins(d, m)
                  => FreshFromBuiltins(d, m)'
  <2>1. CASE d # c \/ m # n
    BY <1>1, <1>2, <1>4, <2>1, Basics DEF FreshFromModule, FreshFromBuiltins
  <2>2. CASE d = c /\ m = n
    BY <1>1, <1>2, <1>4, <2>2 DEF FreshFromModule, FreshFromBuiltins
  <2>3. QED
    BY <2>1, <2>2
<1>6. QED
  BY <1>1, <1>2, <1>3, <1>4, <1>5, Basics, OutsideFrame

\* Clearing or refilling a whole dict empties the cache that watches it.
LEMMA ReplaceOutsideIInv ==
  ASSUME IInv, NEW c \in Caches, NEW e \in [Names -> Values \cup {Absent}],
         ReplaceOutside(c, e)
  PROVE  IInv'
<1>1. /\ UserRuns /\ UNCHANGED <<live, watched, calls, builtins, pending>>
      /\ seen \subseteq seen' /\ seen' \subseteq {"rebind", "reenter", "drop"}
      /\ ("drop" \in seen' => "drop" \in seen)
      /\ "reenter" \notin seen' => \A m \in Names : ~Reenters(c, m)
  BY DEF ReplaceOutside, Seen, IInv, TypeOK
<1>2. /\ dict' \in [Caches -> [Names -> Values \cup {Absent}]]
      /\ \A d \in Caches : d # c => dict'[d] = dict[d]
  BY Basics DEF ReplaceOutside
<1>3. "reenter" \notin seen' =>
        \A i \in DOMAIN calls : calls[i].value # Null =>
          dict'[calls[i].cache][calls[i].name] = dict[calls[i].cache][calls[i].name]
  <2>. SUFFICES ASSUME "reenter" \notin seen', NEW i \in DOMAIN calls, calls[i].value # Null
                PROVE  dict'[calls[i].cache][calls[i].name]
                         = dict[calls[i].cache][calls[i].name]
    OBVIOUS
  <2>1. calls[i] \in Call
    BY Basics
  <2>2. calls[i].cache # c
    BY <1>1, <2>1 DEF Reenters, Call
  <2>3. QED
    BY <1>2, <2>1, <2>2 DEF Call
<1>4. /\ slot' \in Slots
      /\ \A d \in Caches : d # c => slot'[d] = slot[d]
      /\ c \in live => \A m \in Names : slot'[c][m] = Null
  BY Basics DEF ReplaceOutside, Slots, IInv, LiveIsWatched
<1>5. ASSUME NEW d \in live, NEW m \in Names
      PROVE  /\ seen' \cap {"rebind", "reenter"} = {} /\ FreshFromModule(d, m)
                  => FreshFromModule(d, m)'
             /\ seen' = {} /\ FreshFromModule(d, m) /\ FreshFromBuiltins(d, m)
                  => FreshFromBuiltins(d, m)'
  <2>1. CASE d # c
    BY <1>1, <1>2, <1>4, <2>1, Basics DEF FreshFromModule, FreshFromBuiltins
  <2>2. CASE d = c
    BY <1>4, <2>2 DEF FreshFromModule, FreshFromBuiltins
  <2>3. QED
    BY <2>1, <2>2
<1>6. "rebind" \notin seen' => \A d \in live, m \in Names : pending'[d][m] = <<>>
  BY <1>1 DEF IInv, PendingIsConsumed
<1>7. QED
  BY <1>1, <1>2, <1>3, <1>4, <1>5, <1>6, Basics, OutsideFrame

\* A change of the builtins dict empties every slot that may have come from it.
LEMMA ChangeBuiltinsIInv ==
  ASSUME IInv, NEW N \in SUBSET Names, NEW b \in [Names -> Values \cup {Absent}],
         ChangeBuiltins(N, b)
  PROVE  IInv'
<1>1. /\ UserRuns /\ UNCHANGED <<live, dict, watched, pending, calls, seen>> /\ builtins' = b
      /\ \A n \in Names : n \notin N => b[n] = builtins[n]
  BY DEF ChangeBuiltins
<1>2. /\ slot' \in Slots
      /\ \A c \in Caches, n \in Names : slot'[c][n] # Null => slot'[c][n] = slot[c][n]
      /\ Builtins \in watched =>
           \A c \in live, n \in N : dict[c][n] = Absent => slot'[c][n] = Null
  BY Basics DEF ChangeBuiltins, Unshadowed, Slots
<1>3. live # {} /\ "drop" \notin seen => Builtins \in watched
  BY DEF IInv, LiveIsWatched
<1>4. ASSUME NEW c \in live, NEW n \in Names
      PROVE  /\ FreshFromModule(c, n) => FreshFromModule(c, n)'
             /\ seen = {} /\ FreshFromBuiltins(c, n) => FreshFromBuiltins(c, n)'
  <2>1. CASE n \in N
    BY <1>1, <1>2, <1>3, <2>1, Basics DEF FreshFromModule, FreshFromBuiltins
  <2>2. CASE n \notin N
    BY <1>1, <1>2, <2>2, Basics DEF FreshFromModule, FreshFromBuiltins
  <2>3. QED
    BY <2>1, <2>2
<1>5. /\ "rebind" \notin seen => \A c \in live, n \in Names : pending[c][n] = <<>>
      /\ seen \subseteq {"rebind", "reenter", "drop"}
  BY DEF IInv, TypeOK, PendingIsConsumed
<1>6. QED
  BY <1>1, <1>2, <1>4, <1>5, Basics, OutsideFrame

-----------------------------------------------------------------------------
\* Every step of every cache, of user code and of CPython keeps IInv.
LEMMA NextIInv ==
  ASSUME IInv, [Next]_vars
  PROVE  IInv'
<1>1. CASE UNCHANGED vars
  BY <1>1 DEF vars, IInv, TypeOK, LiveIsWatched, PendingIsConsumed, OthersOpen, StoresAreCurrent,
    GlobalsFresh, BuiltinsFresh, FreshFromModule, FreshFromBuiltins, Closing, UserRuns
<1>2. ASSUME NEW c \in Caches, New(c) \/ Drop(c)
      PROVE  IInv'
  BY <1>2, NewIInv, DropIInv
<1>3. ASSUME NEW c \in Caches, NEW n \in Names, WriteThrough(c, n)
      PROVE  IInv'
  BY <1>3, StoreGlobalIInv, DelGlobalIInv, DelGlobalMissingIInv, LoadGlobalIInv DEF WriteThrough
<1>4. ASSUME NEW c \in Caches, NEW n \in Names, Outside(c, n)
      PROVE  IInv'
  BY <1>4, SetOutsideIInv, DelOutsideIInv DEF Outside
<1>5. ASSUME NEW n \in Names, DelBuiltin(n) \/ \E v \in Values : SetBuiltin(n, v)
      PROVE  IInv'
  <2>1. CASE DelBuiltin(n)
    <3>1. [builtins EXCEPT ![n] = Absent] \in [Names -> Values \cup {Absent}]
      BY Basics
    <3>2. QED
      BY <2>1, <3>1, ChangeBuiltinsIInv DEF DelBuiltin
  <2>2. ASSUME NEW v \in Values, SetBuiltin(n, v)
        PROVE  IInv'
    <3>1. [builtins EXCEPT ![n] = v] \in [Names -> Values \cup {Absent}]
      BY Basics
    <3>2. QED
      BY <2>2, <3>1, ChangeBuiltinsIInv DEF SetBuiltin
  <2>3. QED
    BY <1>5, <2>1, <2>2
<1>6. CASE ClearBuiltins
  <2>1. [n \in Names |-> Absent] \in [Names -> Values \cup {Absent}]
    OBVIOUS
  <2>2. QED
    BY <1>6, <2>1, ChangeBuiltinsIInv DEF ClearBuiltins
<1>7. QED
  BY <1>1, <1>2, <1>3, <1>4, <1>5, <1>6, FinishIInv, ReplaceOutsideIInv DEF Next

\* The strengthened invariant of the caches holds in every reachable state.
THEOREM Invariance == Spec => []IInv
<1>1. IInv /\ [Next]_vars => IInv'
  BY NextIInv
<1>2. QED
  BY InitIInv, <1>1, PTL DEF Spec

\* The caches' state stays of its type: slots, pending lists and open calls.
THEOREM TypeCorrect == Spec => []TypeOK
<1>1. IInv => TypeOK
  BY DEF IInv
<1>2. QED
  BY Invariance, <1>1, PTL

\* Whenever user code runs, what compiled code reads from a slot is what the
\* module's dict holds, whoever wrote it last.
THEOREM SlotsAgreeWithGlobals == Spec => []SlotsFollowGlobals
<1>1. IInv => SlotsFollowGlobals
  BY DEF IInv, GlobalsFresh, SlotsFollowGlobals, Closing
<1>2. QED
  BY Invariance, <1>1, PTL

\* And where the module's dict has no such name, the slot holds the builtin.
THEOREM SlotsAgreeWithBuiltins == Spec => []SlotsFollowBuiltins
<1>1. IInv => SlotsFollowBuiltins
  BY DEF IInv, BuiltinsFresh, SlotsFollowBuiltins, Closing
<1>2. QED
  BY Invariance, <1>1, PTL

\* What compiled code reads: its slot, or what the load hook finds.
CompiledLoad(c, n) == IF slot[c][n] # Null THEN slot[c][n] ELSE Lookup(c, n)

\* So, with none of the three things in seen, a cached load of a global has no
\* effect that a lookup in the module's dict and the builtins dict would not
\* have: the same object, or NameError from both.
THEOREM LoadsLikePython ==
  Spec => [](seen = {} /\ UserRuns => \A c \in live, n \in Names : CompiledLoad(c, n) = Lookup(c, n))
<1>1. ASSUME IInv, seen = {}, UserRuns, NEW c \in live, NEW n \in Names
      PROVE  CompiledLoad(c, n) = Lookup(c, n)
  <2>1. FreshFromModule(c, n) /\ FreshFromBuiltins(c, n)
    BY <1>1 DEF IInv, GlobalsFresh, BuiltinsFresh, Closing
  <2>2. slot[c][n] \in Values \cup {Null} /\ Absent \notin Values
    BY <1>1, Basics, CacheConstants DEF Slots
  <2> QED
    BY <2>1, <2>2 DEF CompiledLoad, Lookup, FreshFromModule, FreshFromBuiltins
<1>2. IInv => (seen = {} /\ UserRuns => \A c \in live, n \in Names : CompiledLoad(c, n) = Lookup(c, n))
  BY <1>1
<1>3. QED
  BY Invariance, <1>2, PTL

\* No pending update outlives the store or delete that announced it.
THEOREM AnnouncementsAreConsumed == Spec => []PendingIsConsumed
<1>1. IInv => PendingIsConsumed
  BY DEF IInv
<1>2. QED
  BY Invariance, <1>1, PTL
=============================================================================
