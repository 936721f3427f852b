------------------------- MODULE ModuleGlobalCache -------------------------
(***************************************************************************)
(* The per-module cache of global variables that compiled code reads       *)
(* (soac-eval/src/module_globals.rs, with the load, store and delete hooks *)
(* of soac-eval/src/jit/specialized_helpers.rs).  A slot holds the value   *)
(* last seen for a name, or Null; compiled code trusts a slot that is not  *)
(* Null and calls the load hook otherwise.  Slots are kept fresh by a dict *)
(* watcher on the module's dict and on the builtins dict, which all caches *)
(* share.                                                                  *)
(*                                                                         *)
(* External: CPython's dicts.  A watcher is called before a dict changes,  *)
(* and not at all when a key is set to the object it already holds.        *)
(*                                                                         *)
(* One thread runs at a time.  The only point inside a hook where other    *)
(* Python code can run is where the dict lets go of the value it held and  *)
(* nothing else holds it: its destructor runs, and it may use the globals. *)
(***************************************************************************)
EXTENDS Naturals, Sequences

CONSTANTS
  Caches,      (* transformed modules; each has its own dict                *)
  Names,       (* the global names that have a slot                         *)
  Values,      (* objects bound to them                                     *)
  MaxCalls,    (* bound: nesting of unfinished stores and deletes           *)
  MaxPending   (* bound: length of a name's pending-update list             *)

Absent   == "absent"      \* no entry in a dict
Null     == "null"        \* an empty slot; as a new value, a deletion
Builtins == "builtins"    \* the dict all caches share

ASSUME CacheConstants ==
  /\ Builtins \notin Caches /\ Absent \notin Values /\ Null \notin Values
  /\ MaxCalls \in Nat /\ MaxPending \in Nat

VARIABLES
  live,      (* caches registered in cache_registry                         *)
  dict,      (* the modules' dicts                                          *)
  builtins,  (* the builtins dict                                           *)
  watched,   (* dicts the watcher is called for                             *)
  slot,      (* slots of each cache                                         *)
  pending,   (* pending_self_updates of each cache                          *)
  calls,     (* stores and deletes whose dict operation has not returned    *)
  seen       (* history: "rebind" a store of the object already bound,      *)
             (* "reenter" a write to a name with an unfinished store,       *)
             (* "drop" a cache dropped while another was live               *)

vars == <<live, dict, builtins, watched, slot, pending, calls, seen>>

\* open: user code runs before the call's dict operation returns.
Call == [cache : Caches, name : Names, value : Values \cup {Null}, open : BOOLEAN]

TypeOK ==
  /\ live \subseteq Caches
  /\ dict \in [Caches -> [Names -> Values \cup {Absent}]]
  /\ builtins \in [Names -> Values \cup {Absent}]
  /\ watched \subseteq Caches \cup {Builtins}
  /\ slot \in [Caches -> [Names -> Values \cup {Null}]]
  /\ pending \in [Caches -> [Names -> Seq(Values \cup {Null})]]
  /\ calls \in Seq(Call)
  /\ seen \subseteq {"rebind", "reenter", "drop"}

Init ==
  /\ live = {} /\ watched = {} /\ calls = <<>> /\ seen = {}
  /\ dict = [c \in Caches |-> [n \in Names |-> Absent]]
  /\ builtins \in [Names -> Values \cup {Absent}]
  /\ slot = [c \in Caches |-> [n \in Names |-> Null]]
  /\ pending = [c \in Caches |-> [n \in Names |-> <<>>]]

Last(s) == s[Len(s)]
Pop(s)  == SubSeq(s, 1, Len(s) - 1)

\* User code runs at rest and in the destructors of an open call.
UserRuns == calls # <<>> => Last(calls).open

\* What Python's name lookup finds, Null for a NameError.
Lookup(c, n) ==
  IF dict[c][n] # Absent THEN dict[c][n]
  ELSE IF builtins[n] # Absent THEN builtins[n]
  ELSE Null

-----------------------------------------------------------------------------
NewUnwatchedBuiltins(c) ==     \* mutant: the second PyDict_Watch is left out
  /\ UserRuns /\ c \notin live
  /\ live' = live \cup {c}
  /\ watched' = watched \cup {c}
  /\ UNCHANGED <<dict, builtins, slot, pending, calls, seen>>

\* ModuleGlobalCache::new: empty slots, registered for both dicts.
New(c) ==
  /\ UserRuns /\ c \notin live
  /\ live' = live \cup {c}
  /\ watched' = watched \cup {c, Builtins}
  /\ slot' = [slot EXCEPT ![c] = [n \in Names |-> Null]]
  /\ pending' = [pending EXCEPT ![c] = [n \in Names |-> <<>>]]
  /\ UNCHANGED <<dict, builtins, calls, seen>>

\* Drop for ModuleGlobalCache: both dicts are unwatched, the builtins dict
\* too, although other caches are registered for it.
Drop(c) ==
  /\ UserRuns /\ c \in live
  /\ \A i \in DOMAIN calls : calls[i].cache # c
  /\ live' = live \ {c}
  /\ watched' = watched \ {c, Builtins}
  /\ slot' = [slot EXCEPT ![c] = [n \in Names |-> Null]]
  /\ seen' = IF live = {c} THEN seen ELSE seen \cup {"drop"}
  /\ UNCHANGED <<dict, builtins, pending, calls>>

-----------------------------------------------------------------------------
\* The module dict entry of n is about to become v (Null: to be deleted);
\* p are the pending lists.  try_ignore_pending_self_update takes the event
\* for the cache's own if v is the last pending value.
Ignores(p, c, n, v) == p[c][n] # <<>> /\ Last(p[c][n]) = v

Notify(p, c, n, v) ==
  IF c \in watched /\ Ignores(p, c, n, v)
  THEN /\ pending' = [p EXCEPT ![c][n] = Pop(@)]
       /\ UNCHANGED slot
  ELSE /\ pending' = p
       /\ slot' = IF c \in watched THEN [slot EXCEPT ![c][n] = v] ELSE slot

\* A dict entry changes while a store of the same name is unfinished.
Reenters(c, n) ==
  \E i \in DOMAIN calls :
    calls[i].cache = c /\ calls[i].name = n /\ calls[i].value # Null

Seen(kinds) == seen' = seen \cup kinds

\* PyObject_SetItem and PyObject_DelItem on the module's dict.
SetEntry(p, c, n, v) ==
  /\ dict' = [dict EXCEPT ![c][n] = v]
  /\ IF dict[c][n] = v THEN pending' = p /\ UNCHANGED slot ELSE Notify(p, c, n, v)

DelEntryNotNull(p, c, n) ==     \* mutant: the watcher is not passed NULL
  /\ dict[c][n] # Absent
  /\ dict' = [dict EXCEPT ![c][n] = Absent]
  /\ Notify(p, c, n, Absent)

DelEntry(p, c, n) ==
  /\ dict[c][n] # Absent
  /\ dict' = [dict EXCEPT ![c][n] = Absent]
  /\ Notify(p, c, n, Null)

\* The dict's reference to its old value may be the last one.
MayRelease(c, n) == dict[c][n] # Absent /\ slot[c][n] # dict[c][n]

-----------------------------------------------------------------------------
\* store_global_write_through up to the return of SetItem.
StoreGlobal(c, n, v, runs) ==
  /\ UserRuns /\ c \in live
  /\ Len(calls) < MaxCalls /\ Len(pending[c][n]) < MaxPending
  /\ runs => MayRelease(c, n) /\ dict[c][n] # v
  /\ SetEntry([pending EXCEPT ![c][n] = Append(@, v)], c, n, v)
  /\ calls' = Append(calls, [cache |-> c, name |-> n, value |-> v, open |-> runs])
  /\ Seen((IF dict[c][n] = v THEN {"rebind"} ELSE {})
            \cup (IF Reenters(c, n) THEN {"reenter"} ELSE {}))
  /\ UNCHANGED <<live, builtins, watched>>

\* del_global_write_through up to the return of DelItem.
DelGlobal(c, n, runs) ==
  /\ UserRuns /\ c \in live
  /\ Len(calls) < MaxCalls
  /\ runs => MayRelease(c, n)
  /\ DelEntry([pending EXCEPT ![c][n] = Append(@, Null)], c, n)
  /\ calls' = Append(calls, [cache |-> c, name |-> n, value |-> Null, open |-> runs])
  /\ Seen(IF Reenters(c, n) THEN {"reenter"} ELSE {})
  /\ UNCHANGED <<live, builtins, watched>>

MissingKeepsPending(c, n) ==     \* mutant: the pending entry stays
  /\ UserRuns /\ c \in live /\ dict[c][n] = Absent
  /\ Len(pending[c][n]) < MaxPending
  /\ slot' = [slot EXCEPT ![c][n] = Null]
  /\ pending' = [pending EXCEPT ![c][n] = Append(@, Null)]
  /\ UNCHANGED <<live, dict, builtins, watched, calls, seen>>

\* DelItem fails: the pending entry is taken back, and a quiet delete clears
\* the slot (a loud one raises and changes nothing).
DelGlobalMissing(c, n) ==
  /\ UserRuns /\ c \in live /\ dict[c][n] = Absent
  /\ slot' = [slot EXCEPT ![c][n] = Null]
  /\ UNCHANGED <<live, dict, builtins, watched, pending, calls, seen>>

FinishSkipsSlot ==     \* mutant: store_borrowed_value is left to the watcher
  /\ calls # <<>>
  /\ calls' = Pop(calls)
  /\ UNCHANGED <<live, dict, builtins, watched, slot, pending, seen>>

\* SetItem or DelItem has returned: the slot gets the value, or is cleared.
Finish ==
  /\ calls # <<>>
  /\ LET f == Last(calls) IN slot' = [slot EXCEPT ![f.cache][f.name] = f.value]
  /\ calls' = Pop(calls)
  /\ UNCHANGED <<live, dict, builtins, watched, pending, seen>>

\* load_global_obj_impl, reached when the slot is Null.
LoadGlobal(c, n) ==
  /\ UserRuns /\ c \in live /\ slot[c][n] = Null
  /\ Lookup(c, n) # Null
  /\ slot' = [slot EXCEPT ![c][n] = Lookup(c, n)]
  /\ UNCHANGED <<live, dict, builtins, watched, pending, calls, seen>>

-----------------------------------------------------------------------------
\* Everybody else: code that sets or deletes module attributes or writes to
\* globals().  Before a module has a cache, its dict is filled the same way.
SetOutside(c, n, v) ==
  /\ UserRuns
  /\ SetEntry(pending, c, n, v)
  /\ Seen(IF Reenters(c, n) THEN {"reenter"} ELSE {})
  /\ UNCHANGED <<live, builtins, watched, calls>>

DelOutside(c, n) ==
  /\ UserRuns
  /\ DelEntry(pending, c, n)
  /\ Seen(IF Reenters(c, n) THEN {"reenter"} ELSE {})
  /\ UNCHANGED <<live, builtins, watched, calls>>

\* clear(), or an update of an empty dict from another one: CLEARED, CLONED.
ReplaceOutside(c, d) ==
  /\ UserRuns
  /\ (\E n \in Names : dict[c][n] # Absent) => (\A n \in Names : d[n] = Absent)
  /\ dict' = [dict EXCEPT ![c] = d]
  /\ slot' = IF c \in watched THEN [slot EXCEPT ![c] = [n \in Names |-> Null]] ELSE slot
  /\ Seen(IF \E n \in Names : Reenters(c, n) THEN {"reenter"} ELSE {})
  /\ UNCHANGED <<live, builtins, watched, pending, calls>>

\* The slots a change of builtin n invalidates.
Unshadowed(c, n) == c \in live /\ dict[c][n] = Absent

\* The builtins dict changes: one entry, or all of them (CLEARED, CLONED).
ChangeBuiltins(changed, b) ==
  /\ UserRuns
  /\ \A n \in Names : b[n] # builtins[n] => n \in changed
  /\ builtins' = b
  /\ slot' = IF Builtins \in watched
             THEN [c \in Caches |-> [n \in Names |->
                     IF n \in changed /\ Unshadowed(c, n) THEN Null ELSE slot[c][n]]]
             ELSE slot
  /\ UNCHANGED <<live, dict, watched, pending, calls, seen>>

SetBuiltin(n, v) == builtins[n] # v /\ ChangeBuiltins({n}, [builtins EXCEPT ![n] = v])
DelBuiltin(n)    == builtins[n] # Absent /\ ChangeBuiltins({n}, [builtins EXCEPT ![n] = Absent])
ClearBuiltins    == ChangeBuiltins(Names, [n \in Names |-> Absent])

WriteThrough(c, n) ==
  \/ \E v \in Values, runs \in BOOLEAN : StoreGlobal(c, n, v, runs)
  \/ \E runs \in BOOLEAN : DelGlobal(c, n, runs)
  \/ DelGlobalMissing(c, n)
  \/ LoadGlobal(c, n)

Outside(c, n) == DelOutside(c, n) \/ \E v \in Values : SetOutside(c, n, v)

Next ==
  \/ \E c \in Caches : New(c) \/ Drop(c)
  \/ \E c \in Caches, n \in Names : WriteThrough(c, n) \/ Outside(c, n)
  \/ Finish
  \/ \E c \in Caches, d \in [Names -> Values \cup {Absent}] : ReplaceOutside(c, d)
  \/ \E n \in Names : DelBuiltin(n) \/ \E v \in Values : SetBuiltin(n, v)
  \/ ClearBuiltins

Spec == Init /\ [][Next]_vars

-----------------------------------------------------------------------------
\* The cached value is the module's own: what every write to the module's
\* dict, by whomever, must keep true.
FreshFromModule(c, n) == slot[c][n] # Null /\ dict[c][n] # Absent => slot[c][n] = dict[c][n]

\* The cached value is a builtin's (or should be).
FreshFromBuiltins(c, n) ==
  slot[c][n] # Null /\ dict[c][n] = Absent => slot[c][n] = builtins[n]

\* Whenever user code runs, a slot that is not Null holds what the module's
\* dict holds: unless a store rebound an object to the name that had it
\* already, or a name was written while its store was under way.
SlotsFollowGlobals ==
  seen \cap {"rebind", "reenter"} = {} /\ UserRuns =>
    \A c \in live, n \in Names : FreshFromModule(c, n)

\* And where the module has no such name, it holds the current builtin: unless,
\* besides, a cache was dropped while another one lived.
SlotsFollowBuiltins ==
  seen = {} /\ UserRuns => \A c \in live, n \in Names : FreshFromBuiltins(c, n)

\* A store or delete uses up the pending update it announced, even when its
\* destructor ran other stores: nothing is left for a foreign event to match.
PendingIsConsumed ==
  "rebind" \notin seen => \A c \in live, n \in Names : pending[c][n] = <<>>

-----------------------------------------------------------------------------
\* soac-eval/src/module_globals.rs:556, test external_dict_mutation_updates_-
\* only_matching_slot: when others write a global, its slot follows.
ExternalWritesUpdateSlot ==
  "reenter" \notin seen /\ UserRuns =>
    \A c \in live, n \in Names : FreshFromModule(c, n)

\* soac-eval/src/jit/specialized_helpers.rs:1658, "builtins mutation should
\* invalidate unshadowed cached slots".
BuiltinsMutationInvalidates ==
  seen \cap {"rebind", "reenter"} = {} /\ UserRuns =>
    \A c \in live, n \in Names : FreshFromBuiltins(c, n)
=============================================================================
