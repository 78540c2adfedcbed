------------------------------- MODULE Handle -------------------------------
(***************************************************************************)
(* The handle table of skynet-src/skynet_handle.c: handles given to new    *)
(* contexts, the slot array they hash to, its growth, retirement one by    *)
(* one and all at once (ABORT), and the sorted table of local names.       *)
(*                                                                         *)
(* Each function's critical section of the reader-writer lock (module      *)
(* RWLock) is a step; registration, which scans and grows in turns, keeps  *)
(* the lock between its steps.  What the lock does not cover is kept apart:*)
(* skynet_context_new stores the handle in ctx->handle only after the call *)
(* returned (skynet_server.c:155), and skynet_handle_retireall tests       *)
(* slot_size without the lock, reads a slot in one section and retires it  *)
(* in the next.  A failed assertion, or a null pointer that is followed,   *)
(* ends the process.  The harbor byte is the same in all handles of a node *)
(* and is left out.                                                        *)
(***************************************************************************)
EXTENDS Integers, SequencesExt, FiniteSets

CONSTANTS
    Launcher,           \* threads that run skynet_context_new
    Ctx,                \* contexts
    Name,               \* local names, numbers in the order of strcmp
    DEFAULT_SLOT_SIZE,  \* 4 in the code
    MAX_SLOT_SIZE,      \* 0x40000000 in the code, for the names
    HANDLE_MASK,        \* 0xffffff in the code
    MaxLaunch,          \* bound: launches in a behaviour
    None

ASSUME SlotAssumption ==
    /\ DEFAULT_SLOT_SIZE \in Nat \ {0}
    /\ HANDLE_MASK \in Nat \ {0}
    /\ MAX_SLOT_SIZE \in Nat
    /\ (HANDLE_MASK + 1) % DEFAULT_SLOT_SIZE = 0
    /\ Name \subseteq Nat
    /\ MaxLaunch \in Nat
    /\ None \notin Ctx

\* 0x1000000 is a power of two: a divisor below it is one when doubled, too.
ASSUME MaskAssumption ==
    \A n \in 1 .. HANDLE_MASK :
        (HANDLE_MASK + 1) % n = 0 => (HANDLE_MASK + 1) % (2 * n) = 0

VARIABLES
    slot,           \* s->slot: 0 .. slot_size - 1 -> Ctx or None
    handle_index,
    handle,         \* ctx -> ctx->handle, 0 until the launcher assigns it
    writer,         \* the launcher that holds the lock between two steps
    launch,         \* launcher -> [ctx, handle]: the context it registers,
                    \* and the handle returned but not yet stored
    name,           \* s->name: sequence of [name, handle]
    name_cap,       \* entries there is room for
    retireall,      \* skynet_handle_retireall: [at, i, n, handle]
    fault,          \* "none", a failed "assert", or a read through "null"
    launches,       \* launches so far
    position,       \* history: handles tried in all scans that found a slot
    given,          \* history: handle -> the place among these where it was
                    \* last returned by skynet_handle_register
    early,          \* history: a growth has met a context without its handle
    targets         \* history: contexts that retireall must retire

vars == <<slot, handle_index, handle, writer, launch, name, name_cap, retireall,
          fault, launches, position, given, early, targets>>

Handles == 1 .. HANDLE_MASK
Idle == [ctx |-> None, handle |-> 0]
slot_size == Cardinality(DOMAIN slot)

\* Contexts in the table, and those among them whose launch got their handle.
Registered == {c \in Ctx : \E i \in DOMAIN slot : slot[i] = c}
Launching == {launch[t].ctx : t \in Launcher}
Running == {c \in Ctx : handle[c] # 0}

----------------------------------------------------------------------------
Init ==
    /\ slot = [i \in 0 .. DEFAULT_SLOT_SIZE - 1 |-> None]
    /\ handle_index = 1
    /\ handle = [c \in Ctx |-> 0]
    /\ writer = None
    /\ launch = [t \in Launcher |-> Idle]
    /\ name = <<>> /\ name_cap = 2
    /\ retireall = [at |-> "off", i |-> 0, n |-> 0, handle |-> 0]
    /\ fault = "none"
    /\ launches = 0
    /\ position = 0 /\ given = <<>>
    /\ early = FALSE
    /\ targets = {}

\* skynet_context_new up to the call of skynet_handle_register.
BeginLaunch(t, c) ==
    /\ launches < MaxLaunch
    /\ launch[t] = Idle
    /\ c \notin Registered \cup Launching
    /\ launch' = [launch EXCEPT ![t].ctx = c]
    /\ launches' = launches + 1
    /\ UNCHANGED <<slot, handle_index, handle, writer, name, name_cap, retireall,
                   fault, position, given, early, targets>>

Registering(t) ==
    /\ launch[t].ctx # None /\ launch[t].handle = 0
    /\ writer \in {None, t}

\* The handle that the k-th turn of the scan tries: after HANDLE_MASK comes 1.
Tried(k) == ((handle_index + k - 1) % HANDLE_MASK) + 1

Hash(h, size) == h % size

\* Its turns come past HANDLE_MASK, and then one slot is left out.
Crosses == handle_index <= HANDLE_MASK /\ handle_index + slot_size - 1 > HANDLE_MASK

FreeTurns == {k \in 0 .. slot_size - 1 : slot[Hash(Tried(k), slot_size)] = None}

\* mutant: the scan starts over at 1 each time
HandleFromOne(h) == 1

NextIndex(h) == h + 1

\* skynet_handle_register finds a free slot, the first on its way.
Register(t) ==
    /\ Registering(t)
    /\ \E k \in FreeTurns :
          LET h == Tried(k)
          IN /\ \A turn \in FreeTurns : k <= turn
             /\ slot' = [slot EXCEPT ![Hash(h, slot_size)] = launch[t].ctx]
             /\ handle_index' = NextIndex(h)
             /\ launch' = [launch EXCEPT ![t].handle = h]
             /\ given' = [g \in DOMAIN given \cup {h} |->
                             IF g = h THEN position + k ELSE given[g]]
             /\ position' = position + k + 1
    /\ writer' = None
    /\ UNCHANGED <<handle, name, name_cap, retireall, fault, launches, early, targets>>

\* mutant: contexts keep their index in the larger table
GrowInPlace(c, i) == i

\* mutant: the mask is one too small
GrowMaskShort(c, i) == Hash(handle[c] - (handle[c] % 2), 2 * slot_size)

NewHash(c, i) == Hash(handle[c], 2 * slot_size)

\* skynet_handle_register finds none: the table doubles, each context goes to
\* the slot its handle now hashes to.
Expand(t) ==
    /\ Registering(t)
    /\ FreeTurns = {}
    /\ LET old == DOMAIN slot
           goes(i) == NewHash(slot[i], i)
           null == \E i \in old : slot[i] = None
           clash == \E i, j \in old : i # j /\ goes(i) = goes(j)
       IN /\ fault' = IF 2 * slot_size - 1 > HANDLE_MASK THEN "assert"
                     ELSE IF null THEN "null"
                     ELSE IF clash THEN "assert" ELSE "none"
          /\ slot' = IF fault' # "none" THEN slot
                     ELSE [k \in 0 .. 2 * slot_size - 1 |->
                             IF \E i \in old : goes(i) = k
                             THEN slot[CHOOSE i \in old : goes(i) = k]
                             ELSE None]
          /\ early' = (early \/ \E i \in old : slot[i] # None /\ handle[slot[i]] = 0)
    /\ writer' = t
    /\ UNCHANGED <<handle_index, handle, launch, name, name_cap, retireall, launches,
                   position, given, targets>>

\* Back in skynet_context_new: ctx->handle = skynet_handle_register(ctx).
AssignHandle(t) ==
    /\ launch[t].handle # 0
    /\ handle' = [handle EXCEPT ![launch[t].ctx] = launch[t].handle]
    /\ launch' = [launch EXCEPT ![t] = Idle]
    /\ UNCHANGED <<slot, handle_index, writer, name, name_cap, retireall, fault,
                   launches, position, given, early, targets>>

\* The context a handle leads to: skynet_handle_grab, and the test of retire.
skynet_handle_grab(h) ==
    LET c == slot[Hash(h, slot_size)]
    IN IF c # None /\ handle[c] = h THEN c ELSE None

\* mutant: whatever stands in the slot is taken
GrabAny(h) == slot[Hash(h, slot_size)]

\* The compaction of skynet_handle_retire: the table after its k-th turn.
Compacted(h) ==
    LET kept[k \in 0 .. Len(name)] ==
          IF k = 0 THEN <<>>
          ELSE IF name[k].handle = h THEN kept[k - 1]
          ELSE Append(kept[k - 1], name[k])
    IN kept[Len(name)]

\* The critical section of skynet_handle_retire; the context is freed after it.
Retire(h) ==
    LET c == skynet_handle_grab(h)
    IN /\ writer = None
       /\ IF c = None
          THEN UNCHANGED <<slot, handle, name, targets>>
          ELSE /\ slot' = [slot EXCEPT ![Hash(h, slot_size)] = None]
               /\ handle' = [handle EXCEPT ![c] = 0]
               /\ name' = Compacted(h)
               /\ targets' = targets \ {c}

skynet_handle_retire(h) ==
    /\ skynet_handle_grab(h) # None
    /\ Retire(h)
    /\ UNCHANGED <<handle_index, writer, launch, name_cap, retireall, fault, launches,
                   position, given, early>>

----------------------------------------------------------------------------
\* skynet_handle_retireall: the outer loop starts.
RetireAllBegin ==
    /\ retireall.at = "off"
    /\ retireall' = [at |-> "test", i |-> 0, n |-> 0, handle |-> 0]
    /\ targets' = Running
    /\ UNCHANGED <<slot, handle_index, handle, writer, launch, name, name_cap, fault,
                   launches, position, given, early>>

\* mutant: the size is not read again
ScanSizeOnce == DEFAULT_SLOT_SIZE

ScanSize == slot_size

\* The test of the inner loop, which reads slot_size without the lock on every
\* turn, and the end of a pass.
RetireAllTest ==
    /\ retireall.at = "test"
    /\ retireall' = IF retireall.i < ScanSize THEN [retireall EXCEPT !.at = "read"]
                    ELSE IF retireall.n > 0 THEN [retireall EXCEPT !.i = 0, !.n = 0]
                    ELSE [at |-> "off", i |-> 0, n |-> 0, handle |-> 0]
    /\ targets' = IF retireall'.at = "off" THEN {} ELSE targets
    /\ UNCHANGED <<slot, handle_index, handle, writer, launch, name, name_cap, fault,
                   launches, position, given, early>>

\* The read section of a turn.
RetireAllRead ==
    /\ retireall.at = "read"
    /\ writer = None
    /\ LET c == slot[retireall.i]
           h == IF c = None THEN 0 ELSE handle[c]
       IN retireall' = [retireall EXCEPT !.at = IF h = 0 THEN "test" ELSE "retire",
                                         !.i = @ + 1, !.handle = h]
    /\ UNCHANGED <<slot, handle_index, handle, writer, launch, name, name_cap, fault,
                   launches, position, given, early, targets>>

\* The turn calls skynet_handle_retire on what it read.
RetireAllRetire ==
    /\ retireall.at = "retire"
    /\ Retire(retireall.handle)
    /\ retireall' = [retireall EXCEPT
                       !.at = "test", !.handle = 0,
                       !.n = IF skynet_handle_grab(retireall.handle) = None
                             THEN @ ELSE @ + 1]
    /\ UNCHANGED <<handle_index, writer, launch, name_cap, fault, launches,
                   position, given, early>>

----------------------------------------------------------------------------
\* The binary search of skynet_handle_findname and _insert_name, on indices
\* from 0: where n is, or where it belongs.
Search(n) ==
    LET f[r \in (0 .. Len(name)) \X (-1 .. Len(name) - 1)] ==
          LET b == r[1]
              e == r[2]
              mid == (b + e) \div 2
          IN IF b > e THEN [hit |-> FALSE, at |-> b]
             ELSE IF name[mid + 1].name = n THEN [hit |-> TRUE, at |-> mid]
             ELSE IF name[mid + 1].name < n THEN f[<<mid + 1, e>>]
             ELSE f[<<b, mid - 1>>]
    IN f[<<0, Len(name) - 1>>]

skynet_handle_findname(n) ==
    LET s == Search(n)
    IN IF s.hit THEN name[s.at + 1].handle ELSE 0

\* mutant: the new entry goes behind its place
InsertBehind(s, i, e) == InsertAt(s, IF i > Len(s) THEN i ELSE i + 1, e)

_insert_name_before(s, i, e) == InsertAt(s, i, e)

\* A taken name is refused and the table left alone; a full table doubles.
skynet_handle_namehandle(n, h) ==
    /\ writer = None
    /\ ~Search(n).hit
    /\ name_cap' = IF Len(name) >= name_cap THEN 2 * name_cap ELSE name_cap
    /\ IF name_cap' > name_cap /\ name_cap' > MAX_SLOT_SIZE
       THEN fault' = "assert" /\ UNCHANGED name
       ELSE /\ name' = _insert_name_before(name, Search(n).at + 1,
                                           [name |-> n, handle |-> h])
            /\ UNCHANGED fault
    /\ UNCHANGED <<slot, handle_index, handle, writer, launch, retireall,
                   launches, position, given, early, targets>>

----------------------------------------------------------------------------
\* A service may be given a name, or be retired, by a handle that is stale.
Next ==
    /\ fault = "none"
    /\ \/ \E t \in Launcher :
            \/ \E c \in Ctx : BeginLaunch(t, c)
            \/ Register(t)
            \/ Expand(t)
            \/ AssignHandle(t)
       \/ \E h \in Handles : skynet_handle_retire(h)
       \/ RetireAllBegin
       \/ RetireAllTest
       \/ RetireAllRead
       \/ RetireAllRetire
       \/ \E n \in Name, h \in DOMAIN given : skynet_handle_namehandle(n, h)

Spec == Init /\ [][Next]_vars

----------------------------------------------------------------------------
TypeOK ==
    /\ DOMAIN slot = 0 .. slot_size - 1
    /\ \A i \in DOMAIN slot : slot[i] \in Ctx \cup {None}
    /\ slot_size <= HANDLE_MASK + 1
    /\ handle_index \in 1 .. HANDLE_MASK + 1
    /\ handle \in [Ctx -> 0 .. HANDLE_MASK]
    /\ writer \in Launcher \cup {None}
    /\ launch \in [Launcher -> [ctx : Ctx \cup {None}, handle : 0 .. HANDLE_MASK]]
    /\ retireall \in [at : {"off", "test", "read", "retire"}, i : Nat, n : Nat,
                      handle : 0 .. HANDLE_MASK]
    /\ fault \in {"none", "assert", "null"}
    /\ launches \in 0 .. MaxLaunch
    /\ position \in Nat
    /\ DOMAIN given \subseteq Handles /\ \A h \in DOMAIN given : given[h] \in Nat
    /\ early \in BOOLEAN
    /\ targets \subseteq Ctx

(***************************************************************************)
(* Every running service is reached by its handle and by no other one,     *)
(* whatever the table has been through (skynet_handle_register's growth,   *)
(* skynet_handle_grab, skynet_handle_retire), also when handle_index has   *)
(* gone round: a lookup of the handle finds the context that was given it, *)
(* and every context stands in one slot.  Only a growth that has hashed a  *)
(* context before its launcher stored the handle (early) can break it.     *)
(* With it the types of the variables.                                     *)
(***************************************************************************)
Reachable ==
    /\ TypeOK
    /\ \A i, j \in DOMAIN slot : slot[i] = slot[j] /\ slot[i] # None => i = j
    /\ ~early =>
          /\ \A c \in Running : skynet_handle_grab(handle[c]) = c
          /\ \A t \in Launcher : launch[t].handle # 0 =>
                slot[Hash(launch[t].handle, slot_size)] = launch[t].ctx

(***************************************************************************)
(* A handle is given again only when all others have been tried since, so  *)
(* that a message or a kill sent to an old handle reaches nobody else for  *)
(* as long as there can be: skynet_handle_register goes on where the last  *)
(* scan has found its slot, through growth and when it comes round.        *)
(***************************************************************************)
NotReissued ==
    [][\A h \in DOMAIN given : given'[h] # given[h] =>
         given'[h] - given[h] >= HANDLE_MASK]_vars

(***************************************************************************)
(* The binary search finds a name exactly when it is in the table, and the *)
(* handle it was given: _insert_name keeps the table sorted and free of    *)
(* doubles, and inside of its memory, through growth and the compaction of *)
(* skynet_handle_retire.                                                   *)
(***************************************************************************)
SearchFinds ==
    /\ Len(name) <= name_cap
    /\ \A k \in DOMAIN name : name[k] \in [name : Name, handle : Handles]
    /\ \A n \in Name :
         LET holders == {name[k].handle : k \in {j \in DOMAIN name : name[j].name = n}}
         IN holders = IF skynet_handle_findname(n) = 0
                      THEN {} ELSE {skynet_handle_findname(n)}

(***************************************************************************)
(* ABORT stops the services there are: when skynet_handle_retireall        *)
(* returns, every service that ran when it was called has been retired,    *)
(* though the table may have grown under its scan and handles may have     *)
(* been given again; unless an early growth has put it where its handle    *)
(* does not lead.                                                          *)
(***************************************************************************)
RetireAllComplete ==
    [][retireall.at = "test" /\ retireall'.at = "off" /\ ~early => targets = {}]_vars

(***************************************************************************)
(* The assertions of skynet_handle_register hold, and growth finds a       *)
(* context in every slot (skynet_handle.c:62-64), but for these cases: the *)
(* table is as large as the handles allow (59); the scan came past         *)
(* HANDLE_MASK and has not looked at slot 0, as handle 0 is reserved       *)
(* (44-46); or a growth met a context without its handle, for which        *)
(* another launcher must be between the lock and the store of ctx->handle. *)
(* The assertion on names (189) fails only for too many of them.           *)
(***************************************************************************)
AssertionsHold ==
    /\ fault = "null" => Crosses /\ slot[0] = None
    /\ fault = "assert" => \/ early
                           \/ 2 * slot_size - 1 > HANDLE_MASK
                           \/ 2 * Len(name) > MAX_SLOT_SIZE
    /\ early => \E t, u \in Launcher : t # u
=============================================================================
