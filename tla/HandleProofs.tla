---------------------------- MODULE HandleProofs ----------------------------
(* Proofs about the handle table, for any launchers, contexts, mask and    *)
(* first size: where contexts stand, what stops growth, which handles are  *)
(* given, what ABORT retires, and the names.  The last section is about    *)
(* the table's lock.                                                       *)
EXTENDS Handle, RWLock, FiniteSetTheorems, SequenceTheorems, WellFoundedInduction, TLAPS

(* The table is an array of contexts, and never empty.                     *)
Table == slot_size \in Nat \ {0} /\ slot \in [0 .. slot_size - 1 -> Ctx \cup {None}]

(* A context that is launched has no handle of its own yet, and has a slot *)
(* exactly when its launcher was given the handle; whoever has a slot and  *)
(* no handle is such a context.                                            *)
LaunchInv ==
    /\ \A t \in Launcher :
         /\ launch[t].ctx = None => launch[t].handle = 0
         /\ launch[t].ctx # None => handle[launch[t].ctx] = 0
         /\ launch[t].ctx # None => (launch[t].handle # 0 <=> launch[t].ctx \in Registered)
    /\ \A t, u \in Launcher : launch[t].ctx = launch[u].ctx /\ launch[t].ctx # None => t = u
    /\ \A c \in Registered : handle[c] = 0 =>
         \E t \in Launcher : launch[t].ctx = c /\ launch[t].handle # 0
    /\ Running \subseteq Registered

TableInv ==
    /\ Table /\ Reachable /\ LaunchInv
    /\ retireall.at = "retire" => retireall.handle # 0
    /\ retireall.at = "read" => retireall.i < slot_size

-----------------------------------------------------------------------------
(* A remainder is below its divisor.                                       *)
LEMMA Remainder ==
    ASSUME NEW h \in Nat, NEW n \in Nat \ {0}
    PROVE  h % n \in 0 .. n - 1
OBVIOUS

(* Every turn of the scan tries a handle that is not 0.                    *)
LEMMA TriedOK ==
    ASSUME NEW k \in Nat, handle_index \in 1 .. HANDLE_MASK + 1
    PROVE  Tried(k) \in Handles
BY SlotAssumption, Remainder DEF Tried, Handles

(* Every handle hashes to a slot.                                          *)
LEMMA HashOK ==
    ASSUME TableInv, NEW h \in Nat
    PROVE  Hash(h, slot_size) \in 0 .. slot_size - 1
BY Remainder DEF TableInv, Table, Hash

(* An array of n slots has n of them.                                      *)
LEMMA IntervalSize ==
    ASSUME NEW n \in Nat
    PROVE  Cardinality(0 .. n - 1) = n
BY FS_Interval

(* A running context stands where its handle leads.                        *)
LEMMA RunningPlace ==
    ASSUME TableInv, ~early, NEW c \in Ctx, handle[c] # 0
    PROVE  /\ Hash(handle[c], slot_size) \in 0 .. slot_size - 1
           /\ slot[Hash(handle[c], slot_size)] = c
           /\ c \in Registered
<1>1. handle[c] \in Nat
  BY DEF TableInv, Reachable, TypeOK
<1>2. Hash(handle[c], slot_size) \in 0 .. slot_size - 1
  BY <1>1, HashOK
<1>3. skynet_handle_grab(handle[c]) = c /\ c # None
  BY SlotAssumption DEF TableInv, Reachable, Running
<1>4. slot[Hash(handle[c], slot_size)] = c
  BY <1>3 DEF skynet_handle_grab
<1> QED BY <1>2, <1>4 DEF Registered, TableInv, Table

(* The invariant speaks of these variables only.                           *)
LEMMA TableUnchanged ==
    ASSUME TableInv, UNCHANGED <<slot, handle, launch, early>>, TypeOK',
           retireall'.at = "retire" => retireall'.handle # 0,
           retireall'.at = "read" => retireall'.i < slot_size
    PROVE  TableInv'
BY DEF TableInv, Table, Reachable, LaunchInv, slot_size, Registered, Running,
       skynet_handle_grab, Hash

-----------------------------------------------------------------------------
(* A new table is right.                                                   *)
LEMMA TableInit == Init => TableInv
<1> SUFFICES ASSUME Init PROVE TableInv
  OBVIOUS
<1>1. slot_size = DEFAULT_SLOT_SIZE /\ Table
  BY IntervalSize, SlotAssumption DEF Init, Table, slot_size
<1>2. DEFAULT_SLOT_SIZE <= HANDLE_MASK + 1
  BY SlotAssumption
<1>3. TypeOK
  <2>1. DOMAIN given = {}
    BY DEF Init
  <2>2. 0 \in 0 .. HANDLE_MASK /\ 1 \in 1 .. HANDLE_MASK + 1 /\ 0 \in 0 .. MaxLaunch
    BY SlotAssumption
  <2> QED BY <1>1, <1>2, <2>1, <2>2 DEF Init, TypeOK, Idle, Table
<1>4. \A c \in Ctx : c # None /\ handle[c] = 0 /\ handle \in [Ctx -> 0 .. HANDLE_MASK]
  BY SlotAssumption DEF Init
<1>5. \A i \in DOMAIN slot : slot[i] = None
  BY DEF Init
<1>6. Registered = {} /\ Running = {}
  BY <1>4, <1>5 DEF Registered, Running
<1>7. \A t \in Launcher : launch[t].ctx = None /\ launch[t].handle = 0
  BY DEF Init, Idle
<1>8. LaunchInv
  BY <1>4, <1>6, <1>7 DEF LaunchInv
<1> QED BY <1>1, <1>3, <1>5, <1>6, <1>7, <1>8 DEF Init, TableInv, Reachable

(* skynet_context_new starts with a context that has no slot yet.          *)
LEMMA BeginStep ==
    ASSUME TableInv, NEW t \in Launcher, NEW c \in Ctx, BeginLaunch(t, c)
    PROVE  TableInv'
<1>1. /\ UNCHANGED <<slot, handle_index, handle, writer, name, retireall, fault,
                       position, given, early, targets>>
      /\ launches' \in 0 .. MaxLaunch /\ slot_size' = slot_size
  BY SlotAssumption DEF BeginLaunch, TableInv, Reachable, TypeOK, slot_size
<1>2. /\ launch' = [launch EXCEPT ![t] = [ctx |-> c, handle |-> 0]]
      /\ launch' \in [Launcher -> [ctx : Ctx \cup {None}, handle : 0 .. HANDLE_MASK]]
  <2>1. launch \in [Launcher -> [ctx : Ctx \cup {None}, handle : 0 .. HANDLE_MASK]]
    BY DEF TableInv, Reachable, TypeOK
  <2>2. launch' = [launch EXCEPT ![t].ctx = c] /\ launch[t] = [ctx |-> None, handle |-> 0]
    BY DEF BeginLaunch, Idle
  <2>3. launch' = [launch EXCEPT ![t] = [ctx |-> c, handle |-> 0]]
    <3>1. [launch[t] EXCEPT !.ctx = c] = [ctx |-> c, handle |-> 0]
      BY <2>2
    <3> QED BY <2>2, <3>1
  <2>4. [ctx |-> c, handle |-> 0] \in [ctx : Ctx \cup {None}, handle : 0 .. HANDLE_MASK]
    BY SlotAssumption
  <2> QED BY <2>1, <2>3, <2>4
<1>3. TypeOK'
  BY <1>1, <1>2 DEF TableInv, Reachable, TypeOK, Handles
<1>4. handle[c] = 0 /\ c \notin Registered /\ c # None
  BY SlotAssumption DEF BeginLaunch, TableInv, LaunchInv, Running
<1>5. launch[t].handle = 0 /\ \A u \in Launcher :
        launch'[u] = IF u = t THEN [ctx |-> c, handle |-> 0] ELSE launch[u]
  BY <1>2 DEF BeginLaunch, Idle, TableInv, Reachable, TypeOK
<1>6. Registered' = Registered /\ Running' = Running
  BY <1>1 DEF Registered, Running
<1>7. LaunchInv'
  <2>1. \A u \in Launcher : launch[u].ctx # c
    BY DEF BeginLaunch, Launching
  <2> QED BY <1>1, <1>4, <1>5, <1>6, <2>1 DEF LaunchInv, TableInv
<1>8. \A u \in Launcher : launch'[u].handle # 0 => launch'[u] = launch[u]
  BY <1>5
<1>9. Reachable'
  BY <1>1, <1>3, <1>8 DEF TableInv, Reachable, Running, skynet_handle_grab, Hash
<1> QED BY <1>1, <1>7, <1>9 DEF TableInv, Table

(* A registration fills a slot that was free.                              *)
LEMMA RegisterStep ==
    ASSUME TableInv, NEW t \in Launcher, Register(t)
    PROVE  TableInv'
<1>1. PICK k \in FreeTurns :
        /\ slot' = [slot EXCEPT ![Hash(Tried(k), slot_size)] = launch[t].ctx]
        /\ handle_index' = Tried(k) + 1
        /\ launch' = [launch EXCEPT ![t].handle = Tried(k)]
        /\ given' = [g \in DOMAIN given \cup {Tried(k)} |->
                       IF g = Tried(k) THEN position + k ELSE given[g]]
        /\ position' = position + k + 1
  BY DEF Register, NextIndex
<1> DEFINE h == Tried(k)
           p == Hash(Tried(k), slot_size)
           c == launch[t].ctx
<1>2. h \in Handles /\ slot[p] = None
  BY <1>1, TriedOK DEF FreeTurns, TableInv, Table, Reachable, TypeOK
<1>3. p \in 0 .. slot_size - 1
  <2>1. h \in Nat
    BY <1>2 DEF Handles
  <2> QED BY <2>1, HashOK
<1>4. c \in Ctx /\ c # None /\ c \notin Registered /\ handle[c] = 0 /\ launch[t].handle = 0
  BY DEF Register, Registering, TableInv, LaunchInv, Reachable, TypeOK
<1> HIDE DEF h, p, c
<1>5. slot' = [slot EXCEPT ![p] = c] /\ launch' = [launch EXCEPT ![t].handle = h]
  BY <1>1 DEF h, p, c
<1>6. slot' \in [0 .. slot_size - 1 -> Ctx \cup {None}] /\ slot_size' = slot_size
  BY <1>3, <1>4, <1>5 DEF TableInv, Table, slot_size
<1>7. Table'
  BY <1>6 DEF TableInv, Table
<1>8. TypeOK'
  <2>1. launch' \in [Launcher -> [ctx : Ctx \cup {None}, handle : 0 .. HANDLE_MASK]]
    <3>1. launch \in [Launcher -> [ctx : Ctx \cup {None}, handle : 0 .. HANDLE_MASK]]
      BY DEF TableInv, Reachable, TypeOK
    <3>2. [launch[t] EXCEPT !.handle = h] = [ctx |-> launch[t].ctx, handle |-> h]
      BY <3>1
    <3>3. h \in 0 .. HANDLE_MASK
      BY <1>2 DEF Handles
    <3>4. launch' = [launch EXCEPT ![t] = [ctx |-> launch[t].ctx, handle |-> h]]
      BY <1>5, <3>2
    <3>5. [ctx |-> launch[t].ctx, handle |-> h] \in
             [ctx : Ctx \cup {None}, handle : 0 .. HANDLE_MASK]
      BY <3>1, <3>3
    <3> QED BY <3>1, <3>4, <3>5
  <2>2. handle_index' \in 1 .. HANDLE_MASK + 1
    <3>1. handle_index' = h + 1
      BY <1>1 DEF h
    <3> QED BY <1>2, <3>1, SlotAssumption DEF Handles
  <2>3. /\ position' \in Nat /\ DOMAIN given' \subseteq Handles
        /\ \A g \in DOMAIN given' : given'[g] \in Nat
    <3>1. k \in Nat /\ position \in Nat /\ DOMAIN given \subseteq Handles
          /\ \A g \in DOMAIN given : given[g] \in Nat
      BY DEF FreeTurns, TableInv, Reachable, TypeOK, Table
    <3>2. DOMAIN given' = DOMAIN given \cup {h}
          /\ \A g \in DOMAIN given' : given'[g] = IF g = h THEN position + k ELSE given[g]
      BY <1>1 DEF h
    <3> QED BY <1>1, <1>2, <3>1, <3>2
  <2>4. writer' = None /\ UNCHANGED <<handle, retireall, fault, launches, early, targets>>
    BY DEF Register
  <2> QED BY <1>6, <2>1, <2>2, <2>3, <2>4 DEF TableInv, Table, Reachable, TypeOK
<1>9. launch'[t] = [ctx |-> c, handle |-> h] /\ \A u \in Launcher \ {t} : launch'[u] = launch[u]
  BY <1>5 DEF TableInv, Reachable, TypeOK, c
<1>10. handle' = handle /\ early' = early
  BY DEF Register
<1>11. \A i \in 0 .. slot_size - 1 : slot[i] # c /\ slot'[i] = IF i = p THEN c ELSE slot[i]
  BY <1>4, <1>5 DEF TableInv, Table, Registered
<1>12. Registered' = Registered \cup {c}
  BY <1>2, <1>3, <1>4, <1>6, <1>11, SlotAssumption DEF Registered, TableInv, Table
<1>13. h # 0 /\ p = Hash(h, slot_size')
  BY <1>2, <1>6 DEF h, p, Handles
<1>14. LaunchInv'
  <2>1. \A u \in Launcher \ {t} : launch[u].ctx # c
    BY <1>4 DEF LaunchInv, TableInv, c
  <2>2. \A u \in Launcher : launch'[u].ctx = launch[u].ctx
    BY <1>9 DEF c
  <2>3. Running' = Running
    BY <1>10 DEF Running
  <2>4. \A d \in Registered' : handle'[d] = 0 =>
           \E u \in Launcher : launch'[u].ctx = d /\ launch'[u].handle # 0
    <3> TAKE d \in Registered'
    <3>1. CASE d = c
      BY <1>9, <1>13, <3>1
    <3>2. CASE d # c
      BY <1>9, <1>10, <1>12, <3>2 DEF LaunchInv, TableInv, c
    <3> QED BY <3>1, <3>2
  <2> QED BY <1>4, <1>9, <1>10, <1>12, <1>13, <2>1, <2>2, <2>3, <2>4 DEF LaunchInv, TableInv
<1>15. ASSUME NEW d \in Running', ~early PROVE skynet_handle_grab(handle[d])' = d
  <2>1. d \in Ctx /\ handle[d] # 0
    BY <1>10 DEF Running
  <2>2. Hash(handle[d], slot_size)' = Hash(handle[d], slot_size)
    BY <1>6, <1>10 DEF Hash
  <2>3. slot'[Hash(handle[d], slot_size)] = d /\ d # None
    BY <1>2, <1>11, <1>15, <2>1, RunningPlace, SlotAssumption
  <2> QED BY <1>10, <2>2, <2>3 DEF skynet_handle_grab
<1>16. \A i, j \in DOMAIN slot' : slot'[i] = slot'[j] /\ slot'[i] # None => i = j
  BY <1>6, <1>11 DEF TableInv, Table, Reachable
<1>17. ASSUME NEW u \in Launcher, launch'[u].handle # 0, ~early
       PROVE  slot'[Hash(launch[u].handle, slot_size)'] = launch'[u].ctx
  <2>1. CASE u = t
    BY <1>3, <1>9, <1>11, <1>13, <1>6, <2>1 DEF Hash
  <2>2. CASE u # t
    <3>1. launch'[u] = launch[u] /\ launch[u].handle \in Nat
      BY <1>9, <2>2 DEF TableInv, Reachable, TypeOK
    <3>2. slot[Hash(launch[u].handle, slot_size)] = launch[u].ctx /\ launch[u].ctx # None
      BY <1>17, <3>1 DEF TableInv, Reachable, LaunchInv
    <3>3. Hash(launch[u].handle, slot_size) \in 0 .. slot_size - 1
      BY <3>1, HashOK
    <3> QED BY <1>2, <1>6, <1>11, <3>1, <3>2, <3>3 DEF Hash
  <2> QED BY <2>1, <2>2
<1>18. retireall' = retireall
  BY DEF Register
<1> QED BY <1>6, <1>7, <1>8, <1>10, <1>14, <1>15, <1>16, <1>17, <1>18
        DEF TableInv, Reachable

(* Growth moves every context to the slot that its handle now hashes to.   *)
LEMMA Grown ==
    ASSUME TableInv, NEW t \in Launcher, Expand(t), fault' = "none"
    PROVE  /\ slot_size' = 2 * slot_size /\ 2 * slot_size - 1 <= HANDLE_MASK
           /\ Table' /\ Registered' = Registered
           /\ \A i \in 0 .. slot_size - 1 :
                slot'[Hash(handle[slot[i]], 2 * slot_size)] = slot[i]
           /\ \A k \in 0 .. slot_size' - 1 : slot'[k] # None =>
                \E i \in 0 .. slot_size - 1 :
                   Hash(handle[slot[i]], 2 * slot_size) = k /\ slot'[k] = slot[i]
<1> DEFINE N == slot_size
           goes(i) == Hash(handle[slot[i]], 2 * N)
           at(k) == CHOOSE i \in DOMAIN slot : goes(i) = k
<1>1. /\ 2 * N - 1 <= HANDLE_MASK
      /\ \A i \in DOMAIN slot : slot[i] # None
      /\ \A i, j \in DOMAIN slot : i # j => goes(i) # goes(j)
      /\ slot' = [k \in 0 .. 2 * N - 1 |->
                    IF \E i \in DOMAIN slot : goes(i) = k
                    THEN slot[CHOOSE i \in DOMAIN slot : goes(i) = k]
                    ELSE None]
  BY SlotAssumption DEF Expand, NewHash, TableInv, Table
<1>2. N \in Nat \ {0} /\ DOMAIN slot = 0 .. N - 1 /\ slot \in [0 .. N - 1 -> Ctx \cup {None}]
  BY DEF TableInv, Table
<1>4. \A i \in 0 .. N - 1 : slot[i] \in Ctx /\ handle[slot[i]] \in Nat
  BY <1>1, <1>2 DEF TableInv, Reachable, TypeOK
<1>5. \A i \in 0 .. N - 1 : goes(i) \in 0 .. 2 * N - 1
  <2>1. \A h \in Nat : h % (2 * N) \in 0 .. 2 * N - 1
    BY <1>2, Remainder
  <2>2. \A i \in 0 .. N - 1 : handle[slot[i]] \in Nat
    BY <1>4
  <2> QED BY <2>1, <2>2 DEF Hash
<1>6. \A i \in 0 .. N - 1 : slot'[goes(i)] = slot[i]
  <2> SUFFICES ASSUME NEW i \in 0 .. N - 1 PROVE slot'[goes(i)] = slot[i]
    OBVIOUS
  <2>1. at(goes(i)) \in DOMAIN slot /\ goes(at(goes(i))) = goes(i)
    BY <1>2
  <2>2. at(goes(i)) = i
    BY <1>1, <1>2, <2>1
  <2>3. slot'[goes(i)] = slot[at(goes(i))]
    BY <1>1, <1>2, <1>5
  <2> QED BY <2>2, <2>3
<1>7. \A k \in 0 .. 2 * N - 1 : slot'[k] # None =>
         \E i \in 0 .. N - 1 : goes(i) = k /\ slot'[k] = slot[i]
  <2> SUFFICES ASSUME NEW k \in 0 .. 2 * N - 1, slot'[k] # None
               PROVE  \E i \in 0 .. N - 1 : goes(i) = k
    BY <1>6
  <2> QED BY <1>1, <1>2
<1> HIDE DEF goes, at
<1>8. DOMAIN slot' = 0 .. 2 * N - 1 /\ slot' \in [0 .. 2 * N - 1 -> Ctx \cup {None}]
  <2>1. DOMAIN slot' = 0 .. 2 * N - 1 /\ slot' = [k \in 0 .. 2 * N - 1 |-> slot'[k]]
    BY <1>1
  <2>2. \A k \in 0 .. 2 * N - 1 : slot'[k] \in Ctx \cup {None}
    BY <1>4, <1>7
  <2> QED BY <2>1, <2>2
<1>9. slot_size' = 2 * N
  BY <1>2, <1>8, IntervalSize DEF slot_size
<1>10. Table'
  BY <1>2, <1>8, <1>9 DEF Table
<1>11. Registered' = Registered
  <2>1. \A i \in 0 .. N - 1 : goes(i) \in DOMAIN slot' /\ slot'[goes(i)] = slot[i]
    BY <1>5, <1>6, <1>8
  <2>2. \A c \in Ctx : c # None
    BY SlotAssumption
  <2> QED BY <1>2, <1>7, <1>8, <2>1, <2>2 DEF Registered
<1> QED BY <1>1, <1>6, <1>7, <1>9, <1>10, <1>11 DEF goes

(* Growth keeps every context reachable, or fails an assertion.            *)
LEMMA ExpandStep ==
    ASSUME TableInv, NEW t \in Launcher, Expand(t)
    PROVE  TableInv'
<1> DEFINE N == slot_size
           goes(i) == Hash(handle[slot[i]], 2 * N)
<1>1. UNCHANGED <<handle_index, handle, launch, name, retireall, launches, position,
                  given, targets>>
      /\ writer' = t /\ fault' \in {"none", "assert", "null"}
      /\ early' = (early \/ \E i \in DOMAIN slot : slot[i] # None /\ handle[slot[i]] = 0)
      /\ early' \in BOOLEAN /\ (early => early')
  BY DEF Expand
<1>2. CASE fault' # "none"
  <2>1. slot' = slot
    BY <1>2 DEF Expand
  <2>2. TypeOK'
    BY <1>1, <2>1 DEF TableInv, Reachable, TypeOK, slot_size, Handles
  <2>3. slot_size' = slot_size /\ Registered' = Registered /\ Running' = Running
    BY <1>1, <2>1 DEF slot_size, Registered, Running
  <2>4. LaunchInv' /\ Reachable'
    BY <1>1, <2>1, <2>2, <2>3 DEF TableInv, LaunchInv, Reachable, skynet_handle_grab, Hash
  <2> QED BY <1>1, <2>1, <2>3, <2>4 DEF TableInv, Table
<1>3. CASE fault' = "none"
  <2>1. /\ slot_size' = 2 * N /\ 2 * N - 1 <= HANDLE_MASK
        /\ Table' /\ Registered' = Registered
        /\ \A i \in 0 .. N - 1 : slot'[goes(i)] = slot[i]
        /\ \A k \in 0 .. slot_size' - 1 : slot'[k] # None =>
             \E i \in 0 .. N - 1 : goes(i) = k /\ slot'[k] = slot[i]
    BY <1>3, Grown
  <2> HIDE DEF goes
  <2>2. N \in Nat \ {0} /\ DOMAIN slot' = 0 .. slot_size' - 1
    BY <2>1 DEF TableInv, Table
  <2>4. TypeOK'
    <3>1. slot_size' <= HANDLE_MASK + 1
      BY <2>1, <2>2, SlotAssumption
    <3>2. \A i \in DOMAIN slot' : slot'[i] \in Ctx \cup {None}
      BY <2>1 DEF Table
    <3>3. writer' \in Launcher \cup {None}
      BY <1>1
    <3> QED BY <1>1, <2>2, <3>1, <3>2, <3>3 DEF TableInv, Reachable, TypeOK, Handles
  <2>5. LaunchInv'
    <3>1. Running' = Running
      BY <1>1 DEF Running
    <3> QED BY <1>1, <2>1, <3>1 DEF LaunchInv, TableInv
  <2>6. ASSUME NEW c \in Running', ~early' PROVE skynet_handle_grab(handle[c])' = c
    <3>1. c \in Ctx /\ handle[c] # 0 /\ c # None
      BY <1>1, SlotAssumption DEF Running
    <3>2. PICK i \in 0 .. N - 1 : slot[i] = c
      BY <1>1, <2>6, <3>1, RunningPlace
    <3>3. goes(i) = Hash(handle[c], 2 * N)
      BY <3>2 DEF goes
    <3>4. Hash(handle[c], slot_size)' = Hash(handle[c], 2 * N)
      BY <1>1, <2>1 DEF Hash
    <3>5. slot'[Hash(handle[c], 2 * N)] = c
      BY <2>1, <3>2, <3>3
    <3> QED BY <1>1, <3>1, <3>4, <3>5 DEF skynet_handle_grab
  <2>7. \A i, j \in DOMAIN slot' : slot'[i] = slot'[j] /\ slot'[i] # None => i = j
    BY <2>1, <2>2 DEF TableInv, Reachable, Table
  <2>8. ASSUME NEW u \in Launcher, launch'[u].handle # 0, ~early' PROVE FALSE
    <3>1. PICK i \in DOMAIN slot : slot[i] = launch[u].ctx
      BY <1>1, <2>8 DEF TableInv, LaunchInv, Registered
    <3>2. slot[i] # None /\ handle[slot[i]] = 0
      BY <1>1, <2>8, <3>1 DEF TableInv, LaunchInv
    <3> QED BY <1>1, <2>8, <3>2
  <2>9. retireall'.at = "read" => retireall'.i < slot_size'
    <3>1. retireall.i \in Nat
      BY DEF TableInv, Reachable, TypeOK
    <3> QED BY <1>1, <2>1, <2>2, <3>1 DEF TableInv
  <2> QED BY <1>1, <2>1, <2>4, <2>5, <2>6, <2>7, <2>8, <2>9 DEF TableInv, Reachable
<1> QED BY <1>2, <1>3

(* The handle is stored in the context that holds its slot.                *)
LEMMA AssignStep ==
    ASSUME TableInv, NEW t \in Launcher, AssignHandle(t)
    PROVE  TableInv'
<1> DEFINE c == launch[t].ctx
           h == launch[t].handle
<1>1. /\ c \in Ctx /\ c # None /\ h \in Handles /\ handle[c] = 0 /\ c \in Registered
      /\ ~early => slot[Hash(h, slot_size)] = c
  BY DEF AssignHandle, TableInv, LaunchInv, Reachable, TypeOK, Handles
<1>2. handle' = [handle EXCEPT ![c] = h] /\ launch' = [launch EXCEPT ![t] = Idle]
      /\ slot' = slot /\ slot_size' = slot_size /\ retireall' = retireall /\ early' = early
  BY DEF AssignHandle, slot_size
<1>3. handle \in [Ctx -> 0 .. HANDLE_MASK]
  BY DEF TableInv, Reachable, TypeOK
<1>u. \A u \in Launcher \ {t} : launch[u].ctx # c
  BY <1>1 DEF TableInv, LaunchInv
<1> HIDE DEF c, h
<1>4. TypeOK'
  BY <1>1, <1>2, <1>3, SlotAssumption DEF AssignHandle, TableInv, Reachable, TypeOK, Idle, Handles
<1>5. /\ launch'[t] = Idle /\ Idle.ctx = None /\ Idle.handle = 0
      /\ \A u \in Launcher \ {t} : launch'[u] = launch[u]
  BY <1>2 DEF Idle, TableInv, Reachable, TypeOK
<1>6. \A d \in Ctx : handle'[d] = IF d = c THEN h ELSE handle[d]
  BY <1>2, <1>3
<1>7. Registered' = Registered /\ None \notin Registered
  BY <1>2, SlotAssumption DEF Registered
<1>8. LaunchInv'
  <2>1. \A d \in Registered : handle'[d] = 0 =>
           \E u \in Launcher : launch'[u].ctx = d /\ launch'[u].handle # 0
    <3> SUFFICES ASSUME NEW d \in Registered, handle'[d] = 0
                 PROVE  \E u \in Launcher : launch'[u].ctx = d /\ launch'[u].handle # 0
      OBVIOUS
    <3>1. d \in Ctx /\ d # c /\ handle[d] = 0
      BY <1>1, <1>6 DEF Registered, Handles
    <3>2. PICK u \in Launcher : launch[u].ctx = d /\ launch[u].handle # 0
      BY <3>1 DEF TableInv, LaunchInv
    <3> QED BY <1>5, <3>1, <3>2 DEF c
  <2>2. Running' \subseteq Registered'
    BY <1>1, <1>6, <1>7 DEF Running, TableInv, LaunchInv
  <2>3. \A u \in Launcher : launch'[u].ctx # None => u # t /\ launch'[u].ctx \in Ctx
    BY <1>5 DEF TableInv, Reachable, TypeOK
  <2> QED BY <1>u, <1>5, <1>6, <1>7, <2>1, <2>2, <2>3 DEF TableInv, LaunchInv
<1>9. ASSUME NEW d \in Running', ~early PROVE skynet_handle_grab(handle[d])' = d
  <2>1. d \in Ctx /\ handle'[d] # 0 /\ d # None
    BY SlotAssumption DEF Running
  <2>2. slot[Hash(handle'[d], slot_size)] = d
    BY <1>1, <1>6, <1>9, <2>1, RunningPlace
  <2> QED BY <1>2, <2>1, <2>2 DEF skynet_handle_grab, Hash
<1>10. ASSUME NEW u \in Launcher, launch'[u].handle # 0, ~early
       PROVE  slot'[Hash(launch[u].handle, slot_size)'] = launch'[u].ctx
  BY <1>2, <1>5, <1>10 DEF Hash, TableInv, Reachable
<1> QED BY <1>2, <1>4, <1>8, <1>9, <1>10 DEF TableInv, Table, Reachable

(* The critical section of retire, whoever calls it.                       *)
LEMMA RetireKeeps ==
    ASSUME TableInv, NEW h \in Handles, Retire(h), UNCHANGED <<launch, early>>, TypeOK',
           retireall'.at = "retire" => retireall'.handle # 0,
           retireall'.at = "read" => retireall'.i < slot_size
    PROVE  TableInv'
<1>1. CASE skynet_handle_grab(h) = None
  BY <1>1, TableUnchanged DEF Retire
<1>2. CASE skynet_handle_grab(h) # None
  <2> DEFINE p == Hash(h, slot_size)
             c == slot[p]
  <2>1. /\ p \in 0 .. slot_size - 1 /\ c \in Ctx /\ handle[c] = h /\ c # None /\ h # 0
        /\ slot' = [slot EXCEPT ![p] = None] /\ handle' = [handle EXCEPT ![c] = 0]
    BY <1>2, Remainder DEF Retire, skynet_handle_grab, Hash, TableInv, Table, Handles
  <2> HIDE DEF p, c
  <2>2. slot' \in [0 .. slot_size - 1 -> Ctx \cup {None}] /\ slot_size' = slot_size
    BY <2>1 DEF TableInv, Table, slot_size
  <2>3. Table'
    BY <2>2 DEF TableInv, Table
  <2>4. /\ \A i \in 0 .. slot_size - 1 : slot'[i] = IF i = p THEN None ELSE slot[i]
        /\ \A d \in Ctx : handle'[d] = IF d = c THEN 0 ELSE handle[d]
        /\ slot[p] = c
    BY <2>1 DEF TableInv, Table, Reachable, TypeOK, c
  <2>5. \A i \in 0 .. slot_size - 1 : slot[i] = c => i = p
    BY <2>1, <2>4 DEF TableInv, Table, Reachable
  <2>6. Registered' = Registered \ {c}
    BY <2>1, <2>2, <2>4, <2>5, SlotAssumption DEF Registered, TableInv, Table
  <2>7. \A t \in Launcher : launch[t].ctx # c
    BY <2>1 DEF TableInv, LaunchInv
  <2>8. LaunchInv'
    <3>1. \A d \in Registered' : d \in Registered /\ handle'[d] = handle[d]
      BY <2>4, <2>6 DEF Registered
    <3>2. \A t \in Launcher : launch[t].ctx # None => handle'[launch[t].ctx] = 0
      BY <2>4, <2>7 DEF TableInv, LaunchInv, Reachable, TypeOK
    <3>3. launch' = launch
      OBVIOUS
    <3>4. Running' \subseteq Registered'
      BY <2>4, <2>6 DEF Running, TableInv, LaunchInv
    <3> QED BY <2>6, <2>7, <3>1, <3>2, <3>3, <3>4 DEF TableInv, LaunchInv
  <2>9. ASSUME NEW d \in Running', ~early PROVE skynet_handle_grab(handle[d])' = d
    <3>1. d \in Ctx /\ d # c /\ handle'[d] = handle[d] /\ handle[d] # 0 /\ d # None
      BY <2>4, SlotAssumption DEF Running
    <3>2. slot'[Hash(handle[d], slot_size)] = d
      BY <2>4, <2>9, <3>1, RunningPlace
    <3> QED BY <2>2, <3>1, <3>2 DEF skynet_handle_grab, Hash
  <2>10. \A i, j \in DOMAIN slot' : slot'[i] = slot'[j] /\ slot'[i] # None => i = j
    BY <2>2, <2>4 DEF TableInv, Table, Reachable
  <2>11. ASSUME NEW t \in Launcher, launch'[t].handle # 0, ~early
         PROVE  slot'[Hash(launch[t].handle, slot_size)'] = launch'[t].ctx
    <3>1. Hash(launch[t].handle, slot_size) \in 0 .. slot_size - 1
      <4>1. launch[t].handle \in Nat
        BY DEF TableInv, Reachable, TypeOK
      <4> QED BY <4>1, HashOK
    <3>2. slot[Hash(launch[t].handle, slot_size)] = launch[t].ctx
      BY <2>11 DEF TableInv, Reachable
    <3> QED BY <2>2, <2>4, <2>7, <3>1, <3>2 DEF Hash
  <2> QED BY <2>2, <2>3, <2>8, <2>9, <2>10, <2>11 DEF TableInv, Reachable
<1> QED BY <1>1, <1>2

(* The types of what a retirement changes.                                 *)
LEMMA RetireTypes ==
    ASSUME TableInv, NEW h \in Handles, Retire(h)
    PROVE  /\ DOMAIN slot' = 0 .. slot_size' - 1 /\ slot_size' = slot_size
           /\ \A i \in DOMAIN slot' : slot'[i] \in Ctx \cup {None}
           /\ handle' \in [Ctx -> 0 .. HANDLE_MASK]
           /\ targets' \subseteq Ctx
<1>1. /\ targets' \subseteq targets
      /\ slot' = slot \/ slot' = [slot EXCEPT ![Hash(h, slot_size)] = None]
      /\ handle' = handle \/ handle' = [handle EXCEPT ![skynet_handle_grab(h)] = 0]
  BY DEF Retire
<1>2. DOMAIN slot' = DOMAIN slot /\ \A i \in DOMAIN slot : slot'[i] \in {slot[i], None}
  BY <1>1
<1>3. slot_size' = slot_size
  BY <1>2 DEF slot_size
<1>4. handle' \in [Ctx -> 0 .. HANDLE_MASK]
  BY <1>1, SlotAssumption DEF TableInv, Reachable, TypeOK
<1> QED BY <1>1, <1>2, <1>3, <1>4 DEF TableInv, Reachable, TypeOK

(* The types of what a turn of retireall changes.                          *)
LEMMA RetireAllTypes ==
    ASSUME TableInv, RetireAllBegin \/ RetireAllTest \/ RetireAllRead
    PROVE  /\ TypeOK'
           /\ retireall'.at = "retire" => retireall'.handle # 0
           /\ retireall'.at = "read" => retireall'.i < slot_size
<1> DEFINE At == [at : {"off", "test", "read", "retire"}, i : Nat, n : Nat,
                  handle : 0 .. HANDLE_MASK]
<1>1. retireall \in At /\ 0 \in 0 .. HANDLE_MASK
  BY SlotAssumption DEF TableInv, Reachable, TypeOK
<1>2. /\ retireall' \in At
      /\ retireall'.at = "retire" => retireall'.handle # 0
      /\ retireall'.at = "read" => retireall'.i < slot_size
  <2>1. CASE RetireAllBegin
    BY <1>1, <2>1 DEF RetireAllBegin
  <2>2. CASE RetireAllTest
    <3>1. CASE retireall.i < slot_size
      <4>1. retireall' = [at |-> "read", i |-> retireall.i, n |-> retireall.n,
                          handle |-> retireall.handle]
        BY <1>1, <2>2, <3>1 DEF RetireAllTest, ScanSize
      <4> QED BY <1>1, <3>1, <4>1
    <3>2. CASE ~ (retireall.i < slot_size)
      <4>1. \/ retireall' = [at |-> "test", i |-> 0, n |-> 0, handle |-> retireall.handle]
            \/ retireall' = [at |-> "off", i |-> 0, n |-> 0, handle |-> 0]
        BY <1>1, <2>2, <3>2 DEF RetireAllTest, ScanSize
      <4> QED BY <1>1, <4>1
    <3> QED BY <3>1, <3>2
  <2>3. CASE RetireAllRead
    <3> DEFINE r == slot[retireall.i]
               g == IF r = None THEN 0 ELSE handle[r]
    <3>1. g \in 0 .. HANDLE_MASK
      BY <1>1, <2>3 DEF TableInv, Table, Reachable, TypeOK, RetireAllRead
    <3>2. retireall' = [retireall EXCEPT !.at = IF g = 0 THEN "test" ELSE "retire",
                                         !.i = @ + 1, !.handle = g]
      BY <2>3 DEF RetireAllRead
    <3> HIDE DEF g
    <3>3. retireall' = [at |-> IF g = 0 THEN "test" ELSE "retire",
                        i |-> retireall.i + 1, n |-> retireall.n, handle |-> g]
      BY <1>1, <3>2
    <3>4. retireall.i + 1 \in Nat /\ retireall.n \in Nat
      BY <1>1
    <3> QED BY <3>1, <3>3, <3>4
  <2> QED BY <2>1, <2>2, <2>3
<1>3. /\ UNCHANGED <<slot, handle_index, handle, writer, launch, fault, launches,
                     position, given, early>>
      /\ targets' \subseteq Ctx /\ slot_size' = slot_size
  BY DEF RetireAllBegin, RetireAllTest, RetireAllRead, slot_size, TableInv, Reachable,
         TypeOK, Running
<1> HIDE DEF At
<1>4. TypeOK'
  BY <1>2, <1>3 DEF TableInv, Reachable, TypeOK, At
<1> QED BY <1>2, <1>4

(* Every step keeps the table right.                                       *)
LEMMA TableStep == TableInv /\ [Next]_vars => TableInv'
<1> SUFFICES ASSUME TableInv, [Next]_vars PROVE TableInv'
  OBVIOUS
<1>1. ASSUME NEW t \in Launcher,
             (\E c \in Ctx : BeginLaunch(t, c)) \/ Register(t) \/ Expand(t) \/ AssignHandle(t)
      PROVE  TableInv'
  BY <1>1, BeginStep, RegisterStep, ExpandStep, AssignStep
<1>2. ASSUME NEW h \in Handles, skynet_handle_retire(h)
      PROVE  TableInv'
  <2>1. Retire(h) /\ UNCHANGED <<handle_index, writer, launch, retireall, fault,
                                 launches, position, given, early>>
    BY <1>2 DEF skynet_handle_retire
  <2>2. TypeOK'
    BY <2>1, RetireTypes DEF TableInv, Reachable, TypeOK, Handles
  <2> QED BY <2>1, <2>2, RetireKeeps DEF TableInv
<1>3. CASE RetireAllBegin \/ RetireAllTest \/ RetireAllRead
  BY <1>3, RetireAllTypes, TableUnchanged DEF RetireAllBegin, RetireAllTest, RetireAllRead
<1>4. CASE RetireAllRetire
  <2>1. retireall.handle \in Handles
    BY <1>4 DEF RetireAllRetire, TableInv, Reachable, TypeOK, Handles
  <2>2. /\ UNCHANGED <<handle_index, writer, launch, fault, launches, position, given, early>>
        /\ Retire(retireall.handle)
        /\ retireall'.at = "test"
        /\ retireall' \in [at : {"off", "test", "read", "retire"}, i : Nat, n : Nat,
                           handle : 0 .. HANDLE_MASK]
    <3>1. /\ UNCHANGED <<handle_index, writer, launch, fault, launches, position, given, early>>
          /\ Retire(retireall.handle)
      BY <1>4 DEF RetireAllRetire
    <3>2. \E k \in {retireall.n, retireall.n + 1} : retireall' =
            [at |-> "test", i |-> retireall.i, n |-> k, handle |-> 0]
      BY <1>4 DEF RetireAllRetire, TableInv, Reachable, TypeOK
    <3>3. retireall.i \in Nat /\ retireall.n \in Nat /\ 0 \in 0 .. HANDLE_MASK
      BY SlotAssumption DEF TableInv, Reachable, TypeOK
    <3> QED BY <3>1, <3>2, <3>3
  <2>3. TypeOK'
    BY <2>1, <2>2, RetireTypes DEF TableInv, Reachable, TypeOK, Handles
  <2> QED BY <2>1, <2>2, <2>3, RetireKeeps
<1>5. ASSUME NEW n \in Name, NEW h \in DOMAIN given, skynet_handle_namehandle(n, h)
      PROVE  TableInv'
  <2>1. UNCHANGED <<slot, handle_index, handle, writer, launch, retireall,
                    launches, position, given, early, targets>>
        /\ fault' \in {fault, "assert"}
    BY <1>5 DEF skynet_handle_namehandle
  <2>2. TypeOK'
    BY <2>1 DEF TableInv, Reachable, TypeOK, slot_size, Handles
  <2> QED BY <2>1, <2>2, TableUnchanged DEF TableInv
<1>6. CASE UNCHANGED vars
  <2>1. TypeOK'
    BY <1>6 DEF TableInv, Reachable, TypeOK, slot_size, Handles, vars
  <2> QED BY <1>6, <2>1, TableUnchanged DEF TableInv, vars
<1> QED BY <1>1, <1>2, <1>3, <1>4, <1>5, <1>6 DEF Next

(* For any launchers, contexts, mask and table size: as long as no growth  *)
(* has met a context whose handle was not stored yet, services are reached *)
(* by their handles; skynet_handle_register's growth, skynet_handle_retire *)
(* and the wrap of handle_index never lose or confuse one.                 *)
THEOREM HandlesLead == Spec => []Reachable
<1>1. TableInv => Reachable
  BY DEF TableInv
<1> QED BY <1>1, TableInit, TableStep, PTL DEF Spec

-----------------------------------------------------------------------------
(* Remainders.                                                             *)
LEMMA Division ==
    ASSUME NEW a \in Nat, NEW n \in Nat \ {0}
    PROVE  \E q \in Nat, r \in 0 .. n - 1, x \in Nat :
              r = a % n /\ (x = q * n /\ a = x + r)
<1>1. PICK d \in Int : d = a \div n
  OBVIOUS
<1>2. PICK r \in Int : r = a % n
  OBVIOUS
<1>3. a = d * n + r /\ r \in 0 .. n - 1
  BY <1>1, <1>2
<1>4. CASE d < 0
  <2>1. d * n <= -n
    BY <1>4
  <2>. QED BY <1>3, <2>1
<1>5. PICK x \in Int : x = d * n
  OBVIOUS
<1>6. a = x + r
  BY <1>3, <1>5
<1>7. CASE d >= 0
  <2>1. x \in Nat
    BY <1>5, <1>7
  <2>. QED BY <1>2, <1>3, <1>5, <1>6, <1>7, <2>1 
<1>. QED BY <1>4, <1>7

(* Multiples of n that are closer than n are the same.                     *)
LEMMA SmallMultiple ==
    ASSUME NEW p \in Int, NEW q \in Int, NEW n \in Nat \ {0},
           p * n - q * n < n, q * n - p * n < n
    PROVE  p = q
<1>1. CASE p > q
  <2>1. PICK d \in Nat : p = q + 1 + d
    <3>1. p - q - 1 \in Nat /\ p = q + 1 + (p - q - 1)
      BY <1>1
    <3>. QED BY <3>1
  <2>2. p * n = q * n + n + d * n
    BY <2>1
  <2>3. d * n \in Nat
    OBVIOUS
  <2>4. q * n \in Int /\ p * n \in Int
    OBVIOUS
  <2>. QED BY <2>2, <2>3, <2>4
<1>2. CASE q > p
  <2>1. PICK d \in Nat : q = p + 1 + d
    <3>1. q - p - 1 \in Nat /\ q = p + 1 + (q - p - 1)
      BY <1>2
    <3>. QED BY <3>1
  <2>2. q * n = p * n + n + d * n
    BY <2>1
  <2>3. d * n \in Nat
    OBVIOUS
  <2>4. q * n \in Int /\ p * n \in Int
    OBVIOUS
  <2>. QED BY <2>2, <2>3, <2>4
<1>. QED BY <1>1, <1>2

(* Two numbers closer than n have different remainders.                    *)
LEMMA CloseDiffer ==
    ASSUME NEW a \in Nat, NEW b \in Nat, NEW n \in Nat \ {0},
           a - b < n, b - a < n, a % n = b % n
    PROVE  a = b
<1>1. PICK p \in Nat, r \in 0 .. n - 1, x \in Nat : r = a % n /\ (x = p * n /\ a = x + r)
  BY Division
<1>2. PICK q \in Nat, s \in 0 .. n - 1, y \in Nat : s = b % n /\ (y = q * n /\ b = y + s)
  BY Division
<1>3. r = s
  BY Zenon, <1>1, <1>2
<1>4. a = x + r /\ b = y + r /\ x = p * n /\ y = q * n
  BY Zenon, <1>1, <1>2, <1>3
<1>5. x - y < n /\ y - x < n
  BY <1>4
<1>6. p = q
  BY <1>4, <1>5, SmallMultiple
<1>. QED BY Zenon, <1>4, <1>6

(* What a remainder is.                                                    *)
LEMMA RemainderIs ==
    ASSUME NEW a \in Nat, NEW n \in Nat \ {0}, NEW q \in Nat, NEW r \in 0 .. n - 1,
           a = q * n + r
    PROVE  a % n = r
<1>1. PICK p \in Nat, s \in 0 .. n - 1, x \in Nat : s = a % n /\ (x = p * n /\ a = x + s)
  BY Division
<1>2. PICK y \in Int : y = q * n
  OBVIOUS
<1>3. a = x + s /\ a = y + r /\ x = p * n
  BY <1>1, <1>2
<1>4. x - y < n /\ y - x < n
  BY <1>3
<1>5. p = q
  BY <1>2, <1>3, <1>4, SmallMultiple
<1>6. x = y
  BY <1>2, <1>3, <1>5
<1>7. s = r
  BY <1>3, <1>6
<1>. QED BY <1>1, <1>7

(* The remainder of the doubled size is the old one, or the old size more. *)
LEMMA Doubled ==
    ASSUME NEW a \in Nat, NEW n \in Nat \ {0}
    PROVE  a % (2 * n) \in {a % n, (a % n) + n}
<1>1. 2 * n \in Nat \ {0}
  OBVIOUS
<1>2. PICK p \in Nat, s \in 0 .. 2 * n - 1, x \in Nat :
        s = a % (2 * n) /\ (x = p * (2 * n) /\ a = x + s)
  BY <1>1, Division
<1>3. x = (2 * p) * n
  <2>1. p * (2 * n) = (2 * p) * n
    OBVIOUS
  <2>. QED BY <1>2, <2>1
<1>4. a = x + s
  BY <1>2
<1>5. CASE s < n
  <2>1. s \in 0 .. n - 1 /\ 2 * p \in Nat /\ a = (2 * p) * n + s
    BY <1>3, <1>4, <1>5
  <2>2. a % n = s
    BY <2>1, RemainderIs
  <2>. QED BY <1>2, <2>2
<1>6. CASE s >= n
  <2>1. PICK r \in 0 .. n - 1 : s = r + n
    <3>1. s - n \in 0 .. n - 1 /\ s = (s - n) + n
      BY <1>6
    <3>. QED BY <3>1
  <2>2. (2 * p + 1) * n = (2 * p) * n + n
    OBVIOUS
  <2>3. 2 * p + 1 \in Nat /\ a = (2 * p + 1) * n + r
    BY <1>3, <1>4, <2>1, <2>2
  <2>4. a % n = r
    BY <2>3, RemainderIs
  <2>. QED BY <1>2, <2>1, <2>4
<1>. QED BY <1>5, <1>6

(* The turn that looks at slot i.                                          *)
LEMMA TurnOf ==
    ASSUME NEW h \in Nat, NEW n \in Nat \ {0}, NEW i \in 0 .. n - 1
    PROVE  \E k \in 0 .. n - 1 : (h + k) % n = i
<1>1. PICK p \in Nat, r \in 0 .. n - 1, x \in Nat : r = h % n /\ (x = p * n /\ h = x + r)
  BY Division
<1>2. x = p * n
  BY <1>1
<1>3. h = x + r
  BY <1>1
<1>4. CASE r <= i
  <2>1. PICK k \in 0 .. n - 1 : k = i - r
    <3>1. i - r \in 0 .. n - 1
      BY <1>4
    <3>. QED BY <3>1
  <2>2. h + k \in Nat /\ h + k = p * n + i
    BY <1>2, <1>3, <2>1
  <2>3. (h + k) % n = i
    BY <2>2, RemainderIs
  <2>. QED BY <2>3
<1>5. CASE r > i
  <2>1. PICK k \in 0 .. n - 1 : k = n + i - r
    <3>1. n + i - r \in 0 .. n - 1
      BY <1>5
    <3>. QED BY <3>1
  <2>2. (p + 1) * n = p * n + n
    OBVIOUS
  <2>3. p + 1 \in Nat /\ h + k \in Nat /\ h + k = (p + 1) * n + i
    BY <1>2, <1>3, <2>1, <2>2
  <2>4. (h + k) % n = i
    BY <2>3, RemainderIs
  <2>. QED BY <2>4
<1>. QED BY <1>4, <1>5

(* Numbers with the same remainder keep it when both grow by k.            *)
LEMMA SameShift ==
    ASSUME NEW a \in Nat, NEW b \in Nat, NEW k \in Nat, NEW n \in Nat \ {0}, a % n = b % n
    PROVE  (a + k) % n = (b + k) % n
<1>1. PICK p \in Nat, r \in 0 .. n - 1, x \in Nat : r = a % n /\ (x = p * n /\ a = x + r)
  BY Division
<1>2. PICK q \in Nat, s \in 0 .. n - 1, y \in Nat : s = b % n /\ (y = q * n /\ b = y + s)
  BY Division
<1>3. r = s
  BY Zenon, <1>1, <1>2
<1>4. r + k \in Nat
  OBVIOUS
<1>5. PICK m \in Nat, u \in 0 .. n - 1, z \in Nat :
        u = (r + k) % n /\ (z = m * n /\ r + k = z + u)
  BY <1>4, Division
<1>6. (p + m) * n = p * n + m * n /\ (q + m) * n = q * n + m * n
  OBVIOUS
<1>7. a = x + r /\ b = y + r /\ x = p * n /\ y = q * n /\ z = m * n /\ r + k = z + u
  BY Zenon, <1>1, <1>2, <1>3, <1>5
<1>8. a + k = (p + m) * n + u /\ b + k = (q + m) * n + u
  BY <1>6, <1>7
<1>9. (a + k) % n = u /\ (b + k) % n = u
  <2>1. p + m \in Nat /\ q + m \in Nat /\ a + k \in Nat /\ b + k \in Nat
    OBVIOUS
  <2> QED BY <1>8, <2>1, RemainderIs
<1> QED BY <1>9

LEMMA SameNext ==
    ASSUME NEW a \in Nat, NEW b \in Nat, NEW n \in Nat \ {0}, a % n = b % n
    PROVE  (a + 1) % n = (b + 1) % n
<1>1. PICK k \in Nat : k = 1
  OBVIOUS
<1>2. (a + k) % n = (b + k) % n
  BY SameShift
<1> QED BY <1>1, <1>2

(* A remainder is its own remainder.                                       *)
LEMMA SameAgain ==
    ASSUME NEW a \in Nat, NEW n \in Nat \ {0}
    PROVE  a % n \in Nat /\ (a % n) % n = a % n
<1>1. PICK r \in 0 .. n - 1 : r = a % n
  BY Division
<1>2. r % n = r
  BY RemainderIs
<1> QED BY <1>1, <1>2

(* The handles in the order in which the scans try them: the one at a      *)
(* place is known by its remainder, and all places given were passed.      *)
PlaceInv ==
    /\ TableInv
    /\ (handle_index - 1) % HANDLE_MASK = position % HANDLE_MASK
    /\ \A h \in DOMAIN given :
         given[h] < position /\ given[h] % HANDLE_MASK = h - 1

(* The k-th turn of a scan is at the k-th place from position.             *)
LEMMA TriedPlace ==
    ASSUME PlaceInv, NEW k \in Nat
    PROVE  /\ Tried(k) \in Handles
           /\ (position + k) % HANDLE_MASK = Tried(k) - 1
           /\ (position + k + 1) % HANDLE_MASK = Tried(k) % HANDLE_MASK
<1> DEFINE M == HANDLE_MASK
           a == handle_index - 1
<1>1. a \in Nat /\ position \in Nat /\ M \in Nat \ {0} /\ a % M = position % M
  BY SlotAssumption DEF PlaceInv, TableInv, Reachable, TypeOK
<1>2. Tried(k) \in Handles
  BY TriedOK DEF PlaceInv, TableInv, Reachable, TypeOK
<1>3. Tried(k) = ((a + k) % M) + 1
  <2>1. a + k = handle_index + k - 1
    BY <1>1 DEF PlaceInv, TableInv, Reachable, TypeOK
  <2> QED BY <2>1 DEF Tried
<1> HIDE DEF M, a
<1>4. (a + k) % M = (position + k) % M
  BY Zenon, <1>1, SameShift
<1>5. PICK r \in Nat : r = (position + k) % M /\ r % M = r
  <2>1. position + k \in Nat
    BY <1>1
  <2> QED BY Zenon, <1>1, <2>1, SameAgain
<1>6. Tried(k) = r + 1
  BY <1>3, <1>4, <1>5
<1>7. (r + 1) % M = (position + k + 1) % M
  <2> DEFINE b == position + k
  <2>1. r \in Nat /\ b \in Nat /\ M \in Nat \ {0} /\ r % M = b % M
    BY <1>1, <1>5
  <2> HIDE DEF b
  <2>2. (r + 1) % M = (b + 1) % M
    BY Zenon, <2>1, SameNext
  <2> QED BY <2>2 DEF b
<1>8. (position + k) % M = Tried(k) - 1
  BY <1>5, <1>6
<1> QED BY <1>2, <1>6, <1>7, <1>8 DEF M

(* A registration moves on to the place behind the one it gives.           *)
LEMMA PlaceRegister ==
    ASSUME PlaceInv, NEW t \in Launcher, Register(t)
    PROVE  /\ (handle_index' - 1) % HANDLE_MASK = position' % HANDLE_MASK
           /\ \A h \in DOMAIN given' :
                given'[h] < position' /\ given'[h] % HANDLE_MASK = h - 1
           /\ \A h \in DOMAIN given : given'[h] # given[h] =>
                given'[h] - given[h] >= HANDLE_MASK
<1>1. PICK k \in FreeTurns :
        /\ handle_index' = Tried(k) + 1
        /\ given' = [g \in DOMAIN given \cup {Tried(k)} |->
                       IF g = Tried(k) THEN position + k ELSE given[g]]
        /\ position' = position + k + 1
  BY DEF Register, NextIndex
<1> DEFINE f == Tried(k)
<1>2. k \in Nat /\ position \in Nat /\ \A h \in DOMAIN given : given[h] \in Nat
  BY DEF FreeTurns, PlaceInv, TableInv, Table, Reachable, TypeOK
<1>3. /\ f \in Handles
      /\ (position + k) % HANDLE_MASK = f - 1
      /\ (position + k + 1) % HANDLE_MASK = f % HANDLE_MASK
  BY <1>2, TriedPlace
<1> HIDE DEF f
<1>4. /\ DOMAIN given' = DOMAIN given \cup {f}
      /\ \A g \in DOMAIN given' : given'[g] = IF g = f THEN position + k ELSE given[g]
      /\ handle_index' = f + 1
  BY <1>1 DEF f
<1>5. (handle_index' - 1) % HANDLE_MASK = position' % HANDLE_MASK
  <2>1. handle_index' - 1 = f
    BY <1>3, <1>4 DEF Handles
  <2> QED BY <1>1, <1>3, <2>1
<1>6. ASSUME NEW h \in DOMAIN given'
      PROVE  given'[h] < position' /\ given'[h] % HANDLE_MASK = h - 1
  <2>1. CASE h = f
    BY <1>1, <1>2, <1>3, <1>4, <2>1
  <2>2. CASE h # f
    <3>1. h \in DOMAIN given /\ given'[h] = given[h]
      BY <1>4, <2>2
    <3>2. given[h] < position /\ given[h] % HANDLE_MASK = h - 1
      BY <3>1 DEF PlaceInv
    <3> QED BY <1>1, <1>2, <3>1, <3>2
  <2> QED BY <2>1, <2>2
<1>7. ASSUME NEW h \in DOMAIN given, given'[h] # given[h]
      PROVE  given'[h] - given[h] >= HANDLE_MASK
  <2>1. h = f /\ given'[h] = position + k
    BY <1>4, <1>7
  <2>2. /\ given[h] \in Nat /\ position + k \in Nat /\ given[h] < position + k
        /\ (position + k) % HANDLE_MASK = given[h] % HANDLE_MASK
    BY <1>2, <1>3, <2>1 DEF PlaceInv
  <2>3. ASSUME (position + k) - given[h] < HANDLE_MASK PROVE FALSE
    BY <2>2, <2>3, CloseDiffer, SlotAssumption
  <2> QED BY <2>1, <2>2, <2>3, SlotAssumption
<1> QED BY <1>5, <1>6, <1>7

LEMMA PlaceInit == Init => PlaceInv
<1> SUFFICES ASSUME Init PROVE PlaceInv
  OBVIOUS
<1>1. handle_index - 1 = 0 /\ position = 0 /\ DOMAIN given = {}
  BY DEF Init
<1> QED BY <1>1, TableInit DEF PlaceInv

(* Only a registration gives a handle.                                     *)
LEMMA GivenBy ==
    ASSUME [Next]_vars
    PROVE  \/ \E t \in Launcher : Register(t)
           \/ UNCHANGED <<handle_index, position, given>>
BY DEF Next, vars, BeginLaunch, Expand, AssignHandle, skynet_handle_retire, RetireAllBegin,
       RetireAllTest, RetireAllRead, RetireAllRetire, skynet_handle_namehandle

LEMMA PlaceStep == PlaceInv /\ [Next]_vars => PlaceInv'
<1> SUFFICES ASSUME PlaceInv, [Next]_vars PROVE PlaceInv'
  OBVIOUS
<1>1. TableInv'
  BY TableStep DEF PlaceInv
<1>2. CASE UNCHANGED <<handle_index, position, given>>
  BY <1>1, <1>2 DEF PlaceInv
<1>3. CASE \E t \in Launcher : Register(t)
  BY <1>1, <1>3, PlaceRegister DEF PlaceInv
<1> QED BY <1>2, <1>3, GivenBy

(* For any mask, table size and number of launchers: a handle is given     *)
(* again only after the scans have tried HANDLE_MASK handles in between,   *)
(* which is all of them.                                                   *)
THEOREM HandlesAreFresh == Spec => NotReissued
<1> DEFINE Passed == \A h \in DOMAIN given : given'[h] # given[h] =>
                         given'[h] - given[h] >= HANDLE_MASK
<1>1. PlaceInv /\ [Next]_vars => [Passed]_vars
  BY GivenBy, PlaceRegister
<1> QED BY <1>1, PlaceInit, PlaceStep, PTL DEF Spec, NotReissued

-----------------------------------------------------------------------------
(* What the scan has passed holds no target, but for the one it has just   *)
(* read and is about to retire.                                            *)
Ahead(c) ==
    /\ c \in Running
    /\ \/ Hash(handle[c], slot_size) >= retireall.i
       \/ retireall.at = "retire" /\ retireall.handle = handle[c]

SweepInv ==
    /\ TableInv
    /\ retireall.at # "off" /\ ~early => \A c \in targets : Ahead(c)

(* Steps that leave a target and its slot alone.                           *)
LEMMA StaysAhead ==
    ASSUME TableInv, NEW c \in Ctx, Ahead(c), slot_size' = slot_size,
           handle'[c] = handle[c], UNCHANGED retireall
    PROVE  Ahead(c)'
BY DEF Ahead, Running, Hash

(* Growth moves a target to the same slot or to one beyond it.             *)
LEMMA GrowthAhead ==
    ASSUME TableInv, NEW t \in Launcher, Expand(t), ~early, NEW c \in Ctx, Ahead(c)
    PROVE  Ahead(c)'
<1>1. UNCHANGED <<handle, retireall>> /\ handle[c] \in Nat /\ retireall.i \in Nat
  BY DEF Expand, TableInv, Reachable, TypeOK
<1>2. CASE slot' = slot
  BY <1>1, <1>2, StaysAhead DEF slot_size
<1>3. CASE slot' # slot
  <2>1. slot_size' = 2 * slot_size
    BY <1>3, Grown DEF Expand
  <2>2. slot_size \in Nat \ {0}
    BY DEF TableInv, Table
  <2>3. Hash(handle[c], 2 * slot_size) \in
           {Hash(handle[c], slot_size), Hash(handle[c], slot_size) + slot_size}
    BY <1>1, <2>2, Doubled DEF Hash
  <2>4. Hash(handle[c], slot_size)' = Hash(handle[c], 2 * slot_size)
    BY <1>1, <2>1 DEF Hash
  <2>5. Hash(handle[c], slot_size) \in Nat
    BY <1>1, HashOK
  <2>6. /\ Hash(handle[c], slot_size)' >= Hash(handle[c], slot_size)
        /\ Hash(handle[c], slot_size)' \in Nat
    BY <2>2, <2>3, <2>4, <2>5
  <2>7. Running' = Running
    BY <1>1 DEF Running
  <2> HIDE DEF Hash
  <2> QED BY <1>1, <2>5, <2>6, <2>7 DEF Ahead
<1> QED BY <1>2, <1>3

(* A retirement takes its context off the list, and leaves the others.     *)
LEMMA RetireAhead ==
    ASSUME TableInv, NEW h \in Handles, Retire(h), NEW c \in targets', Ahead(c)
    PROVE  /\ slot_size' = slot_size /\ handle'[c] = handle[c]
           /\ ~early => handle[c] # h
<1>1. slot_size' = slot_size
  BY RetireTypes
<1>2. CASE skynet_handle_grab(h) = None
  <2>1. ~early => skynet_handle_grab(handle[c]) = c /\ c # None
    BY SlotAssumption DEF Ahead, Running, TableInv, Reachable
  <2> QED BY <1>1, <1>2, <2>1 DEF Retire
<1>3. CASE skynet_handle_grab(h) # None
  <2>1. c # skynet_handle_grab(h) /\ c \in Ctx
    BY <1>3 DEF Retire, TableInv, Reachable, TypeOK
  <2>2. handle' = [handle EXCEPT ![skynet_handle_grab(h)] = 0]
    BY <1>3 DEF Retire
  <2>3. ~early => skynet_handle_grab(handle[c]) = c
    BY DEF Ahead, Running, TableInv, Reachable
  <2> QED BY <1>1, <2>1, <2>2, <2>3 DEF TableInv, Reachable, TypeOK
<1> QED BY <1>2, <1>3

LEMMA SweepInit == Init => SweepInv
<1> SUFFICES ASSUME Init PROVE SweepInv
  OBVIOUS
<1>1. retireall.at = "off"
  BY DEF Init
<1> QED BY <1>1, TableInit DEF SweepInv

(* A turn of the scan reads the target that stands in its slot.            *)
LEMMA ReadAhead ==
    ASSUME SweepInv, RetireAllRead, ~early, NEW c \in targets
    PROVE  Ahead(c)'
<1> DEFINE i == retireall.i
           r == slot[i]
           g == IF r = None THEN 0 ELSE handle[r]
<1>1. /\ c \in Ctx /\ c # None /\ handle[c] # 0 /\ handle[c] \in Nat /\ i \in Nat
      /\ Hash(handle[c], slot_size) >= i
  BY SlotAssumption DEF RetireAllRead, SweepInv, Ahead, Running, TableInv, Reachable, TypeOK
<1>2. /\ retireall'.i = i + 1
      /\ retireall'.handle = g
      /\ retireall'.at = IF g = 0 THEN "test" ELSE "retire"
      /\ UNCHANGED <<slot, handle>>
  <2>1. retireall' = [retireall EXCEPT !.at = IF g = 0 THEN "test" ELSE "retire",
                                       !.i = @ + 1, !.handle = g]
        /\ UNCHANGED <<slot, handle>>
    BY DEF RetireAllRead
  <2>2. retireall \in [at : {"off", "test", "read", "retire"}, i : Nat, n : Nat,
                       handle : 0 .. HANDLE_MASK]
    BY DEF SweepInv, TableInv, Reachable, TypeOK
  <2> HIDE DEF g
  <2> QED BY <2>1, <2>2
<1>3. Hash(handle[c], slot_size) \in Nat /\ slot[Hash(handle[c], slot_size)] = c
  BY <1>1, RunningPlace DEF SweepInv, TableInv, Table
<1>4. slot_size' = slot_size /\ Running' = Running /\ handle' = handle
  BY <1>2 DEF slot_size, Running
<1>5. c \in Running'
  BY <1>1, <1>4 DEF Running
<1> HIDE DEF i
<1>6. CASE Hash(handle[c], slot_size) = i
  <2>1. g = handle[c]
    BY <1>1, <1>3, <1>6
  <2> QED BY <1>1, <1>2, <1>4, <1>5, <2>1 DEF Ahead
<1>7. CASE Hash(handle[c], slot_size) > i
  <2>1. Hash(handle'[c], slot_size') >= retireall'.i
    <3> HIDE DEF Hash
    <3> QED BY <1>1, <1>2, <1>3, <1>4, <1>7
  <2> QED BY <1>5, <2>1 DEF Ahead
<1> QED BY <1>1, <1>3, <1>6, <1>7

(* At the end of a pass the scan has passed every slot.                    *)
LEMMA EndOfPass ==
    ASSUME SweepInv, retireall.at = "test", ~early, ~(retireall.i < slot_size)
    PROVE  targets = {}
<1> SUFFICES ASSUME NEW c \in targets PROVE FALSE
  OBVIOUS
<1>1. c \in Ctx /\ handle[c] # 0 /\ Hash(handle[c], slot_size) >= retireall.i
  BY DEF SweepInv, Ahead, Running
<1>2. Hash(handle[c], slot_size) \in 0 .. slot_size - 1
  BY <1>1, RunningPlace DEF SweepInv
<1>3. slot_size \in Nat /\ retireall.i \in Nat
  BY DEF SweepInv, TableInv, Table, Reachable, TypeOK
<1> HIDE DEF Hash
<1> QED BY <1>1, <1>2, <1>3

LEMMA SweepStep == SweepInv /\ [Next]_vars => SweepInv'
<1> SUFFICES ASSUME SweepInv, [Next]_vars PROVE SweepInv'
  OBVIOUS
<1>1. TableInv /\ TableInv' /\ targets \subseteq Ctx
  BY TableStep DEF SweepInv, TableInv, Reachable, TypeOK
<1> SUFFICES ASSUME retireall'.at # "off", ~early', NEW c \in targets' PROVE Ahead(c)'
  BY <1>1 DEF SweepInv
<1>2. ASSUME NEW t \in Launcher, NEW d \in Ctx, BeginLaunch(t, d) PROVE Ahead(c)'
  BY <1>1, <1>2, StaysAhead DEF SweepInv, BeginLaunch, slot_size
<1>3. ASSUME NEW t \in Launcher, Register(t) PROVE Ahead(c)'
  <2>1. UNCHANGED <<handle, retireall, targets, early>> /\ slot_size' = slot_size
    BY <1>1, <1>3 DEF Register, slot_size
  <2> QED BY <1>1, <2>1, StaysAhead DEF SweepInv
<1>4. ASSUME NEW t \in Launcher, Expand(t) PROVE Ahead(c)'
  <2>1. UNCHANGED <<retireall, targets>> /\ ~early
    BY <1>4 DEF Expand
  <2> QED BY <1>1, <1>4, <2>1, GrowthAhead DEF SweepInv
<1>5. ASSUME NEW t \in Launcher, AssignHandle(t) PROVE Ahead(c)'
  <2>1. /\ UNCHANGED <<slot, retireall, targets, early>> /\ slot_size' = slot_size
        /\ handle' = [handle EXCEPT ![launch[t].ctx] = launch[t].handle]
    BY <1>5 DEF AssignHandle, slot_size
  <2>2. c \in Ctx /\ Ahead(c)
    BY <1>1, <2>1 DEF SweepInv
  <2>3. c # launch[t].ctx
    <3>1. handle[c] # 0 /\ c # None
      BY <2>2, SlotAssumption DEF Ahead, Running
    <3> QED BY <1>1, <3>1 DEF TableInv, LaunchInv
  <2>4. handle'[c] = handle[c]
    BY <2>1, <2>2, <2>3
  <2> QED BY <1>1, <2>1, <2>2, <2>4, StaysAhead
<1>6. ASSUME NEW h \in Handles, skynet_handle_retire(h) PROVE Ahead(c)'
  <2>1. Retire(h) /\ UNCHANGED <<retireall, early>> /\ targets' \subseteq targets
    BY <1>6 DEF skynet_handle_retire, Retire
  <2>2. c \in Ctx /\ Ahead(c)
    BY <1>1, <2>1 DEF SweepInv
  <2>3. slot_size' = slot_size /\ handle'[c] = handle[c]
    BY <1>1, <2>1, <2>2, RetireAhead
  <2> QED BY <1>1, <2>1, <2>2, <2>3, StaysAhead
<1>7. CASE RetireAllBegin
  <2>1. retireall'.i = 0 /\ c \in Running /\ UNCHANGED <<slot, handle, early>>
    BY <1>7 DEF RetireAllBegin
  <2>2. slot_size' = slot_size /\ Running' = Running /\ handle' = handle
    BY <2>1 DEF slot_size, Running
  <2>3. Hash(handle[c], slot_size) \in Nat
    <3>1. c \in Ctx /\ handle[c] # 0
      BY <2>1 DEF Running
    <3> QED BY <1>1, <2>1, <3>1, RunningPlace DEF TableInv, Table
  <2>4. Hash(handle'[c], slot_size') >= 0
    <3> HIDE DEF Hash
    <3> QED BY <2>2, <2>3
  <2> QED BY <2>1, <2>2, <2>4 DEF Ahead
<1>8. CASE RetireAllTest
  <2>1. /\ UNCHANGED <<slot, handle, early>> /\ targets' \subseteq targets
        /\ retireall.at = "test"
    BY <1>8 DEF RetireAllTest
  <2>2. CASE retireall.i < slot_size
    <3>1. retireall'.i = retireall.i
      BY <1>1, <1>8, <2>2 DEF RetireAllTest, ScanSize, TableInv, Reachable, TypeOK
    <3>2. slot_size' = slot_size /\ Running' = Running /\ handle' = handle
      BY <2>1 DEF slot_size, Running
    <3>3. c \in Running /\ Hash(handle[c], slot_size) >= retireall.i
      BY <2>1 DEF SweepInv, Ahead
    <3> QED BY <3>1, <3>2, <3>3 DEF Ahead
  <2>3. CASE ~ (retireall.i < slot_size)
    BY <2>1, <2>3, EndOfPass
  <2> QED BY <2>2, <2>3
<1>9. CASE RetireAllRead
  BY <1>9, ReadAhead DEF RetireAllRead
<1>10. CASE RetireAllRetire
  <2>1. /\ retireall.handle \in Handles /\ Retire(retireall.handle)
        /\ retireall.at = "retire" /\ early' = early
        /\ retireall'.i = retireall.i
    BY <1>1, <1>10 DEF RetireAllRetire, TableInv, Reachable, TypeOK, Handles
  <2>2. c \in targets /\ c \in Ctx /\ Ahead(c)
    BY <1>1, <2>1 DEF SweepInv, Retire
  <2>3. slot_size' = slot_size /\ handle'[c] = handle[c] /\ handle[c] # retireall.handle
    BY <1>1, <2>1, <2>2, RetireAhead
  <2>4. Hash(handle[c], slot_size) >= retireall.i
    BY <2>2, <2>3 DEF Ahead
  <2> QED BY <2>1, <2>2, <2>3, <2>4 DEF Ahead, Running, Hash
<1>11. ASSUME NEW n \in Name, NEW h \in DOMAIN given, skynet_handle_namehandle(n, h)
       PROVE  Ahead(c)'
  BY <1>1, <1>11, StaysAhead DEF SweepInv, skynet_handle_namehandle, slot_size
<1>12. CASE UNCHANGED vars
  BY <1>1, <1>12, StaysAhead DEF SweepInv, vars, slot_size
<1> QED BY <1>2, <1>3, <1>4, <1>5, <1>6, <1>7, <1>8, <1>9, <1>10, <1>11, <1>12 DEF Next

(* The scan ends in one place.                                             *)
LEMMA SweepEnds ==
    ASSUME SweepInv, [Next]_vars, retireall.at = "test", retireall'.at = "off", ~early
    PROVE  targets = {}
<1>1. RetireAllTest
  BY DEF Next, vars, BeginLaunch, Register, Expand, AssignHandle, skynet_handle_retire,
         RetireAllBegin, RetireAllRead, RetireAllRetire, skynet_handle_namehandle
<1>2. ~(retireall.i < slot_size)
  BY <1>1 DEF RetireAllTest, ScanSize, SweepInv, TableInv, Reachable, TypeOK
<1> QED BY <1>2, EndOfPass

(* For any launchers, mask and table size: when skynet_handle_retireall    *)
(* returns, what ran when it was called has been retired, whatever was     *)
(* launched, retired, given an old handle again or moved by growth in the  *)
(* meantime, if no growth met a context without its handle.                *)
THEOREM SweepIsComplete == Spec => RetireAllComplete
<1> DEFINE Swept == retireall.at = "test" /\ retireall'.at = "off" /\ ~early => targets = {}
<1>1. SweepInv /\ [Next]_vars => [Swept]_vars
  BY SweepEnds
<1> QED BY <1>1, SweepInit, SweepStep, PTL DEF Spec, RetireAllComplete

-----------------------------------------------------------------------------
(* The names ascend, and name handles.                                     *)
Entry == [name : Name, handle : Handles]
Sorted(s) == \A i, j \in DOMAIN s : i < j => s[i].name < s[j].name

NamesInv ==
    /\ slot_size \in Nat /\ DOMAIN slot = 0 .. slot_size - 1
    /\ handle_index \in 1 .. HANDLE_MASK + 1
    /\ DOMAIN given \subseteq Handles
    /\ name \in Seq(Entry) /\ Sorted(name)
    /\ name_cap \in Nat \ {0} /\ Len(name) <= name_cap

Below == {p \in Nat \X Nat : p[1] < p[2]}

(* Every set of numbers that is not empty has a least one.                 *)
LEMMA Least ==
    ASSUME NEW T \in SUBSET Nat, T # {}
    PROVE  \E x \in T : \A y \in T : x <= y
<1>1. IsWellFoundedOn(Below, Nat)
  BY NatLessThanWellFounded DEF OpToRel, Below
<1>2. PICK x \in T : \A y \in T : ~(<<y, x>> \in Below)
  BY <1>1, WFMin
<1>3. ASSUME NEW y \in T PROVE x <= y
  <2>1. y \in Nat /\ x \in Nat
    OBVIOUS
  <2>2. <<y, x>> \in Below <=> y < x
    BY <2>1 DEF Below
  <2> QED BY <1>2, <2>1, <2>2
<1> QED BY <1>3

(* What skynet_handle_retire has kept after k turns.                       *)
Kept(h) == CHOOSE kept : kept = [k \in 0 .. Len(name) |->
               IF k = 0 THEN <<>>
               ELSE IF name[k].handle = h THEN kept[k - 1]
               ELSE Append(kept[k - 1], name[k])]

(* It is what the table is compacted to after its last turn.               *)
LEMMA CompactedIs == \A h : Compacted(h) = Kept(h)[Len(name)]
BY DEF Compacted, Kept

(* There is such a function: one for fewer turns can be continued.         *)
LEMMA KeptIs ==
    ASSUME NEW h, Len(name) \in Nat
    PROVE  Kept(h) = [k \in 0 .. Len(name) |->
               IF k = 0 THEN <<>>
               ELSE IF name[k].handle = h THEN Kept(h)[k - 1]
               ELSE Append(Kept(h)[k - 1], name[k])]
<1> DEFINE Is(g, m) == g = [k \in 0 .. m |->
               IF k = 0 THEN <<>>
               ELSE IF name[k].handle = h THEN g[k - 1]
               ELSE Append(g[k - 1], name[k])]
           Missing == {m \in Nat : ~ \E g : Is(g, m)}
<1>1. Missing = {}
  <2> SUFFICES ASSUME Missing # {} PROVE FALSE
    OBVIOUS
  <2>1. PICK m \in Missing : \A y \in Missing : m <= y
    BY Least
  <2>2. m \in Nat
    OBVIOUS
  <2>3. m # 0
    <3>1. Is([k \in 0 .. 0 |-> <<>>], 0)
      OBVIOUS
    <3> QED BY <3>1
  <2>4. m - 1 \in Nat /\ m - 1 \notin Missing
    <3> HIDE DEF Missing
    <3> QED BY <2>1, <2>2, <2>3
  <2>4a. \E g : Is(g, m - 1)
    <3> HIDE DEF Is
    <3> QED BY <2>4
  <2>5. PICK g : Is(g, m - 1)
    BY <2>4a
  <2> DEFINE v == IF name[m].handle = h THEN g[m - 1] ELSE Append(g[m - 1], name[m])
             g2 == [k \in 0 .. m |-> IF k = m THEN v ELSE g[k]]
  <2>6. \A k \in 0 .. m - 1 : g2[k] = g[k]
    BY <2>2
  <2>7. g2[m] = v
    BY <2>2
  <2>7a. v = IF name[m].handle = h THEN g2[m - 1] ELSE Append(g2[m - 1], name[m])
    <3>1. g2[m - 1] = g[m - 1]
      BY <2>6, <2>2, <2>3
    <3> QED BY <3>1
  <2> DEFINE w(k) == IF k = 0 THEN <<>>
               ELSE IF name[k].handle = h THEN g2[k - 1]
               ELSE Append(g2[k - 1], name[k])
  <2>8. ASSUME NEW k \in 0 .. m PROVE g2[k] = w(k)
    <3>1. CASE k = m
      BY <3>1, <2>3, <2>7, <2>7a
    <3>2. CASE k # m /\ k = 0
      BY <3>2, <2>5, <2>2, <2>3, <2>6
    <3>3. CASE k # m /\ k # 0
      <4>1. k \in 0 .. m - 1 /\ k - 1 \in 0 .. m - 1
        BY <3>3, <2>2
      <4>2. g2[k] = g[k] /\ g2[k - 1] = g[k - 1]
        BY <4>1, <2>6
      <4>3. g[k] = IF name[k].handle = h THEN g[k - 1] ELSE Append(g[k - 1], name[k])
        BY <4>1, <3>3, <2>5
      <4> QED BY <4>2, <4>3, <3>3
    <3> QED BY <3>1, <3>2, <3>3
  <2>9. g2 = [k \in 0 .. m |-> w(k)]
    BY <2>8
  <2>10. Is(g2, m)
    BY <2>9
  <2> QED BY <2>1, <2>10
<1>2. \E g : Is(g, Len(name))
  BY <1>1
<1> HIDE DEF Missing
<1>3. Is(CHOOSE g : Is(g, Len(name)), Len(name))
  BY <1>2
<1> QED BY <1>3 DEF Kept
(* One turn of it.                                                         *)
LEMMA KeptAt ==
    ASSUME NEW h, Len(name) \in Nat, NEW k \in 0 .. Len(name)
    PROVE  Kept(h)[k] = IF k = 0 THEN <<>>
                        ELSE IF name[k].handle = h THEN Kept(h)[k - 1]
                        ELSE Append(Kept(h)[k - 1], name[k])
<1> DEFINE F == Kept(h)
<1>1. F = [i \in 0 .. Len(name) |-> IF i = 0 THEN <<>>
                        ELSE IF name[i].handle = h THEN F[i - 1]
                        ELSE Append(F[i - 1], name[i])]
  BY KeptIs
<1> HIDE DEF F
<1>2. F[k] = IF k = 0 THEN <<>>
             ELSE IF name[k].handle = h THEN F[k - 1] ELSE Append(F[k - 1], name[k])
  BY <1>1
<1> QED BY <1>2 DEF F

(* Induction, about a set.                                                 *)
LEMMA Inductive ==
    ASSUME NEW T, NEW m \in Nat, 0 \in T,
           \A k \in 0 .. m - 1 : k \in T => k + 1 \in T
    PROVE  \A k \in 0 .. m : k \in T
<1> SUFFICES ASSUME NEW n \in 0 .. m, n \notin T PROVE FALSE
  OBVIOUS
<1> DEFINE Bad == {k \in 0 .. m : k \notin T}
<1>1. PICK k \in Bad : \A y \in Bad : k <= y
  <2>1. Bad \in SUBSET Nat /\ Bad # {}
    OBVIOUS
  <2> QED BY <2>1, Least
<1>2. k \in Nat /\ k # 0 /\ k - 1 \in 0 .. m - 1
  OBVIOUS
<1>3. k - 1 \in T
  <2>1. k - 1 \notin Bad
    BY <1>1, <1>2
  <2> QED BY <1>2, <2>1
<1> QED BY <1>2, <1>3

(* What is kept after k turns ascends, and is taken from what was read.    *)
KeptFrom(s, k) ==
    /\ s \in Seq(Entry) /\ Sorted(s) /\ Len(s) <= k
    /\ \A i \in DOMAIN s : \E j \in 1 .. k : s[i] = name[j]

(* A compacted table ascends.                                              *)
LEMMA CompactedSorted ==
    ASSUME NEW h, name \in Seq(Entry), Sorted(name)
    PROVE  /\ Compacted(h) \in Seq(Entry) /\ Sorted(Compacted(h))
           /\ Len(Compacted(h)) <= Len(name)
<1> DEFINE T == {k \in 0 .. Len(name) : KeptFrom(Kept(h)[k], k)}
<1>1. Len(name) \in Nat
  OBVIOUS
<1>2. Kept(h)[0] = <<>>
  BY <1>1, KeptIs
<1>3. 0 \in T
  <2>1. <<>> \in Seq(Entry) /\ DOMAIN <<>> = {}
    OBVIOUS
  <2>2. KeptFrom(<<>>, 0)
    BY <2>1 DEF KeptFrom, Sorted
  <2> QED BY <1>1, <1>2, <2>2
<1>4. ASSUME NEW k \in 0 .. Len(name) - 1, k \in T PROVE k + 1 \in T
  <2> DEFINE s == Kept(h)[k]
             s2 == Kept(h)[k + 1]
  <2>1. k + 1 \in 1 .. Len(name) /\ name[k + 1] \in Entry
    OBVIOUS
  <2>2. s2 = IF name[k + 1].handle = h THEN s ELSE Append(s, name[k + 1])
    <3>1. k + 1 \in 0 .. Len(name) /\ k + 1 # 0 /\ (k + 1) - 1 = k
      BY <1>1
    <3> QED BY <3>1, <1>1, KeptAt DEF s, s2
  <2>3. KeptFrom(s, k)
    BY <1>4
  <2> HIDE DEF s, s2
  <2>4. CASE s2 = s
    BY <2>1, <2>3, <2>4 DEF KeptFrom, s2
  <2>5. CASE s2 = Append(s, name[k + 1])
    <3>1. s2 \in Seq(Entry) /\ Len(s2) = Len(s) + 1 /\ s \in Seq(Entry)
      BY <2>1, <2>3, <2>5 DEF KeptFrom
    <3>1a. DOMAIN s = 1 .. Len(s)
      BY <3>1
    <3>1b. \A i \in 1 .. Len(s) : s2[i] = s[i]
      BY <2>1, <2>5, <3>1
    <3>2. \A i \in 1 .. Len(s) : s2[i] = s[i] /\ \E j \in 1 .. k : s2[i] = name[j]
      BY <2>3, <3>1a, <3>1b DEF KeptFrom
    <3>3. s2[Len(s) + 1] = name[k + 1]
      BY <2>3, <2>5 DEF KeptFrom
    <3>4. ASSUME NEW i \in 1 .. Len(s2), NEW j \in 1 .. Len(s2), i < j
          PROVE  s2[i].name < s2[j].name
      <4>1. CASE j = Len(s) + 1
        <5>1. i \in 1 .. Len(s)
          BY <3>1, <3>4, <4>1
        <5>2. PICK l \in 1 .. k : s2[i] = name[l]
          BY <3>2, <5>1
        <5>3. l \in 1 .. Len(name) /\ l < k + 1
          BY <2>1
        <5> QED BY <2>1, <3>3, <4>1, <5>2, <5>3 DEF Sorted
      <4>2. CASE j # Len(s) + 1
        <5>1. i \in 1 .. Len(s) /\ j \in 1 .. Len(s)
          BY <3>1, <3>4, <4>2
        <5>2. DOMAIN s = 1 .. Len(s) /\ Sorted(s)
          BY <2>3, <3>1 DEF KeptFrom
        <5> QED BY <3>2, <3>4, <5>1, <5>2 DEF Sorted
      <4> QED BY <4>1, <4>2
    <3>5. Sorted(s2)
      BY <3>1, <3>4 DEF Sorted
    <3>6. ASSUME NEW i \in 1 .. Len(s2)
          PROVE  \E j \in 1 .. k + 1 : s2[i] = name[j]
      <4>1. CASE i \in 1 .. Len(s)
        BY <3>2, <4>1
      <4>2. CASE i = Len(s) + 1
        BY <3>3, <4>2
      <4> QED BY <3>1, <4>1, <4>2
    <3>7. Len(s2) <= k + 1
      BY <1>1, <2>3, <3>1 DEF KeptFrom
    <3> HIDE DEF s2
    <3>8. KeptFrom(s2, k + 1)
      BY <3>1, <3>5, <3>6, <3>7 DEF KeptFrom
    <3> QED BY <2>1, <3>8 DEF s2
  <2> QED BY <2>2, <2>4, <2>5
<1>5. Len(name) \in T
  <2> HIDE DEF T
  <2>1. \A k \in 0 .. Len(name) - 1 : k \in T => k + 1 \in T
    BY <1>4
  <2>2. \A k \in 0 .. Len(name) : k \in T
    BY <1>1, <1>3, <2>1, Inductive
  <2> QED BY <1>1, <2>2
<1> QED BY <1>5, CompactedIs DEF KeptFrom

-----------------------------------------------------------------------------
(* The types of an entry.                                                  *)
LEMMA NamesAreNumbers ==
    ASSUME name \in Seq(Entry)
    PROVE  /\ Len(name) \in Nat /\ DOMAIN name = 1 .. Len(name)
           /\ \A k \in 1 .. Len(name) : name[k] \in Entry /\ name[k].name \in Nat
<1>1. \A k \in 1 .. Len(name) : name[k] \in Entry
  OBVIOUS
<1>2. \A x \in Entry : x.name \in Nat
  BY SlotAssumption DEF Entry
<1> QED BY <1>1, <1>2

(* In an ascending table the names below n come first.                     *)
LEMMA PlaceOf ==
    ASSUME NEW n \in Nat, name \in Seq(Entry), Sorted(name)
    PROVE  \E p \in 0 .. Len(name) :
              \A k \in 1 .. Len(name) : name[k].name < n <=> k <= p
<1> DEFINE Rest == {k \in 1 .. Len(name) : ~(name[k].name < n)}
<1>1. \A k \in 1 .. Len(name) : name[k].name \in Nat
  BY NamesAreNumbers
<1>2. CASE Rest = {}
  <2>1. \A k \in 1 .. Len(name) : name[k].name < n /\ k <= Len(name)
    BY <1>2, NamesAreNumbers
  <2>2. Len(name) \in 0 .. Len(name)
    BY NamesAreNumbers
  <2> QED BY <2>1, <2>2
<1>3. CASE Rest # {}
  <2>1. PICK k \in Rest : \A y \in Rest : k <= y
    <3>1. Rest \in SUBSET Nat
      BY NamesAreNumbers
    <3> HIDE DEF Rest
    <3> QED BY <1>3, <3>1, Least
  <2>2. k \in 1 .. Len(name) /\ ~(name[k].name < n)
    OBVIOUS
  <2>3. ASSUME NEW j \in 1 .. Len(name), j <= k - 1 PROVE name[j].name < n
    BY <2>1, <2>2, <2>3
  <2>4. ASSUME NEW j \in 1 .. Len(name), ~(j <= k - 1) PROVE ~(name[j].name < n)
    <3>1. CASE j = k
      BY <2>2, <3>1
    <3>2. CASE k < j
      BY <1>1, <2>2, <3>2 DEF Sorted
    <3> QED BY <2>2, <2>4, <3>1, <3>2
  <2>5. k - 1 \in 0 .. Len(name)
    BY <2>2, NamesAreNumbers
  <2> QED BY <2>3, <2>4, <2>5
<1> QED BY <1>2, <1>3

(* The search as a function that calls itself.                             *)
Part == (0 .. Len(name)) \X (-1 .. Len(name) - 1)

Turn(n, f, b, e) ==
    LET mid == (b + e) \div 2
    IN IF b > e THEN [hit |-> FALSE, at |-> b]
       ELSE IF name[mid + 1].name = n THEN [hit |-> TRUE, at |-> mid]
       ELSE IF name[mid + 1].name < n THEN f[<<mid + 1, e>>]
       ELSE f[<<b, mid - 1>>]

Halves(n) == CHOOSE f : f = [r \in Part |-> Turn(n, f, r[1], r[2])]

(* The search starts with the whole table.                                 *)
LEMMA SearchIs == \A n : Search(n) = Halves(n)[<<0, Len(name) - 1>>]
BY DEF Search, Halves, Part, Turn

(* What the search finds between b and e when the names below n end at p.  *)
Found(n, p, b, e) ==
    IF b > e THEN [hit |-> FALSE, at |-> b]
    ELSE IF p < b THEN [hit |-> FALSE, at |-> b]
    ELSE IF p > e THEN [hit |-> FALSE, at |-> e + 1]
    ELSE IF name[p + 1].name = n THEN [hit |-> TRUE, at |-> p]
    ELSE [hit |-> FALSE, at |-> p]

(* What is found in a part is found in the half that holds it: at mid,     *)
LEMMA FoundHere ==
    ASSUME NEW n, NEW p \in Int, NEW b \in Int, NEW e \in Int, p \in b .. e,
           name[p + 1].name = n
    PROVE  Found(n, p, b, e) = [hit |-> TRUE, at |-> p]
BY DEF Found

(* beyond mid,                                                             *)
LEMMA FoundBeyond ==
    ASSUME NEW n, NEW p \in Int, NEW b \in Int, NEW e \in Int, NEW mid \in Int,
           b <= mid, mid <= e, mid < p
    PROVE  Found(n, p, b, e) = Found(n, p, mid + 1, e)
<1>1. CASE mid = e
  <2>1. Found(n, p, b, e) = [hit |-> FALSE, at |-> e + 1]
    BY <1>1 DEF Found
  <2>2. Found(n, p, mid + 1, e) = [hit |-> FALSE, at |-> mid + 1]
    BY <1>1 DEF Found
  <2> QED BY <1>1, <2>1, <2>2
<1>2. CASE mid < e
  BY <1>2 DEF Found
<1> QED BY <1>1, <1>2

(* before mid,                                                             *)
LEMMA FoundBefore ==
    ASSUME NEW n, NEW p \in Int, NEW b \in Int, NEW e \in Int, NEW mid \in Int,
           b <= mid, mid <= e, p < mid
    PROVE  Found(n, p, b, e) = Found(n, p, b, mid - 1)
BY DEF Found

(* and not at all.                                                         *)
LEMMA FoundNot ==
    ASSUME NEW n, NEW p \in Int, NEW b \in Int, NEW e \in Int, p \in b .. e,
           name[p + 1].name # n
    PROVE  Found(n, p, b, e) = Found(n, p, b, p - 1)
<1>1. Found(n, p, b, e) = [hit |-> FALSE, at |-> p]
  BY DEF Found
<1>2. CASE b = p
  <2>1. Found(n, p, b, p - 1) = [hit |-> FALSE, at |-> b]
    BY <1>2 DEF Found
  <2> QED BY <1>1, <1>2, <2>1
<1>3. CASE b < p
  <2>1. Found(n, p, b, p - 1) = [hit |-> FALSE, at |-> (p - 1) + 1]
    BY <1>3 DEF Found
  <2> QED BY <1>1, <2>1
<1> QED BY <1>2, <1>3

(* It looks at the middle and goes on in the half where n belongs.         *)
LEMMA FoundHalves ==
    ASSUME NEW n \in Nat, name \in Seq(Entry), Sorted(name),
           NEW p \in 0 .. Len(name),
           \A k \in 1 .. Len(name) : name[k].name < n <=> k <= p,
           NEW b \in 0 .. Len(name), NEW e \in -1 .. Len(name) - 1, NEW mid \in b .. e
    PROVE  /\ name[mid + 1].name = n => Found(n, p, b, e) = [hit |-> TRUE, at |-> mid]
           /\ name[mid + 1].name < n => Found(n, p, b, e) = Found(n, p, mid + 1, e)
           /\ ~(name[mid + 1].name < n) /\ name[mid + 1].name # n
                => Found(n, p, b, e) = Found(n, p, b, mid - 1)
<1>1. mid \in b .. e /\ mid + 1 \in 1 .. Len(name)
  BY NamesAreNumbers
<1>2. \A k \in 1 .. Len(name) : name[k].name \in Nat
  BY NamesAreNumbers
<1>3. ASSUME name[mid + 1].name = n PROVE mid = p
  <2>1. p <= mid
    BY <1>1, <1>2, <1>3
  <2>2. ASSUME p < mid PROVE FALSE
    <3>1. p + 1 \in 1 .. Len(name) /\ p + 1 < mid + 1
      BY <1>1, <2>2
    <3>2. name[p + 1].name < n
      BY <1>1, <1>3, <3>1 DEF Sorted
    <3> QED BY <3>1, <3>2
  <2> QED BY <1>1, <2>1, <2>2
<1>. p \in Int /\ b \in Int /\ e \in Int /\ mid \in Int /\ b <= mid /\ mid <= e
  BY <1>1
<1>4. ASSUME name[mid + 1].name = n PROVE Found(n, p, b, e) = [hit |-> TRUE, at |-> mid]
  <2>1. mid = p /\ name[p + 1].name = n
    BY <1>3, <1>4
  <2> QED BY <2>1, FoundHere
<1>5. ASSUME name[mid + 1].name < n
      PROVE  Found(n, p, b, e) = Found(n, p, mid + 1, e)
  <2>1. mid < p
    BY <1>1, <1>5
  <2> QED BY <2>1, FoundBeyond
<1>6. ASSUME ~(name[mid + 1].name < n), name[mid + 1].name # n
      PROVE  Found(n, p, b, e) = Found(n, p, b, mid - 1)
  <2>1. p <= mid
    BY <1>1, <1>6
  <2>2. CASE p = mid
    <3>1. p \in b .. e /\ name[p + 1].name # n
      BY <1>6, <2>2
    <3> QED BY <2>2, <3>1, FoundNot
  <2>3. CASE p < mid
    BY <2>3, FoundBefore
  <2> QED BY <1>1, <2>1, <2>2, <2>3
<1> QED BY <1>4, <1>5, <1>6

(* The function is defined: what it should return solves its equation.     *)
LEMMA HalvesFind ==
    ASSUME NEW n \in Nat, name \in Seq(Entry), Sorted(name),
           NEW p \in 0 .. Len(name),
           \A k \in 1 .. Len(name) : name[k].name < n <=> k <= p
    PROVE  \A r \in Part : Halves(n)[r] = Found(n, p, r[1], r[2])
<1> DEFINE g == [r \in Part |-> Found(n, p, r[1], r[2])]
           Eq(f) == f = [r \in Part |-> Turn(n, f, r[1], r[2])]
<1>1. Len(name) \in Nat
  BY NamesAreNumbers
<1>2. ASSUME NEW f, NEW b \in 0 .. Len(name), NEW e \in -1 .. Len(name) - 1,
             \A r \in Part : r[2] - r[1] < e - b => f[r] = Found(n, p, r[1], r[2])
      PROVE  Turn(n, f, b, e) = Found(n, p, b, e)
  <2> HIDE DEF g, Eq
  <2>1. CASE b > e
    BY <2>1 DEF Found, Turn
  <2>2. CASE b <= e
    <3> DEFINE mid == (b + e) \div 2
    <3>0. mid = (b + e) \div 2 /\ mid \in b .. e
      BY <1>1, <2>2
    <3> HIDE DEF mid
    <3>1. /\ name[mid + 1].name = n => Found(n, p, b, e) = [hit |-> TRUE, at |-> mid]
          /\ name[mid + 1].name < n => Found(n, p, b, e) = Found(n, p, mid + 1, e)
          /\ ~(name[mid + 1].name < n) /\ name[mid + 1].name # n
                => Found(n, p, b, e) = Found(n, p, b, mid - 1)
      <4>1. mid \in b .. e
        BY <3>0
      <4> QED BY <4>1, FoundHalves
    <3>2. Turn(n, f, b, e) = IF name[mid + 1].name = n THEN [hit |-> TRUE, at |-> mid]
                             ELSE IF name[mid + 1].name < n THEN f[<<mid + 1, e>>]
                             ELSE f[<<b, mid - 1>>]
      BY <2>2, <3>0 DEF Turn
    <3>3. <<mid + 1, e>> \in Part /\ <<b, mid - 1>> \in Part
      BY <1>1, <3>0 DEF Part
    <3>4. e - (mid + 1) < e - b /\ (mid - 1) - b < e - b
      BY <1>1, <3>0
    <3>5. /\ f[<<mid + 1, e>>] = Found(n, p, mid + 1, e)
          /\ f[<<b, mid - 1>>] = Found(n, p, b, mid - 1)
      BY <1>2, <3>3, <3>4
    <3> QED BY <3>1, <3>2, <3>5
  <2> QED BY <1>1, <2>1, <2>2
<1>3. \A r \in Part : r[1] \in 0 .. Len(name) /\ r[2] \in -1 .. Len(name) - 1 /\ r = <<r[1], r[2]>>
  BY DEF Part
<1>4. Eq(g)
  <2>1. ASSUME NEW r \in Part PROVE Found(n, p, r[1], r[2]) = Turn(n, g, r[1], r[2])
    <3>1. \A q \in Part : g[q] = Found(n, p, q[1], q[2])
      OBVIOUS
    <3> HIDE DEF g
    <3> QED BY <1>2, <1>3, <3>1
  <2>2. [r \in Part |-> Found(n, p, r[1], r[2])] = [r \in Part |-> Turn(n, g, r[1], r[2])]
    <3> HIDE DEF g
    <3> QED BY <2>1
  <2> QED BY <2>2
<1> DEFINE h == Halves(n)
<1>5. Eq(h)
  <2>1. \E f : Eq(f)
    <3> HIDE DEF g, Eq
    <3> QED BY <1>4
  <2>2. Eq(CHOOSE f : Eq(f))
    <3> HIDE DEF Eq
    <3> QED BY <2>1
  <2> QED BY <2>2 DEF Halves
<1>6. \A r \in Part : h[r] = Turn(n, h, r[1], r[2])
  <2> HIDE DEF h
  <2> QED BY <1>5
<1> HIDE DEF h, g, Eq
(* Every solution agrees with it where the part is narrow, hence everywhere. *)
<1> DEFINE T == {k \in Nat : \A r \in Part : r[2] - r[1] < k - 1 =>
                                h[r] = Found(n, p, r[1], r[2])}
<1>7. 0 \in T
  <2>1. \A r \in Part : r[2] - r[1] < 0 - 1 => h[r] = Found(n, p, r[1], r[2])
    <3> SUFFICES ASSUME NEW r \in Part, r[2] - r[1] < 0 - 1
                 PROVE  h[r] = Found(n, p, r[1], r[2])
      OBVIOUS
    <3>1. r[1] > r[2]
      BY <1>1, <1>3
    <3> QED BY <1>6, <3>1 DEF Turn, Found
  <2> QED BY <2>1
<1>8. ASSUME NEW k \in Nat, k \in T PROVE k + 1 \in T
  <2>1. ASSUME NEW r \in Part, r[2] - r[1] < (k + 1) - 1
        PROVE  h[r] = Found(n, p, r[1], r[2])
    <3>1. r[1] \in 0 .. Len(name) /\ r[2] \in -1 .. Len(name) - 1
      BY <1>3
    <3>2. ASSUME NEW q \in Part, q[2] - q[1] < r[2] - r[1]
          PROVE  h[q] = Found(n, p, q[1], q[2])
      <4>1. q[2] - q[1] < k - 1
        BY <1>1, <1>3, <2>1, <3>1, <3>2
      <4> QED BY <1>8, <4>1
    <3>3. Turn(n, h, r[1], r[2]) = Found(n, p, r[1], r[2])
      <4> HIDE DEF T
      <4> QED BY <1>2, <3>1, <3>2
    <3> QED BY <1>6, <3>3
  <2> QED BY <2>1
<1>9. Len(name) + 1 \in T
  <2> HIDE DEF T
  <2>1. Len(name) + 1 \in Nat
    BY <1>1
  <2>2. \A k \in 0 .. (Len(name) + 1) - 1 : k \in T => k + 1 \in T
    BY <1>1, <1>8
  <2>3. \A k \in 0 .. Len(name) + 1 : k \in T
    BY <1>7, <2>1, <2>2, Inductive
  <2> QED BY <1>1, <2>3
<1>10. ASSUME NEW r \in Part PROVE h[r] = Found(n, p, r[1], r[2])
  <2>1. r[2] - r[1] < (Len(name) + 1) - 1
    BY <1>1, <1>3
  <2> QED BY <1>9, <2>1
<1> QED BY <1>10 DEF h

(* The place the search leads to.                                          *)
LEMMA SearchAt ==
    ASSUME NEW n \in Name, name \in Seq(Entry), Sorted(name)
    PROVE  \E p \in 0 .. Len(name) :
              /\ \A k \in 1 .. Len(name) : name[k].name < n <=> k <= p
              /\ Search(n) = IF p < Len(name) /\ name[p + 1].name = n
                             THEN [hit |-> TRUE, at |-> p]
                             ELSE [hit |-> FALSE, at |-> p]
<1>1. n \in Nat /\ Len(name) \in Nat
  BY SlotAssumption, NamesAreNumbers
<1>2. PICK p \in 0 .. Len(name) : \A k \in 1 .. Len(name) : name[k].name < n <=> k <= p
  BY <1>1, PlaceOf
<1>3. <<0, Len(name) - 1>> \in Part
  BY <1>1 DEF Part
<1>4. Search(n) = Found(n, p, 0, Len(name) - 1)
  BY <1>1, <1>2, <1>3, HalvesFind, SearchIs
<1>5. Found(n, p, 0, Len(name) - 1) = IF p < Len(name) /\ name[p + 1].name = n
                             THEN [hit |-> TRUE, at |-> p]
                             ELSE [hit |-> FALSE, at |-> p]
  <2>1. CASE p < Len(name)
    BY <1>1, <2>1 DEF Found
  <2>2. CASE p = Len(name) /\ p = 0
    BY <1>1, <2>2 DEF Found
  <2>3. CASE p = Len(name) /\ p # 0
    BY <1>1, <2>3 DEF Found
  <2> QED BY <1>1, <2>1, <2>2, <2>3
<1> QED BY <1>2, <1>4, <1>5

(* In an ascending table the search finds what there is.                   *)
LEMMA SortedIsFound ==
    ASSUME name \in Seq(Entry), Sorted(name), Len(name) <= name_cap
    PROVE  SearchFinds
<1>1. \A k \in DOMAIN name : name[k] \in Entry
  BY NamesAreNumbers
<1>2. ASSUME NEW n \in Name
      PROVE  {name[k].handle : k \in {j \in DOMAIN name : name[j].name = n}}
               = IF skynet_handle_findname(n) = 0
                 THEN {} ELSE {skynet_handle_findname(n)}
  <2>1. PICK p \in 0 .. Len(name) :
              /\ \A k \in 1 .. Len(name) : name[k].name < n <=> k <= p
              /\ Search(n) = IF p < Len(name) /\ name[p + 1].name = n
                             THEN [hit |-> TRUE, at |-> p]
                             ELSE [hit |-> FALSE, at |-> p]
    BY SearchAt
  <2>2. Len(name) \in Nat /\ DOMAIN name = 1 .. Len(name) /\ n \in Nat
        /\ \A k \in 1 .. Len(name) : name[k].name \in Nat
    BY SlotAssumption, NamesAreNumbers
  <2>3. ASSUME NEW j \in DOMAIN name, name[j].name = n PROVE j = p + 1
    <3>1. ~(j <= p)
      BY <2>1, <2>2, <2>3
    <3>2. ASSUME j > p + 1 PROVE FALSE
      <4>1. p + 1 \in DOMAIN name /\ name[p + 1].name < n
        BY <2>2, <2>3, <3>2 DEF Sorted
      <4> QED BY <2>1, <2>2, <4>1
    <3> QED BY <2>2, <3>1, <3>2
  <2>4. CASE p < Len(name) /\ name[p + 1].name = n
    <3>1. skynet_handle_findname(n) = name[p + 1].handle
      BY <2>1, <2>4 DEF skynet_handle_findname
    <3>2. p + 1 \in DOMAIN name /\ name[p + 1].handle # 0
      <4>1. p + 1 \in DOMAIN name
        BY <2>2, <2>4
      <4> QED BY <1>1, <4>1 DEF Entry, Handles
    <3>3. {j \in DOMAIN name : name[j].name = n} = {p + 1}
      BY <2>3, <2>4, <3>2
    <3> QED BY <3>1, <3>2, <3>3
  <2>5. CASE ~(p < Len(name) /\ name[p + 1].name = n)
    <3>1. skynet_handle_findname(n) = 0
      BY <2>1, <2>5 DEF skynet_handle_findname
    <3>2. {j \in DOMAIN name : name[j].name = n} = {}
      BY <2>2, <2>3, <2>5
    <3> QED BY <3>1, <3>2
  <2> QED BY <2>4, <2>5
<1> QED BY <1>1, <1>2 DEF SearchFinds, Entry

(* A new name goes where the search ended.                                 *)
LEMMA InsertSorted ==
    ASSUME name \in Seq(Entry), Sorted(name), NEW n \in Name, NEW h \in Handles,
           ~Search(n).hit
    PROVE  LET s == _insert_name_before(name, Search(n).at + 1, [name |-> n, handle |-> h])
           IN s \in Seq(Entry) /\ Sorted(s) /\ Len(s) = Len(name) + 1
<1>1. PICK p \in 0 .. Len(name) :
              /\ \A k \in 1 .. Len(name) : name[k].name < n <=> k <= p
              /\ Search(n) = IF p < Len(name) /\ name[p + 1].name = n
                             THEN [hit |-> TRUE, at |-> p]
                             ELSE [hit |-> FALSE, at |-> p]
  BY SearchAt
<1> DEFINE e == [name |-> n, handle |-> h]
           s == SubSeq(name, 1, p) \o <<e>> \o SubSeq(name, p + 1, Len(name))
<1>2. Search(n).at = p /\ (p < Len(name) => name[p + 1].name # n)
  BY <1>1
<1>3. Len(name) \in Nat /\ DOMAIN name = 1 .. Len(name) /\ n \in Nat
      /\ \A k \in 1 .. Len(name) : name[k].name \in Nat /\ name[k] \in Entry
  BY SlotAssumption, NamesAreNumbers
<1>4. _insert_name_before(name, Search(n).at + 1, e) = s
  <2>1. (p + 1) - 1 = p
    BY <1>3
  <2> HIDE DEF e
  <2> QED BY <1>2, <2>1 DEF _insert_name_before, InsertAt
<1>5. e \in Entry /\ e.name = n
  BY DEF Entry
<1> HIDE DEF e
<1>6. /\ s \in Seq(Entry) /\ Len(s) = Len(name) + 1
      /\ \A k \in 1 .. p : s[k] = name[k]
      /\ s[p + 1] = e
      /\ \A k \in p + 2 .. Len(name) + 1 : s[k] = name[k - 1]
  <2> DEFINE a == SubSeq(name, 1, p)
             c == SubSeq(name, p + 1, Len(name))
  <2>1. a \in Seq(Entry) /\ Len(a) = p /\ \A k \in 1 .. p : a[k] = name[k]
    BY <1>3
  <2>2. c \in Seq(Entry) /\ Len(c) = Len(name) - p
        /\ \A k \in 1 .. Len(name) - p : c[k] = name[p + k]
    <3>1. SubSeq(name, p + 1, Len(name)) \in Seq(Entry)
      BY <1>3, SubSeqProperties
    <3>2. \A k \in 1 .. Len(name) - p : c[k] = name[p + 1 + k - 1]
      BY <1>3, SubSeqProperties
    <3>3. Len(c) = Len(name) - p
      <4>1. Len(c) = IF p + 1 <= Len(name) THEN Len(name) - (p + 1) + 1 ELSE 0
        BY <1>3, SubSeqProperties
      <4> HIDE DEF c
      <4>2. Len(name) \in Nat /\ p \in Nat /\ p <= Len(name)
        BY <1>3
      <4>3. p + 1 <= Len(name) \/ p = Len(name)
        BY <4>2
      <4> QED BY <4>1, <4>2, <4>3
    <3>4. \A k \in 1 .. Len(name) - p : p + 1 + k - 1 = p + k
      BY <1>3
    <3> QED BY <3>1, <3>2, <3>3, <3>4
  <2> HIDE DEF a, c
  <2> DEFINE ae == a \o <<e>>
  <2>3. ae \in Seq(Entry) /\ Len(ae) = p + 1 /\ ae[p + 1] = e
        /\ \A k \in 1 .. p : ae[k] = a[k]
    BY <1>3, <1>5, <2>1
  <2> HIDE DEF ae
  <2>4. /\ ae \o c \in Seq(Entry) /\ Len(ae \o c) = Len(name) + 1
        /\ \A k \in 1 .. p + 1 : (ae \o c)[k] = ae[k]
        /\ \A k \in p + 2 .. Len(name) + 1 : (ae \o c)[k] = c[k - (p + 1)]
    <3> HIDE DEF s, e
    <3>0. Len(ae) = p + 1 /\ Len(c) = Len(name) - p /\ ae \in Seq(Entry) /\ c \in Seq(Entry)
      BY <2>2, <2>3
    <3>1a. ae \o c \in Seq(Entry) /\ Len(ae \o c) = Len(ae) + Len(c)
      BY <3>0, ConcatProperties
    <3>1. ae \o c \in Seq(Entry) /\ Len(ae \o c) = (p + 1) + (Len(name) - p)
      BY <3>0, <3>1a
    <3>2a. \A k \in 1 .. Len(ae) + Len(c) :
             (ae \o c)[k] = IF k <= Len(ae) THEN ae[k] ELSE c[k - Len(ae)]
      BY <3>0, ConcatProperties
    <3> HIDE DEF ae, c
    <3>2. \A k \in 1 .. (p + 1) + (Len(name) - p) :
             (ae \o c)[k] = IF k <= p + 1 THEN ae[k] ELSE c[k - (p + 1)]
      BY <3>0, <3>2a
    <3>3. p \in Nat /\ Len(name) \in Nat /\ p <= Len(name)
      BY <1>3
    <3>4. Len(ae \o c) = Len(name) + 1
      BY <3>1, <3>3
    <3>5. ASSUME NEW k \in 1 .. p + 1 PROVE (ae \o c)[k] = ae[k]
      <4>1. k \in 1 .. (p + 1) + (Len(name) - p) /\ k <= p + 1
        BY <3>3
      <4> QED BY <3>2, <4>1
    <3>6. ASSUME NEW k \in p + 2 .. Len(name) + 1
          PROVE  (ae \o c)[k] = c[k - (p + 1)]
      <4>1. k \in 1 .. (p + 1) + (Len(name) - p) /\ ~(k <= p + 1)
        BY <3>3
      <4> QED BY <3>2, <4>1
    <3> QED BY <3>1, <3>4, <3>5, <3>6
  <2>5. \A k \in p + 2 .. Len(name) + 1 : c[k - (p + 1)] = name[k - 1]
    <3> SUFFICES ASSUME NEW k \in p + 2 .. Len(name) + 1
                 PROVE  c[k - (p + 1)] = name[k - 1]
      OBVIOUS
    <3>1. k - (p + 1) \in 1 .. Len(name) - p /\ p + (k - (p + 1)) = k - 1
      BY <1>3
    <3> QED BY <2>2, <3>1
  <2>6. s = ae \o c
    BY DEF ae, a, c
  <2> HIDE DEF s, e
  <2>7. s \in Seq(Entry) /\ Len(s) = Len(name) + 1
    BY <2>4, <2>6
  <2>8. \A k \in 1 .. p + 1 : s[k] = ae[k]
    BY <2>4, <2>6
  <2>9. \A k \in 1 .. p : s[k] = name[k]
    <3> SUFFICES ASSUME NEW k \in 1 .. p PROVE s[k] = name[k]
      OBVIOUS
    <3>1. k \in 1 .. p + 1
      BY <1>3
    <3> QED BY <2>1, <2>3, <2>8, <3>1
  <2>10. p + 1 \in 1 .. p + 1
    BY <1>3
  <2>11. s[p + 1] = e
    BY <2>3, <2>8, <2>10
  <2>12. \A k \in p + 2 .. Len(name) + 1 : s[k] = name[k - 1]
    BY <2>4, <2>5, <2>6
  <2> QED BY <2>7, <2>9, <2>11, <2>12
<1> HIDE DEF s
<1>7. ASSUME NEW i \in 1 .. Len(name) + 1, NEW j \in 1 .. Len(name) + 1, i < j
      PROVE  s[i].name < s[j].name
  <2>1. CASE j <= p
    <3>1. /\ s[i] = name[i] /\ s[j] = name[j]
          /\ i \in 1 .. Len(name) /\ j \in 1 .. Len(name)
      BY <1>3, <1>6, <1>7, <2>1
    <3> QED BY <1>3, <1>7, <3>1 DEF Sorted
  <2>2. CASE j = p + 1
    BY <1>1, <1>3, <1>5, <1>6, <1>7, <2>2
  <2>3. CASE j > p + 1
    <3>1. j - 1 \in 1 .. Len(name) /\ s[j] = name[j - 1] /\ ~(j - 1 <= p)
      BY <1>3, <1>6, <2>3
    <3>2. n < name[j - 1].name
      <4>1. name[j - 1].name >= n
        BY <1>1, <1>3, <3>1
      <4>2. name[j - 1].name # n
        <5>1. CASE j - 1 = p + 1
          BY <1>2, <3>1, <5>1
        <5>2. CASE j - 1 > p + 1
          <6>1. p + 1 \in 1 .. Len(name) /\ name[p + 1].name < name[j - 1].name
            <7>1. p + 1 \in DOMAIN name /\ j - 1 \in DOMAIN name /\ p + 1 < j - 1
              BY <1>3, <3>1, <5>2
            <7> QED BY <1>3, <7>1 DEF Sorted
          <6>2. ~(name[p + 1].name < n)
            BY <1>1, <6>1
          <6> QED BY <1>3, <3>1, <6>1, <6>2
        <5> QED BY <1>3, <3>1, <5>1, <5>2
      <4> QED BY <1>3, <3>1, <4>1, <4>2
    <3>3. CASE i <= p
      <4>1. s[i] = name[i] /\ i \in 1 .. Len(name) /\ i < j - 1
        BY <1>3, <1>6, <2>3, <3>3
      <4> QED BY <1>3, <3>1, <4>1 DEF Sorted
    <3>4. CASE i = p + 1
      BY <1>5, <1>6, <3>1, <3>2, <3>4
    <3>5. CASE i > p + 1
      <4>1. s[i] = name[i - 1] /\ i - 1 \in 1 .. Len(name) /\ i - 1 < j - 1
        BY <1>3, <1>6, <1>7, <3>5
      <4> QED BY <1>3, <3>1, <4>1 DEF Sorted
    <3> QED BY <1>3, <3>3, <3>4, <3>5
  <2> QED BY <1>3, <2>1, <2>2, <2>3
<1> QED BY <1>3, <1>4, <1>6, <1>7 DEF Sorted, e

-----------------------------------------------------------------------------
(* The table of names stays in order, whoever launches services.           *)
LEMMA NamesInit == Init => NamesInv
<1> SUFFICES ASSUME Init PROVE NamesInv
  OBVIOUS
<1>1. DOMAIN slot = 0 .. DEFAULT_SLOT_SIZE - 1 /\ slot_size = DEFAULT_SLOT_SIZE
  BY IntervalSize, SlotAssumption DEF Init, slot_size
<1>2. name \in Seq(Entry) /\ DOMAIN name = {}
  BY DEF Init
<1> QED BY <1>1, <1>2, SlotAssumption DEF Init, NamesInv, Sorted

(* It does not depend on the rest of the state.                            *)
LEMMA NamesUnchanged ==
    ASSUME NamesInv, UNCHANGED <<slot, handle_index, name, name_cap, given>>
    PROVE  NamesInv'
BY DEF NamesInv, Sorted, slot_size

(* A slot is set in place.                                                 *)
LEMMA SlotSet ==
    ASSUME NamesInv, NEW i, NEW c, slot' = [slot EXCEPT ![i] = c]
    PROVE  slot_size' = slot_size /\ DOMAIN slot' = 0 .. slot_size' - 1
BY DEF NamesInv, slot_size

(* What is put into the table of names is in order.                        *)
LEMMA NamesRetire ==
    ASSUME NamesInv, NEW h, Retire(h), UNCHANGED <<handle_index, name_cap, given>>
    PROVE  NamesInv'
<1>1. CASE skynet_handle_grab(h) = None
  BY <1>1, NamesUnchanged DEF Retire
<1>2. CASE skynet_handle_grab(h) # None
  <2>1. slot' = [slot EXCEPT ![Hash(h, slot_size)] = None] /\ name' = Compacted(h)
    BY <1>2 DEF Retire
  <2>2. name' \in Seq(Entry) /\ Sorted(name') /\ Len(name') <= Len(name)
    BY <2>1, CompactedSorted DEF NamesInv
  <2>3. Len(name') \in Nat /\ Len(name) \in Nat
    BY <2>2 DEF NamesInv
  <2>4. slot_size' = slot_size /\ DOMAIN slot' = 0 .. slot_size' - 1
    BY <2>1, SlotSet
  <2>5. Sorted(name)' <=> Sorted(name')
    BY DEF Sorted
  <2>6. Len(name') <= name_cap' /\ name_cap' \in Nat \ {0}
    BY <2>2, <2>3 DEF NamesInv
  <2> QED BY <2>2, <2>4, <2>5, <2>6 DEF NamesInv
<1> QED BY <1>1, <1>2

(* Every step keeps the names in order.                                    *)
LEMMA NamesStep == NamesInv /\ [Next]_vars => NamesInv'
<1> SUFFICES ASSUME NamesInv, [Next]_vars PROVE NamesInv'
  OBVIOUS
<1>1. ASSUME NEW t \in Launcher, NEW c \in Ctx, BeginLaunch(t, c) PROVE NamesInv'
  BY <1>1, NamesUnchanged DEF BeginLaunch
<1>2. ASSUME NEW t \in Launcher, Register(t) PROVE NamesInv'
  <2>1. PICK k \in FreeTurns :
          /\ slot' = [slot EXCEPT ![Hash(Tried(k), slot_size)] = launch[t].ctx]
          /\ handle_index' = Tried(k) + 1
          /\ DOMAIN given' = DOMAIN given \cup {Tried(k)}
          /\ name' = name /\ name_cap' = name_cap
    BY <1>2 DEF Register, NextIndex
  <2>2. Tried(k) \in Handles
    BY TriedOK DEF FreeTurns, NamesInv
  <2>3. handle_index' \in 1 .. HANDLE_MASK + 1 /\ DOMAIN given' \subseteq Handles
    <3>1. handle_index' \in 1 .. HANDLE_MASK + 1
      BY <2>1, <2>2, SlotAssumption DEF Handles
    <3>2. DOMAIN given' \subseteq Handles
      BY <2>1, <2>2 DEF NamesInv
    <3> QED BY <3>1, <3>2
  <2>4. slot_size' = slot_size /\ DOMAIN slot' = 0 .. slot_size' - 1
    BY <2>1, SlotSet
  <2> QED BY <2>1, <2>3, <2>4 DEF NamesInv, Sorted
<1>3. ASSUME NEW t \in Launcher, Expand(t) PROVE NamesInv'
  <2>1. UNCHANGED <<handle_index, name, name_cap, given>>
    BY <1>3 DEF Expand
  <2>2. CASE slot' = slot
    BY <2>1, <2>2, NamesUnchanged
  <2>3. CASE slot' # slot
    <3>1. DOMAIN slot' = 0 .. 2 * slot_size - 1
      BY <1>3, <2>3 DEF Expand
    <3>2. 2 * slot_size \in Nat
      BY DEF NamesInv
    <3>3. slot_size' = 2 * slot_size
      BY <3>1, <3>2, IntervalSize DEF slot_size
    <3> QED BY <2>1, <3>1, <3>2, <3>3 DEF NamesInv, Sorted
  <2> QED BY <2>2, <2>3
<1>4. ASSUME NEW t \in Launcher, AssignHandle(t) PROVE NamesInv'
  BY <1>4, NamesUnchanged DEF AssignHandle
<1>5. ASSUME NEW h \in Handles, skynet_handle_retire(h) PROVE NamesInv'
  BY <1>5, NamesRetire DEF skynet_handle_retire
<1>6. CASE RetireAllBegin
  BY <1>6, NamesUnchanged DEF RetireAllBegin
<1>7. CASE RetireAllRead
  BY <1>7, NamesUnchanged DEF RetireAllRead
<1>7t. CASE RetireAllTest
  BY <1>7t, NamesUnchanged DEF RetireAllTest
<1>8. CASE RetireAllRetire
  BY <1>8, NamesRetire DEF RetireAllRetire
<1>9. ASSUME NEW n \in Name, NEW h \in DOMAIN given, skynet_handle_namehandle(n, h)
      PROVE  NamesInv'
  <2>1. /\ ~Search(n).hit
        /\ name_cap' = IF Len(name) >= name_cap THEN 2 * name_cap ELSE name_cap
        /\ \/ name' = name
           \/ name' = _insert_name_before(name, Search(n).at + 1, [name |-> n, handle |-> h])
        /\ UNCHANGED <<slot, handle_index, given>>
    BY <1>9 DEF skynet_handle_namehandle
  <2>2. h \in Handles
    BY DEF NamesInv
  <2>3. name' \in Seq(Entry) /\ Sorted(name') /\ Len(name') <= Len(name) + 1
    <3>1. CASE name' = name
      BY <3>1 DEF NamesInv, Sorted
    <3>2. CASE name' # name
      BY <2>1, <2>2, <3>2, InsertSorted DEF NamesInv
    <3> QED BY <3>1, <3>2
  <2>4. name_cap' \in Nat \ {0} /\ Len(name) + 1 <= name_cap'
    <3>1. Len(name) \in Nat
      BY DEF NamesInv
    <3> QED BY <2>1, <3>1 DEF NamesInv
  <2>5. Len(name') \in Nat /\ Len(name) \in Nat
    BY <2>3 DEF NamesInv
  <2> QED BY <2>1, <2>3, <2>4, <2>5 DEF NamesInv, Sorted, slot_size
<1>10. CASE UNCHANGED vars
  BY <1>10, NamesUnchanged DEF vars
<1> QED BY <1>1, <1>2, <1>3, <1>4, <1>5, <1>6, <1>7, <1>7t, <1>8, <1>9, <1>10 DEF Next

(* The binary search finds exactly the names in the table, through every   *)
(* insertion and every compaction (_insert_name, skynet_handle_retire,     *)
(* skynet_handle_findname).                                                *)
THEOREM NamesAreFound == Spec => []SearchFinds
<1>1. NamesInv => SearchFinds
  BY SortedIsFound DEF NamesInv
<1> QED BY <1>1, NamesInit, NamesStep, PTL DEF Spec

-----------------------------------------------------------------------------
(* What stops growth. The sizes of the table divide the number of handles. *)
CalmInv ==
    /\ TableInv /\ NamesInv /\ AssertionsHold
    /\ (HANDLE_MASK + 1) % slot_size = 0

(* A scan that found nothing has seen a context in every slot, but for     *)
(* slot 0 when it came past HANDLE_MASK: n slots, m handles before that.   *)
LEMMA PassedBy ==
    ASSUME TableInv, (HANDLE_MASK + 1) % slot_size = 0, FreeTurns = {},
           2 * slot_size - 1 <= HANDLE_MASK,
           NEW i \in 0 .. slot_size - 1, slot[i] = None
    PROVE  Crosses /\ i = 0
<1> DEFINE n == slot_size
           M == HANDLE_MASK
           x == handle_index
           m == M + 1 - x
<1>1. /\ n \in Nat \ {0} /\ n <= M /\ M \in Nat \ {0} /\ x \in 1 .. M + 1
      /\ (M + 1) % n = 0 /\ i \in 0 .. n - 1
  BY SlotAssumption DEF TableInv, Table, Reachable, TypeOK
<1>2. \A k \in 0 .. n - 1 : Tried(k) % n # i
  <2> SUFFICES ASSUME NEW k \in 0 .. n - 1, Tried(k) % n = i PROVE FALSE
    OBVIOUS
  <2>1. k \in FreeTurns
    BY DEF FreeTurns, Hash
  <2> QED BY <2>1
<1>3. /\ \A k \in 0 .. n - 1 : Tried(k) = ((x + k - 1) % M) + 1
      /\ Crosses <=> x <= M /\ x + n - 1 > M
  BY DEF Tried, Crosses
<1> HIDE DEF n, M, x
<1>4. \A k \in 0 .. n - 1 : x + k <= M => Tried(k) = x + k
  <2> SUFFICES ASSUME NEW k \in 0 .. n - 1, x + k <= M PROVE Tried(k) = x + k
    OBVIOUS
  <2>1. PICK r \in 0 .. M - 1 : r = x + k - 1
    <3>1. x + k - 1 \in 0 .. M - 1
      BY <1>1
    <3> QED BY <3>1
  <2>2. r % M = r
    BY <1>1, RemainderIs
  <2>3. Tried(k) = r + 1
    BY <1>3, <2>1, <2>2
  <2> QED BY <1>1, <2>1, <2>3
<1>5. \A k \in 0 .. n - 1 : x + k > M => Tried(k) = x + k - M
  <2> SUFFICES ASSUME NEW k \in 0 .. n - 1, x + k > M PROVE Tried(k) = x + k - M
    OBVIOUS
  <2>1. PICK r \in 0 .. M - 1 : r = x + k - 1 - M
    <3>1. x + k - 1 - M \in 0 .. M - 1
      BY <1>1
    <3> QED BY <3>1
  <2>2. x + k - 1 \in Nat /\ 1 \in Nat /\ x + k - 1 = 1 * M + r
    BY <1>1, <2>1
  <2>3. (x + k - 1) % M = r
    BY <1>1, <2>2, RemainderIs
  <2>4. Tried(k) = r + 1
    BY <1>3, <2>3
  <2> QED BY <1>1, <2>1, <2>4
<1>6. CASE x + n - 1 <= M
  <2>1. PICK k \in 0 .. n - 1 : (x + k) % n = i
    <3>1. x \in Nat
      BY <1>1
    <3> QED BY Zenon, <1>1, <3>1, TurnOf
  <2>2. Tried(k) = x + k
    BY <1>1, <1>4, <1>6
  <2> QED BY <1>2, <2>1, <2>2
<1>7. CASE x = M + 1
  <2>1. PICK one \in Nat : one = 1
    OBVIOUS
  <2>2. PICK k \in 0 .. n - 1 : (one + k) % n = i
    BY Zenon, <1>1, TurnOf
  <2>3. Tried(k) = one + k
    BY <1>1, <1>5, <1>7, <2>1
  <2> QED BY <1>2, <2>2, <2>3
<1>8. CASE x + n - 1 > M /\ x # M + 1
  <2>1. Crosses /\ m \in 1 .. n - 1
    BY <1>1, <1>3, <1>8
  <2>2. ASSUME i # 0, i <= n - m PROVE FALSE
    <3>1. PICK k \in 0 .. n - 1 : k = m - 1 + i
      <4>1. m - 1 + i \in 0 .. n - 1
        BY <1>1, <2>1, <2>2
      <4> QED BY <4>1
    <3>2. Tried(k) = i
      BY <1>1, <1>5, <2>2, <3>1
    <3>3. i % n = i
      BY <1>1, RemainderIs
    <3> QED BY <1>2, <3>2, <3>3
  <2>3. ASSUME i > n - m PROVE FALSE
    <3>1. PICK k \in 0 .. n - 1 : k = i - n + m
      <4>1. i - n + m \in 0 .. n - 1
        BY <1>1, <2>1, <2>3
      <4> QED BY <4>1
    <3>2. Tried(k) = (M + 1) - n + i
      <4>1. x + k <= M /\ x + k = (M + 1) - n + i
        BY <1>1, <3>1
      <4> QED BY <1>4, <4>1
    <3>3. PICK q \in Nat, r \in 0 .. n - 1, y \in Nat :
            r = (M + 1) % n /\ (y = q * n /\ M + 1 = y + r)
      <4>1. M + 1 \in Nat
        BY <1>1
      <4> QED BY <1>1, <4>1, Division
    <3>4. M + 1 = q * n /\ q # 0
      <4>1. r = 0
        BY <1>1, <3>3
      <4>2. M + 1 = y /\ y # 0
        BY <1>1, <3>3, <4>1
      <4>3. q # 0
        BY <1>1, <3>3, <4>2
      <4> QED BY <3>3, <4>2, <4>3
    <3>5. q - 1 \in Nat /\ (q - 1) * n = q * n - n
      BY <1>1, <3>4
    <3>6. (M + 1) - n + i \in Nat /\ (M + 1) - n + i = (q - 1) * n + i
      BY <1>1, <3>4, <3>5
    <3>7. ((M + 1) - n + i) % n = i
      BY <1>1, <3>5, <3>6, RemainderIs
    <3> QED BY <1>2, <3>2, <3>7
  <2> QED BY <1>1, <2>1, <2>2, <2>3
<1> QED BY <1>1, <1>6, <1>7, <1>8

(* Two contexts come to one slot of the doubled table only when a handle   *)
(* was not stored.                                                         *)
LEMMA ClashIsEarly ==
    ASSUME TableInv, ~early, \A i \in DOMAIN slot : slot[i] # None,
           \A i \in DOMAIN slot : handle[slot[i]] # 0,
           NEW i \in DOMAIN slot, NEW j \in DOMAIN slot,
           Hash(handle[slot[i]], 2 * slot_size) = Hash(handle[slot[j]], 2 * slot_size)
    PROVE  i = j
<1>1. slot_size \in Nat \ {0} /\ DOMAIN slot = 0 .. slot_size - 1
  BY DEF TableInv, Table
<1>2. ASSUME NEW a \in DOMAIN slot
      PROVE  /\ handle[slot[a]] \in Nat
             /\ handle[slot[a]] % slot_size = a
  <2>1. slot[a] \in Ctx /\ handle[slot[a]] # 0 /\ handle[slot[a]] \in Nat
    BY <1>2 DEF TableInv, Reachable, TypeOK
  <2>2. /\ Hash(handle[slot[a]], slot_size) \in DOMAIN slot
        /\ slot[Hash(handle[slot[a]], slot_size)] = slot[a]
    BY <1>1, <2>1, RunningPlace
  <2>3. Hash(handle[slot[a]], slot_size) = a
    BY <2>2 DEF TableInv, Reachable
  <2> QED BY <2>1, <2>3 DEF Hash
<1> DEFINE a == handle[slot[i]]
           b == handle[slot[j]]
           n == slot_size
<1>3. a \in Nat /\ b \in Nat /\ n \in Nat \ {0} /\ a % n = i /\ b % n = j
      /\ a % (2 * n) = b % (2 * n) /\ i \in 0 .. n - 1 /\ j \in 0 .. n - 1
  BY <1>1, <1>2 DEF Hash
<1> HIDE DEF a, b, n
<1>4. a % (2 * n) \in {i, i + n} /\ b % (2 * n) \in {j, j + n}
  BY <1>3, Doubled
<1>5. PICK d : d = a % (2 * n) /\ d = b % (2 * n)
  BY <1>3
<1>6. d \in {i, i + n} /\ d \in {j, j + n}
  BY Zenon, <1>4, <1>5
<1> QED BY <1>3, <1>6

(* Growth and its assertions.                                              *)
LEMMA CalmExpand ==
    ASSUME CalmInv, fault = "none", NEW t \in Launcher, Expand(t)
    PROVE  AssertionsHold' /\ (HANDLE_MASK + 1) % slot_size' = 0
<1> DEFINE old == DOMAIN slot
           goes(i) == Hash(handle[slot[i]], 2 * slot_size)
<1>1. TableInv /\ slot_size \in Nat \ {0} /\ old = 0 .. slot_size - 1
      /\ (HANDLE_MASK + 1) % slot_size = 0
  BY DEF CalmInv, TableInv, Table
<1>2. /\ FreeTurns = {} /\ Registering(t)
      /\ UNCHANGED <<handle_index, name>>
      /\ fault' = IF 2 * slot_size - 1 > HANDLE_MASK THEN "assert"
                  ELSE IF \E i \in old : slot[i] = None THEN "null"
                  ELSE IF \E i, j \in old : i # j /\ goes(i) = goes(j) THEN "assert"
                  ELSE "none"
      /\ fault' # "none" => slot' = slot
      /\ early' = (early \/ \E i \in old : slot[i] # None /\ handle[slot[i]] = 0)
  BY DEF Expand, NewHash
<1>3. early' => \E u, v \in Launcher : u # v
  <2>1. CASE early
    BY <2>1 DEF CalmInv, AssertionsHold
  <2>2. CASE \E i \in old : slot[i] # None /\ handle[slot[i]] = 0
    <3>1. PICK i \in old : slot[i] # None /\ handle[slot[i]] = 0
      BY <2>2
    <3>2. slot[i] \in Registered
      BY <1>1, <3>1 DEF Registered, TableInv, Reachable, TypeOK
    <3>3. PICK u \in Launcher : launch[u].handle # 0
      BY <1>1, <3>1, <3>2 DEF TableInv, LaunchInv
    <3>4. launch[t].handle = 0
      BY <1>2 DEF Registering
    <3> QED BY <3>3, <3>4
  <2> QED BY <1>2, <2>1, <2>2
<1>4. CASE fault' = "none"
  <2>1. slot_size' = 2 * slot_size /\ 2 * slot_size - 1 <= HANDLE_MASK
    BY <1>1, <1>4, Grown
  <2>2. slot_size \in 1 .. HANDLE_MASK
    BY <1>1, <2>1, SlotAssumption
  <2>3. (HANDLE_MASK + 1) % (2 * slot_size) = 0
    BY <1>1, <2>2, MaskAssumption
  <2> QED BY <1>3, <1>4, <2>1, <2>3 DEF AssertionsHold
<1>5. CASE fault' # "none"
  <2>1. slot' = slot /\ slot_size' = slot_size /\ (Crosses' <=> Crosses)
    BY <1>2, <1>5 DEF slot_size, Crosses
  <2>2. CASE 2 * slot_size - 1 > HANDLE_MASK
    BY <1>1, <1>2, <1>3, <2>1, <2>2 DEF AssertionsHold
  <2>3. CASE ~(2 * slot_size - 1 > HANDLE_MASK) /\ \E i \in old : slot[i] = None
    <3>1. PICK i \in old : slot[i] = None
      BY <2>3
    <3>2. 2 * slot_size - 1 <= HANDLE_MASK
      BY <1>1, <2>3, SlotAssumption
    <3>3. Crosses /\ slot[0] = None
      BY <1>1, <1>2, <3>1, <3>2, PassedBy
    <3> QED BY <1>1, <1>2, <1>3, <2>1, <2>3, <3>3 DEF AssertionsHold
  <2>4. CASE ~(2 * slot_size - 1 > HANDLE_MASK) /\ ~ \E i \in old : slot[i] = None
    <3>1. fault' = "assert" /\ \E i, j \in old : i # j /\ goes(i) = goes(j)
      BY <1>2, <1>5, <2>4
    <3>2. early'
      BY <1>1, <1>2, <2>4, <3>1, ClashIsEarly
    <3> QED BY <1>1, <1>3, <2>1, <3>1, <3>2 DEF AssertionsHold
  <2> QED BY <2>2, <2>3, <2>4
<1> QED BY <1>4, <1>5

LEMMA CalmInit == Init => CalmInv
<1> SUFFICES ASSUME Init PROVE CalmInv
  OBVIOUS
<1>1. slot_size = DEFAULT_SLOT_SIZE /\ fault = "none" /\ early = FALSE
  BY IntervalSize, SlotAssumption DEF Init, slot_size
<1> QED BY <1>1, SlotAssumption, TableInit, NamesInit DEF CalmInv, AssertionsHold

(* The other steps leave the assertions alone, or are the one on names.    *)
LEMMA CalmStep == CalmInv /\ [Next]_vars => CalmInv'
<1> SUFFICES ASSUME CalmInv, [Next]_vars PROVE CalmInv'
  OBVIOUS
<1>1. TableInv' /\ NamesInv' /\ TableInv /\ NamesInv
      /\ (HANDLE_MASK + 1) % slot_size = 0
      /\ (early => \E u, v \in Launcher : u # v)
  BY TableStep, NamesStep DEF CalmInv, AssertionsHold
<1>2. CASE UNCHANGED vars
  BY <1>1, <1>2 DEF vars, CalmInv, AssertionsHold, Crosses, slot_size
<1>3. CASE Next
  <2>1. fault = "none"
    BY <1>3 DEF Next
  <2>2. ASSUME slot_size' = slot_size, early' = early, fault' = fault PROVE CalmInv'
    BY <1>1, <2>1, <2>2 DEF CalmInv, AssertionsHold
  <2>3. ASSUME NEW t \in Launcher, NEW c \in Ctx, BeginLaunch(t, c) PROVE CalmInv'
    BY <2>2, <2>3 DEF BeginLaunch, slot_size
  <2>4. ASSUME NEW t \in Launcher, Register(t) PROVE CalmInv'
    BY <1>1, <2>2, <2>4 DEF Register, slot_size
  <2>5. ASSUME NEW t \in Launcher, Expand(t) PROVE CalmInv'
    BY <1>1, <2>1, <2>5, CalmExpand DEF CalmInv
  <2>6. ASSUME NEW t \in Launcher, AssignHandle(t) PROVE CalmInv'
    BY <2>2, <2>6 DEF AssignHandle, slot_size
  <2>7. ASSUME NEW h \in Handles, skynet_handle_retire(h) PROVE CalmInv'
    BY <1>1, <2>2, <2>7, RetireTypes DEF skynet_handle_retire
  <2>8. CASE RetireAllBegin \/ RetireAllTest \/ RetireAllRead
    BY <2>2, <2>8 DEF RetireAllBegin, RetireAllTest, RetireAllRead, slot_size
  <2>9. CASE RetireAllRetire
    <3>1. retireall.handle \in Handles /\ Retire(retireall.handle)
          /\ UNCHANGED <<fault, early>>
      BY <1>1, <2>9 DEF RetireAllRetire, TableInv, Reachable, TypeOK, Handles
    <3> QED BY <1>1, <2>2, <3>1, RetireTypes
  <2>10. ASSUME NEW n \in Name, NEW h \in DOMAIN given, skynet_handle_namehandle(n, h)
         PROVE  CalmInv'
    <3>1. /\ UNCHANGED <<slot, early>> /\ slot_size' = slot_size
          /\ \/ fault' = fault
             \/ /\ fault' = "assert" /\ name' = name
                /\ name_cap' = IF Len(name) >= name_cap THEN 2 * name_cap ELSE name_cap
                /\ name_cap' > name_cap /\ name_cap' > MAX_SLOT_SIZE
      BY <2>10 DEF skynet_handle_namehandle, slot_size
    <3>2. CASE fault' = fault
      BY <2>2, <3>1, <3>2
    <3>3. CASE fault' # fault
      <4>1. Len(name) \in Nat /\ name_cap \in Nat /\ MAX_SLOT_SIZE \in Nat
        BY <1>1, SlotAssumption DEF NamesInv
      <4>2. 2 * Len(name) > MAX_SLOT_SIZE /\ name' = name /\ fault' = "assert"
        BY <3>1, <3>3, <4>1
      <4> QED BY <1>1, <3>1, <4>2 DEF CalmInv, AssertionsHold
    <3> QED BY <3>2, <3>3
  <2> QED BY <1>3, <2>3, <2>4, <2>5, <2>6, <2>7, <2>8, <2>9, <2>10 DEF Next
<1> QED BY <1>2, <1>3

(* For any launchers, mask and table size: skynet_handle_register fails an *)
(* assertion or follows a null pointer in the cases AssertionsHold names   *)
(* and in no other, however often handle_index has come round.             *)
THEOREM GrowthIsCalm == Spec => []AssertionsHold
<1>1. CalmInv => AssertionsHold
  BY DEF CalmInv
<1> QED BY <1>1, CalmInit, CalmStep, PTL DEF Spec

-----------------------------------------------------------------------------
(* The lock of the table: mutual exclusion of rwlock.h for any finite      *)
(* number of threads.                                                      *)
Inside == {t \in Thread : pc[t] \in {"r_check", "r_undo", "reading"}}

Writers == {"w_drain", "writing"}

(* The flag belongs to the one thread that is draining or writing, and to  *)
(* nobody when it is clear.                                                *)
FlagOwned ==
    /\ \A t \in Thread : pc[t] \in Writers => write = 1
    /\ \A t, u \in Thread : pc[t] \in Writers /\ pc[u] \in Writers => t = u

LockInv == LockTypeOK /\ FlagOwned /\ CountIsReaders /\ Exclusion

(* The count and the set it counts.                                        *)
LEMMA InsideFinite ==
    /\ IsFiniteSet(Inside)
    /\ CountIsReaders <=> read = Cardinality(Inside)
BY ThreadAssumption, FS_Subset DEF Inside, CountIsReaders

(* With a count of 0 no thread reads.                                      *)
LEMMA ZeroMeansEmpty ==
    ASSUME CountIsReaders, read = 0
    PROVE  \A t \in Thread : pc[t] # "reading"
<1>1. Inside = {}
  BY InsideFinite, FS_EmptySet
<1> QED BY <1>1 DEF Inside

(* A reader comes in.                                                      *)
LEMMA CountUp ==
    ASSUME LockTypeOK, CountIsReaders, NEW t \in Thread, t \notin Inside,
           Inside' = Inside \cup {t}, read' = read + 1
    PROVE  CountIsReaders' /\ read' \in Nat
<1>1. Cardinality(Inside \cup {t}) = Cardinality(Inside) + 1
  BY InsideFinite, FS_AddElement
<1>2. read' = Cardinality(Inside')
  BY <1>1, InsideFinite
<1> QED BY <1>2 DEF CountIsReaders, Inside, LockTypeOK

(* A reader goes out.                                                      *)
LEMMA CountDown ==
    ASSUME LockTypeOK, CountIsReaders, NEW t \in Inside,
           Inside' = Inside \ {t}, read' = read - 1
    PROVE  CountIsReaders' /\ read' \in Nat
<1>1. Cardinality(Inside \ {t}) = Cardinality(Inside) - 1
  BY InsideFinite, FS_RemoveElement
<1>2. Cardinality(Inside \ {t}) \in Nat
  BY InsideFinite, FS_RemoveElement, FS_CardinalityType
<1>3. read' = Cardinality(Inside')
  BY <1>1, InsideFinite
<1> QED BY <1>1, <1>2, <1>3, InsideFinite DEF CountIsReaders, Inside

LEMMA LockStarts == rwlock_init => LockInv
<1> SUFFICES ASSUME rwlock_init PROVE LockInv
  OBVIOUS
<1>1. Inside = {}
  BY DEF rwlock_init, Inside
<1>2. CountIsReaders
  BY <1>1, InsideFinite, FS_EmptySet DEF rwlock_init
<1>3. LockTypeOK /\ FlagOwned /\ Exclusion
  BY DEF rwlock_init, LockTypeOK, Label, FlagOwned, Writers, Exclusion
<1> QED BY <1>2, <1>3 DEF LockInv

(* A step that leaves Inside and read alone leaves the count right.        *)
LEMMA CountSame ==
    ASSUME CountIsReaders, Inside' = Inside, read' = read
    PROVE  CountIsReaders'
BY DEF CountIsReaders, Inside

LEMMA LockStep == LockInv /\ [LockNext]_lock_vars => LockInv'
<1> USE DEF LockInv, Move
<1> SUFFICES ASSUME LockInv, [LockNext]_lock_vars PROVE LockInv'
  OBVIOUS
<1>1. ASSUME NEW t \in Thread, WantRead(t) \/ RSpin(t) \/ RCheck(t) \/ WantWrite(t)
      PROVE  LockInv'
  <2>1. Inside' = Inside /\ read' = read
    BY <1>1 DEF Inside, LockTypeOK, WantRead, RSpin, RCheck, WantWrite
  <2>2. CountIsReaders'
    BY <2>1, CountSame
  <2>3. LockTypeOK' /\ FlagOwned' /\ Exclusion'
    BY <1>1 DEF LockTypeOK, Label, FlagOwned, Writers, Exclusion, WantRead, RSpin, RCheck, WantWrite
  <2> QED BY <2>2, <2>3
<1>2. ASSUME NEW t \in Thread, RAdd(t) PROVE LockInv'
  <2>1. t \notin Inside /\ Inside' = Inside \cup {t} /\ read' = read + 1
    BY <1>2 DEF Inside, LockTypeOK, RAdd
  <2>2. CountIsReaders' /\ read' \in Nat
    BY <2>1, CountUp
  <2>3. LockTypeOK' /\ FlagOwned' /\ Exclusion'
    BY <1>2, <2>2 DEF LockTypeOK, Label, FlagOwned, Writers, Exclusion, RAdd
  <2> QED BY <2>2, <2>3
<1>3. ASSUME NEW t \in Thread, RUndo(t) \/ rwlock_runlock(t) PROVE LockInv'
  <2>1. t \in Inside /\ Inside' = Inside \ {t} /\ read' = read - 1
    BY <1>3 DEF Inside, LockTypeOK, RUndo, rwlock_runlock
  <2>2. CountIsReaders' /\ read' \in Nat
    BY <2>1, CountDown
  <2>3. LockTypeOK' /\ FlagOwned' /\ Exclusion'
    BY <1>3, <2>2 DEF LockTypeOK, Label, FlagOwned, Writers, Exclusion, RUndo, rwlock_runlock
  <2> QED BY <2>2, <2>3
<1>4. ASSUME NEW t \in Thread, WTas(t) PROVE LockInv'
  <2>1. Inside' = Inside /\ read' = read
    BY <1>4 DEF Inside, LockTypeOK, WTas
  <2>2. CountIsReaders'
    BY <2>1, CountSame
  <2>3. LockTypeOK' /\ FlagOwned' /\ Exclusion'
    BY <1>4 DEF LockTypeOK, Label, FlagOwned, Writers, Exclusion, WTas
  <2> QED BY <2>2, <2>3
<1>5. ASSUME NEW t \in Thread, WDrain(t) PROVE LockInv'
  <2>1. Inside' = Inside /\ read' = read
    BY <1>5 DEF Inside, LockTypeOK, WDrain
  <2>2. CountIsReaders'
    BY <2>1, CountSame
  <2>3. \A u \in Thread : pc[u] # "reading"
    BY <1>5, ZeroMeansEmpty DEF WDrain
  <2>4. LockTypeOK' /\ FlagOwned' /\ Exclusion'
    BY <1>5, <2>3 DEF LockTypeOK, Label, FlagOwned, Writers, Exclusion, WDrain
  <2> QED BY <2>2, <2>4
<1>6. ASSUME NEW t \in Thread, rwlock_wunlock(t) PROVE LockInv'
  <2>1. Inside' = Inside /\ read' = read
    BY <1>6 DEF Inside, LockTypeOK, rwlock_wunlock
  <2>2. CountIsReaders'
    BY <2>1, CountSame
  <2>3. LockTypeOK' /\ FlagOwned' /\ Exclusion'
    BY <1>6 DEF LockTypeOK, Label, FlagOwned, Writers, Exclusion, rwlock_wunlock
  <2> QED BY <2>2, <2>3
<1>7. CASE UNCHANGED lock_vars
  BY <1>7 DEF lock_vars, LockTypeOK, FlagOwned, Exclusion, CountIsReaders
<1> QED BY <1>1, <1>2, <1>3, <1>4, <1>5, <1>6, <1>7 DEF LockNext, Step

(* However many threads lock it, a writer shares the lock with nobody.     *)
THEOREM LockExclusion == LockSpec => []Exclusion
<1>1. LockInv => Exclusion
  BY DEF LockInv
<1> QED BY LockStarts, LockStep, <1>1, PTL DEF LockSpec

(* However many threads lock it, lock->read is the number of readers that  *)
(* have raised it.                                                         *)
THEOREM LockCount == LockSpec => []CountIsReaders
<1>1. LockInv => CountIsReaders
  BY DEF LockInv
<1> QED BY LockStarts, LockStep, <1>1, PTL DEF LockSpec
=============================================================================
