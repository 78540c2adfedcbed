------------------------------ MODULE Framing ------------------------------
(***************************************************************************)
(* lualib-src/lua-netpackext.c, filter: the bytes of one connection, which *)
(* come in fragments of any length, are split into packages of HEAD bytes  *)
(* of header, with the length of the body in it, and a body.  A record     *)
(* (struct uncomplete) keeps what has come of an unfinished package.       *)
(*                                                                         *)
(* A byte is its place in the stream; a header that is not one of the      *)
(* stream's gives any length.  Lost stands for a byte of a body that was   *)
(* copied over the pointer protobuf of the record.  A step that reads or   *)
(* writes outside of its buffers sets corrupt, and nothing is said of what *)
(* comes after it.  The test for lengths that are too long, negative ones, *)
(* the session that is written into the header, the block that is          *)
(* allocated for a body, collisions of the hash and the capacity of the    *)
(* queue are left out.                                                     *)
(***************************************************************************)
EXTENDS Integers, Sequences

CONSTANTS
    HEAD,           \* sizeof(protocolhead)
    Body,           \* lengths of the bodies sent
    MaxLength,      \* bound: lengths read from a header out of place
    Lost, None

VARIABLES
    came,           \* bytes that have come
    uc,             \* bytes read of the unfinished package, or None
    out,            \* packages handed on, in the order of the queue
    corrupt         \* memory outside of the buffers has been used

vars == <<came, uc, out, corrupt>>

first[n \in 1 .. Len(Body) + 1] == IF n = 1 THEN 1 ELSE first[n - 1] + HEAD + Body[n - 1]
Package(n) == [i \in 1 .. HEAD + Body[n] |-> first[n] + i - 1]
Last == first[Len(Body) + 1] - 1

Taken(b, n) == SubSeq(b, 1, n)
Rest(b, n) == SubSeq(b, n + 1, Len(b))
Header(b) == Taken(b, HEAD)

\* toprotocolhead: what the length may be.
toprotocolhead(b) ==
    LET here == {n \in 1 .. Len(Body) : Header(b) = Header(Package(n))} IN
    IF here = {} THEN 0 .. MaxLength ELSE {Body[n] : n \in here}

Result(packages, record) == [packages |-> packages, uc |-> record, corrupt |-> FALSE]
Corrupts == [packages |-> <<>>, uc |-> None, corrupt |-> TRUE]

\* push_more: packages out of the rest of a fragment.
RECURSIVE push_more(_, _)
push_more(packages, b) ==
    IF b = <<>> THEN {Result(packages, None)}
    ELSE IF Len(b) < HEAD THEN {Result(packages, b)}
    ELSE UNION {IF Len(b) < HEAD + n THEN {Result(packages, b)}
                ELSE push_more(Append(packages, Taken(b, HEAD + n)), Rest(b, HEAD + n))
                : n \in toprotocolhead(b)}

\* A fragment with a record: find_uncomplete has taken it out of the hash.  The
\* record is not put back when the package is still unfinished, and what
\* follows takes the package from the fragment alone, however short that is: the
\* size left is then negative, and sizeof makes it a large number for push_more.
Continue(b) ==
    LET all == uc \o b
        after == Rest(all, IF Len(uc) < HEAD THEN HEAD ELSE Len(uc))
        Dangling == \E i \in 1 .. Len(uc) : uc[i] = Lost
    IN
    IF Len(all) < HEAD THEN {Result(<<>>, None)}
    ELSE UNION {CASE Len(all) <= HEAD + n /\ Dangling -> {Corrupts}
                  [] Len(all) < HEAD + n /\ ~Dangling -> {Result(<<>>, None)}
                  [] Len(all) = HEAD + n /\ ~Dangling -> {Result(<<all>>, None)}
                  [] Len(all) > HEAD + n ->
                         IF Len(after) < HEAD + n THEN {Corrupts}
                         ELSE push_more(<<Taken(after, HEAD + n)>>, Rest(after, HEAD + n))
                : n \in toprotocolhead(all)}

\* A fragment without one: of an unfinished body nothing gets into the record,
\* for it is copied over the pointer to it.
Begin(b) ==
    IF Len(b) < HEAD THEN {Result(<<>>, b)}
    ELSE UNION {CASE Len(b) < HEAD + n -> {Result(<<>>, Header(b) \o [i \in 1 .. Len(b) - HEAD |-> Lost])}
                  [] Len(b) = HEAD + n -> {Result(<<b>>, None)}
                  [] OTHER -> push_more(<<Taken(b, HEAD + n)>>, Rest(b, HEAD + n))
                : n \in toprotocolhead(b)}

Init == came = 0 /\ uc = None /\ out = <<>> /\ corrupt = FALSE

filter_data(size) ==
    LET b == [i \in 1 .. size |-> came + i] IN
    /\ ~corrupt
    /\ came + size <= Last
    /\ came' = came + size
    /\ \E r \in IF uc = None THEN Begin(b) ELSE Continue(b) :
           uc' = r.uc /\ out' = out \o r.packages /\ corrupt' = r.corrupt

Next == \E size \in 1 .. Last : filter_data(size)

Spec == Init /\ [][Next]_vars

\* The packages handed on are those that were sent, whole and in order: the
\* unfinished package is looked up to go on with it (lua-netpackext.c:323).
\* What memory outside of the buffers may hold plays no part in it.
Framed == \A n \in 1 .. Len(out) : n <= Len(Body) /\ out[n] = Package(n)
=============================================================================
