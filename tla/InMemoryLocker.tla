--------------------------- MODULE InMemoryLocker ---------------------------
(***************************************************************************)
(* InMemoryLocker (pkg/locking/inmemory.go): a Go slice of idents shared   *)
(* by the reconcile loops of one process, read and written without a       *)
(* mutex.                                                                  *)
(*                                                                         *)
(* The slice is kept as Go keeps it: a header of three words and arrays of *)
(* a fixed capacity.  A call runs in steps that other loops may interleave *)
(* with: one word of the header loaded or stored, in any order, one        *)
(* element read, compared or moved.  Hence a header may be torn: it may    *)
(* have words of two stores, and not fit the array it refers to.           *)
(***************************************************************************)
EXTENDS Integers, Sequences

CONSTANTS Procs,       \* the reconcile loops of the process
          Keys,        \* resource names: createLockingId(req)
          None         \* no key

VARIABLES locks,   \* the field iml.locks: the words of its header
          arrays,  \* the arrays allocated so far; the word arr is an index
          pc,      \* what each loop is doing
          ident,   \* the key of its call or session, or None
          local    \* its copy of the header, the words it has yet to load or
                   \* store, and the index of the element it is at

vars == <<locks, arrays, pc, ident, local>>

Words == {"arr", "len", "cap"}
Nil == [arr |-> 1, len |-> 0, cap |-> 0]
Idle == [header |-> Nil, words |-> {}, at |-> 1]    \* the locals of no call

\* The zero value of iml.locks is a nil slice.
Init == /\ locks = Nil
        /\ arrays = << <<>> >>
        /\ pc = [p \in Procs |-> "idle"]
        /\ ident = [p \in Procs |-> None]
        /\ local = [p \in Procs |-> Idle]

\* What a read of element i may see: anything, behind the end of the array.
Element(h, i) == IF i \in DOMAIN arrays[h.arr] THEN {arrays[h.arr][i]} ELSE Keys \cup {None}

\* The arrays with element i written; behind the end of the array it is lost.
Written(h, i, k) == [arrays EXCEPT ![h.arr] = [j \in DOMAIN @ |-> IF j = i THEN k ELSE @[j]]]

Goto(p, label) == pc' = [pc EXCEPT ![p] = label]

\* The step at label loads or stores the header.
ForWords(p, label) == /\ local' = [local EXCEPT ![p].words = Words]
                      /\ Goto(p, label)

-----------------------------------------------------------------------------
(* Loads and stores of iml.locks.                                          *)

\* What a loop does with the header it has loaded.
AfterLoad == [range |-> "compare", extend |-> "append", remove |-> "find"]
AfterStore == [appended |-> "session", removed |-> "idle"]

LoadWord(p, w) ==
    /\ pc[p] \in DOMAIN AfterLoad /\ w \in local[p].words
    /\ local' = [local EXCEPT ![p].header[w] = locks[w], ![p].words = @ \ {w}, ![p].at = 1]
    /\ IF local[p].words = {w} THEN Goto(p, AfterLoad[pc[p]]) ELSE UNCHANGED pc
    /\ UNCHANGED <<locks, arrays, ident>>

\* With the last word the call returns.
StoreWord(p, w) ==
    /\ pc[p] \in DOMAIN AfterStore /\ w \in local[p].words
    /\ locks' = [locks EXCEPT ![w] = local[p].header[w]]
    /\ IF local[p].words = {w}
       THEN /\ Goto(p, AfterStore[pc[p]])
            /\ local' = [local EXCEPT ![p] = Idle]
            /\ ident' = IF pc[p] = "removed" THEN [ident EXCEPT ![p] = None] ELSE ident
       ELSE /\ local' = [local EXCEPT ![p].words = @ \ {w}]
            /\ UNCHANGED <<pc, ident>>
    /\ UNCHANGED arrays

-----------------------------------------------------------------------------
(* Obtain: isLocked, then append.                                          *)

Obtain(p, k) ==
    /\ pc[p] = "idle"
    /\ ident' = [ident EXCEPT ![p] = k]
    /\ ForWords(p, "range")
    /\ UNCHANGED <<locks, arrays>>

AllCompared(l) == l.at > l.header.len

\* isLocked compares one element; a match answers ErrAlreadyLocked.
Compare(p) ==
    /\ pc[p] = "compare"
    /\ IF AllCompared(local[p])
       THEN ForWords(p, "extend") /\ UNCHANGED ident
       ELSE \E k \in Element(local[p].header, local[p].at) :
              IF k = ident[p]
              THEN /\ Goto(p, "idle")
                   /\ ident' = [ident EXCEPT ![p] = None]
                   /\ local' = [local EXCEPT ![p] = Idle]
              ELSE local' = [local EXCEPT ![p].at = @ + 1] /\ UNCHANGED <<pc, ident>>
    /\ UNCHANGED <<locks, arrays>>

\* runtime.growslice for strings, as far as capacities double.
Grown(h) == IF h.len + 1 > 2 * h.cap THEN h.len + 1 ELSE 2 * h.cap

\* append(iml.locks, ident) writes the element, in place or in a larger array.
AppendIdent(p) ==
    LET h == local[p].header
        longer == [h EXCEPT !.len = @ + 1]
    IN  /\ pc[p] = "append"
        /\ \/ /\ longer.len <= h.cap
              /\ arrays' = Written(h, longer.len, ident[p])
              /\ local' = [local EXCEPT ![p].header = longer, ![p].words = Words]
           \/ /\ longer.len > h.cap
              /\ \E copy \in [1 .. h.len -> Keys \cup {None}] :
                    /\ \A i \in 1 .. h.len : copy[i] \in Element(h, i)
                    /\ arrays' = Append(arrays, [i \in 1 .. Grown(h) |->
                                    IF i <= h.len THEN copy[i]
                                    ELSE IF i = longer.len THEN ident[p] ELSE None])
              /\ local' = [local EXCEPT ![p].words = Words,
                     ![p].header = [longer EXCEPT !.arr = Len(arrays) + 1, !.cap = Grown(h)]]
        /\ Goto(p, "appended")
        /\ UNCHANGED <<locks, ident>>

-----------------------------------------------------------------------------
(* Done: removeFromList.                                                   *)

Done(p) ==
    /\ pc[p] = "session"
    /\ ForWords(p, "remove")
    /\ UNCHANGED <<locks, arrays, ident>>

\* The search for the ident; a slice without it is stored as it is.
Find(p) ==
    /\ pc[p] = "find"
    /\ IF AllCompared(local[p])
       THEN ForWords(p, "removed")
       ELSE \E k \in Element(local[p].header, local[p].at) :
              IF k = ident[p] THEN Goto(p, "shift") /\ UNCHANGED local
              ELSE local' = [local EXCEPT ![p].at = @ + 1] /\ UNCHANGED pc
    /\ UNCHANGED <<locks, arrays, ident>>

\* append(s[:index], s[index+1:]...) moves the tail down, one element at a time.
Shift(p) ==
    LET l == local[p]
    IN  /\ pc[p] = "shift"
        /\ IF l.at < l.header.len
           THEN /\ \E k \in Element(l.header, l.at + 1) : arrays' = Written(l.header, l.at, k)
                /\ local' = [local EXCEPT ![p].at = @ + 1] /\ UNCHANGED pc
           ELSE /\ local' = [local EXCEPT ![p].header.len = @ - 1, ![p].words = Words]
                /\ Goto(p, "removed") /\ UNCHANGED arrays
        /\ UNCHANGED <<locks, ident>>

-----------------------------------------------------------------------------
Next == \E p \in Procs :
          \/ \E k \in Keys : Obtain(p, k)
          \/ \E w \in Words : LoadWord(p, w) \/ StoreWord(p, w)
          \/ Compare(p) \/ AppendIdent(p) \/ Done(p) \/ Find(p) \/ Shift(p)

Spec == Init /\ [][Next]_vars

-----------------------------------------------------------------------------

InSession(p) == pc[p] = "session"

\* locking/README.md: "Locking mechanism is making sure that single
\* ScheduledBackup or RequestedBackupAction is processed only by one
\* controller at a time".
MutualExclusion ==
    \A p, q \in Procs : InSession(p) /\ InSession(q) /\ ident[p] = ident[q] => p = q
=============================================================================
