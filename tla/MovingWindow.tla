---------------------------- MODULE MovingWindow ----------------------------
(***************************************************************************)
(* util/moving_window.c: a ring that keeps the last maxEntryCount entries  *)
(* appended to it.  Entries are numbers: rates, sizes and times.           *)
(***************************************************************************)
EXTENDS Integers, Sequences

(* What malloc left in the ring, which nobody may read. *)
Unset == -1

MovingWindowNew(max) ==
    [nextWindowIndex |-> 0, entryCount |-> 0, maxEntryCount |-> max,
     data |-> [i \in 0 .. max - 1 |-> Unset]]

(* Mutant of WindowAppend: counts an entry that has replaced another. *)
MutWindowAppend(w, entry) ==
    [nextWindowIndex |-> (w.nextWindowIndex + 1) % w.maxEntryCount,
     entryCount |-> w.entryCount + 1,
     maxEntryCount |-> w.maxEntryCount,
     data |-> [w.data EXCEPT ![w.nextWindowIndex] = entry]]

(* moving_window_append. *)
WindowAppend(w, entry) ==
    [nextWindowIndex |-> (w.nextWindowIndex + 1) % w.maxEntryCount,
     entryCount |->
        IF w.entryCount < w.maxEntryCount THEN w.entryCount + 1 ELSE w.entryCount,
     maxEntryCount |-> w.maxEntryCount,
     data |-> [w.data EXCEPT ![w.nextWindowIndex] = entry]]

(* Mutant of StartIndex: where the entries were before the ring was full. *)
MutStartIndex(w) == 0

(* moving_window_next: where the oldest entry is ...                       *)
StartIndex(w) ==
    IF w.entryCount > w.nextWindowIndex
    THEN w.entryCount - (w.entryCount - w.nextWindowIndex)
    ELSE w.nextWindowIndex - w.entryCount

(* ... and what an iterator that has been moved n times comes to next.     *)
EntryAfter(w, n) == w.data[(StartIndex(w) + n) % w.maxEntryCount]

(* What an iterator finds from its start until moving_window_next returns  *)
(* false.                                                                  *)
Entries(w) == [i \in 1 .. w.entryCount |-> EntryAfter(w, i - 1)]

-----------------------------------------------------------------------------
(* What a window looks like after any number of appends. *)
Window(max, Entry) ==
    {w \in [nextWindowIndex : 0 .. max - 1, entryCount : 0 .. max,
            maxEntryCount : {max}, data : [0 .. max - 1 -> Entry \union {Unset}]] :
        /\ w.entryCount < max => w.nextWindowIndex = w.entryCount
        /\ \A i \in 0 .. w.entryCount - 1 : w.data[i] \in Entry}
=============================================================================
