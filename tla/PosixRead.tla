----------------------------- MODULE PosixRead -----------------------------
(***************************************************************************)
(* What an application is promised of open/read/lseek/close on its fds,   *)
(* whatever serves them: POSIX semantics of a read-only regular file.     *)
(* An fd is open on a path and has an offset.  A read() or lseek() takes   *)
(* effect at one instant between its call and its return; a read() then    *)
(* takes the bytes at the offset, as many as asked for up to end of file,  *)
(* and moves the offset past them, so that concurrent read()s of one fd    *)
(* get disjoint ranges.  A call may also happen in a single step (call,    *)
(* effect and return).  lseek(SEEK_SET) sets the offset, or fails and      *)
(* leaves it alone.  pread() leaves the offset alone and is a stuttering   *)
(* step here.                                                              *)
(*                                                                         *)
(* got[fd] is what the read() calls on fd returned, in the order they      *)
(* returned, since fd was opened or an lseek() of it last returned.        *)
(***************************************************************************)
EXTENDS Naturals, Sequences

CONSTANTS
    Threads,        \* application threads
    LocalFds,       \* fd numbers
    Paths,          \* files that can be opened
    FileLen,        \* length of every file
    ReadSize,       \* the count every read asks for
    SeekOffsets,    \* offsets lseek may set
    None            \* no file / no call in progress / no result yet

VARIABLES
    file,           \* file[fd]: the path fd is open on, or None
    off,            \* off[fd]: the file offset
    got,            \* got[fd]: read() results returned since open or lseek
    pend            \* pend[t]: t's read() [fd, seg] or lseek() [fd, to, done]

vars == <<file, off, got, pend>>

\* read(2) of ReadSize bytes at offset o: cut at end of file.
SegAt(p, o) == [path |-> p, start |-> o,
                len |-> IF FileLen - o < ReadSize THEN FileLen - o ELSE ReadSize]

Init ==
    /\ file = [fd \in LocalFds |-> None]
    /\ off = [fd \in LocalFds |-> 0]
    /\ got = [fd \in LocalFds |-> <<>>]
    /\ pend = [t \in Threads |-> None]

\* No call of any thread is in progress on fd.
Quiet(fd) == \A t \in Threads : pend[t] = None \/ pend[t].fd # fd

Open(fd, p) ==
    /\ file[fd] = None
    /\ file' = [file EXCEPT ![fd] = p]
    /\ off' = [off EXCEPT ![fd] = 0]
    /\ got' = [got EXCEPT ![fd] = <<>>]
    /\ UNCHANGED pend

Close(fd) ==
    /\ file[fd] # None
    /\ Quiet(fd)
    /\ file' = [file EXCEPT ![fd] = None]
    /\ off' = [off EXCEPT ![fd] = 0]
    /\ got' = [got EXCEPT ![fd] = <<>>]
    /\ UNCHANGED pend

\* The bytes at the offset of fd.
Take(fd) == SegAt(file[fd], off[fd])

Advance(fd) == off' = [off EXCEPT ![fd] = @ + Take(fd).len]

ReadNow(fd) ==
    /\ file[fd] # None
    /\ Advance(fd)
    /\ got' = [got EXCEPT ![fd] = Append(@, Take(fd))]
    /\ UNCHANGED <<file, pend>>

ReadCall(t, fd) ==
    /\ pend[t] = None
    /\ file[fd] # None
    /\ pend' = [pend EXCEPT ![t] = [fd |-> fd, seg |-> None]]
    /\ UNCHANGED <<file, off, got>>

ReadTake(t) ==
    /\ pend[t] # None /\ "seg" \in DOMAIN pend[t]
    /\ pend[t].seg = None
    /\ pend' = [pend EXCEPT ![t].seg = Take(pend[t].fd)]
    /\ Advance(pend[t].fd)
    /\ UNCHANGED <<file, got>>

ReadReturn(t) ==
    /\ pend[t] # None /\ "seg" \in DOMAIN pend[t]
    /\ pend[t].seg # None
    /\ got' = [got EXCEPT ![pend[t].fd] = Append(@, pend[t].seg)]
    /\ pend' = [pend EXCEPT ![t] = None]
    /\ UNCHANGED <<file, off>>

SeekNow(fd, o) ==
    /\ file[fd] # None
    /\ off' = [off EXCEPT ![fd] = o]
    /\ got' = [got EXCEPT ![fd] = <<>>]
    /\ UNCHANGED <<file, pend>>

SeekCall(t, fd, o) ==
    /\ pend[t] = None
    /\ file[fd] # None
    /\ Quiet(fd)
    /\ pend' = [pend EXCEPT ![t] = [fd |-> fd, to |-> o, done |-> FALSE]]
    /\ UNCHANGED <<file, off, got>>

SeekTake(t) ==
    /\ pend[t] # None /\ "to" \in DOMAIN pend[t]
    /\ ~pend[t].done
    /\ off' = [off EXCEPT ![pend[t].fd] = pend[t].to]
    /\ pend' = [pend EXCEPT ![t].done = TRUE]
    /\ UNCHANGED <<file, got>>

\* lseek returns the new offset, or -1 (then it never took effect).
SeekReturn(t) ==
    /\ pend[t] # None /\ "to" \in DOMAIN pend[t]
    /\ got' = IF pend[t].done THEN [got EXCEPT ![pend[t].fd] = <<>>] ELSE got
    /\ pend' = [pend EXCEPT ![t] = None]
    /\ UNCHANGED <<file, off>>

Next ==
    \/ \E fd \in LocalFds :
        \/ \E p \in Paths : Open(fd, p)
        \/ Close(fd)
        \/ ReadNow(fd)
        \/ \E o \in SeekOffsets : SeekNow(fd, o)
    \/ \E t \in Threads :
        \/ \E fd \in LocalFds : ReadCall(t, fd)
        \/ \E fd \in LocalFds, o \in SeekOffsets : SeekCall(t, fd, o)
        \/ ReadTake(t) \/ ReadReturn(t) \/ SeekTake(t) \/ SeekReturn(t)

Spec == Init /\ [][Next]_vars

=============================================================================
