---------------------------- MODULE BlockServer -----------------------------
(***************************************************************************)
(* What a block device promises its driver: requests are answered exactly  *)
(* once, in the order they were made, each as one atomic access to the     *)
(* disk; an answer "ok" means the whole transfer happened, "ioerr" that a  *)
(* prefix of it did.  A read past the end of the disk is never answered.   *)
(* A reset forgets what was waiting and what was not yet collected.        *)
(***************************************************************************)
EXTENDS Integers, Sequences

CONSTANTS Requests,   \* records with fields type, sector, len, value
          Heads,      \* names the driver gives to requests in flight
          Capacity,   \* sectors of the disk at start-up
          MaxSectors  \* bound on the disk, which writes may extend

Sectors == 0 .. (MaxSectors - 1)
Absent  == -1

VARIABLES disk,       \* contents of each sector
          waiting,    \* requests made and not yet answered
          answered    \* answers not yet collected

vars == <<disk, waiting, answered>>

Init == /\ disk = [s \in Sectors |-> IF s < Capacity THEN 0 ELSE Absent]
        /\ waiting = <<>> /\ answered = <<>>

(* Sectors that request r has transferred after n of them.                 *)
Moved(r, n) == r.sector .. (r.sector + n - 1)

(* A sector that a write skips when it extends the disk reads as 0.        *)
Skipped(r, n) == {s \in Sectors : n > 0 /\ s < r.sector /\ disk[s] = Absent}

Written(r, n) ==
    IF r.type # "out" THEN disk
    ELSE [s \in Sectors |-> IF s \in Moved(r, n) THEN r.value
                            ELSE IF s \in Skipped(r, n) THEN 0 ELSE disk[s]]

DataRead(r, n) == IF r.type = "in" THEN [i \in 1 .. n |-> disk[r.sector + i - 1]] ELSE <<>>

(* n sectors of r were transferred: success only if that is all of them.   *)
Outcome(r, n) == IF r.type = "bad" \/ (r.type \in {"in", "out"} /\ n < r.len)
                 THEN "ioerr" ELSE "ok"

Submit(head, r) ==
    /\ waiting' = Append(waiting, [head |-> head, req |-> r])
    /\ UNCHANGED <<disk, answered>>

Serve(n) ==
    /\ waiting # <<>>
    /\ LET r == Head(waiting).req
       IN  /\ n <= r.len
           /\ r.type = "in" => \A s \in Moved(r, n) : disk[s] # Absent
           /\ disk' = Written(r, n)
           /\ answered' = Append(answered, [head |-> Head(waiting).head,
                                            status |-> Outcome(r, n), data |-> DataRead(r, n)])
    /\ waiting' = Tail(waiting)

Collect ==
    /\ answered # <<>>
    /\ answered' = Tail(answered)
    /\ UNCHANGED <<disk, waiting>>

Reset ==
    /\ waiting' = <<>> /\ answered' = <<>>
    /\ UNCHANGED disk

Next ==
    \/ \E head \in Heads, r \in Requests : Submit(head, r)
    \/ \E n \in 0 .. MaxSectors : Serve(n)
    \/ Collect
    \/ Reset

Spec == Init /\ [][Next]_vars
=============================================================================
