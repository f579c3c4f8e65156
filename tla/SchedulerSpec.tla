--------------------------- MODULE SchedulerSpec ----------------------------
(***************************************************************************)
(* What driver/scheduler/scheduler.c promises, with none of its nodes and  *)
(* pointers: two first-in first-out queues of processes, and one process   *)
(* that has the processor.  Scheduler.tla is the detailed specification.   *)
(***************************************************************************)
EXTENDS Naturals, Sequences

CONSTANTS Procs, Nobody

VARIABLES ready, sleeping,   (* the two queues                             *)
          current,           (* the process that has the processor         *)
          wish,              (* what current wants at the next switch      *)
          open               (* between schedulerInit and killScheduler    *)

vars == <<ready, sleeping, current, wish, open>>

Elements(s) == {s[i] : i \in 1 .. Len(s)}
Present == Elements(ready) \cup Elements(sleeping) \cup {current}
Empty == ready = <<>> /\ sleeping = <<>> /\ current = Nobody

Init == Empty /\ wish = "run" /\ open = FALSE

Start == ~ open /\ Empty /\ open' = TRUE /\ UNCHANGED <<ready, sleeping, current, wish>>

(* A new process takes a processor nobody has, or waits its turn.          *)
Admit(p) ==
  /\ open /\ p \notin Present
  /\ IF current = Nobody THEN current' = p /\ UNCHANGED ready
     ELSE ready' = Append(ready, p) /\ UNCHANGED current
  /\ UNCHANGED <<sleeping, wish, open>>

AdmitAsleep(p) ==
  /\ open /\ p \notin Present
  /\ sleeping' = Append(sleeping, p)
  /\ UNCHANGED <<ready, current, wish, open>>

Wish(w) ==
  /\ open /\ current # Nobody
  /\ wish' = w
  /\ UNCHANGED <<ready, sleeping, current, open>>

(* The process that waited longest gets the processor; the one that had it *)
(* goes where it wished.                                                   *)
Switch ==
  /\ open /\ current # Nobody /\ ready # <<>>
  /\ current' = Head(ready)
  /\ ready' = IF wish = "run" THEN Append(Tail(ready), current) ELSE Tail(ready)
  /\ sleeping' = IF wish = "sleep" THEN Append(sleeping, current) ELSE sleeping
  /\ wish' = "run"
  /\ UNCHANGED open

(* The longest sleeper wakes up.                                           *)
Awaken ==
  /\ open /\ sleeping # <<>>
  /\ ready' = Append(ready, Head(sleeping))
  /\ sleeping' = Tail(sleeping)
  /\ UNCHANGED <<current, wish, open>>

Stop == open /\ open' = FALSE /\ UNCHANGED <<ready, sleeping, current, wish>>

(* A stopped scheduler only loses processes.                               *)
Drop ==
  /\ ~ open
  /\ \/ /\ ready # <<>> /\ ready' = Tail(ready)
        /\ UNCHANGED <<sleeping, current, wish>>
     \/ /\ sleeping # <<>> /\ sleeping' = Tail(sleeping)
        /\ UNCHANGED <<ready, current, wish>>
     \/ /\ current' = Nobody /\ wish' = "run"
        /\ UNCHANGED <<ready, sleeping>>
  /\ UNCHANGED open

Next == \/ Start \/ Switch \/ Awaken \/ Stop \/ Drop
        \/ \E p \in Procs : Admit(p) \/ AdmitAsleep(p)
        \/ \E w \in {"sleep", "exit"} : Wish(w)

Spec == Init /\ [][Next]_vars
=============================================================================
