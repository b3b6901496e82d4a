--------------------------- MODULE CommandService ---------------------------
(***************************************************************************)
(* What GDBEngine's command queue promises to the rest of Nemiver, without *)
(* the line, the process or the records: commands are served one at a      *)
(* time, in the order they came in, the next one as soon as the line is    *)
(* free, and each one that is served comes back with its own reply or with *)
(* none (0) - unless the queue is emptied.                                 *)
(***************************************************************************)
EXTENDS Integers, SequencesExt

VARIABLES
    waiting,   \* numbers of the commands not sent yet
    inFlight,  \* the command being served, as a sequence of at most one
    done       \* the commands served, with the command they were replied as

absVars == <<waiting, inFlight, done>>

(* One at a time, and nothing waits while the line is free.                *)
Serving ==
    /\ Len(inFlight) <= 1
    /\ waiting # <<>> => inFlight # <<>>

Init == waiting = <<>> /\ inFlight = <<>> /\ done = <<>>

(* Commands come in behind the ones that are there.                        *)
Submit ==
    /\ IsPrefix(inFlight \o waiting, inFlight' \o waiting')
    /\ UNCHANGED done

(* The command in flight ends; what waited moves up, in order.             *)
Finish ==
    /\ inFlight # <<>>
    /\ \E reply \in {0, Head(inFlight)} :
        done' = Append(done, [command |-> Head(inFlight), reply |-> reply])
    /\ \/ IsPrefix(waiting, inFlight' \o waiting')
       \/ inFlight' = <<>> /\ waiting' = <<>>   \* a detach drops the rest

(* Everything is dropped, for the commands of a new debugger.              *)
Restart ==
    /\ inFlight' # <<>>
    /\ \A i \in 1..Len(inFlight' \o waiting') :
          \A n \in ToSet(inFlight \o waiting) : (inFlight' \o waiting')[i] > n
    /\ UNCHANGED done

Next == (Submit \/ Finish \/ Restart) /\ Serving'

Spec == Init /\ [][Next]_absVars
=============================================================================
