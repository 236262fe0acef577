----------------------------- MODULE ScanMonitor -----------------------------
(***************************************************************************)
(* What scan monitoring promises, without queues, copies or handlers.      *)
(* Only verdicts Checkmarx One gave are reported, and only while the scan  *)
(* is watched; a watch that ends without a report has an excuse, and after *)
(* it has ended nothing is reported any more.                              *)
(***************************************************************************)
CONSTANTS Scans, Excuses

VARIABLES
    given,    \* the verdicts Checkmarx One has given, none before the scan ends
    watch,    \* "off", "on" or "ended"
    reports,  \* the verdicts that were reported
    excuse    \* the excuses collected so far for not reporting

vars == <<given, watch, reports, excuse>>

Verdicts == {"pass", "reject"}

Init ==
    /\ given = [s \in Scans |-> {}]
    /\ watch = [s \in Scans |-> "off"]
    /\ reports = [s \in Scans |-> {}]
    /\ excuse = [s \in Scans |-> {}]

\* The scan ends, or its policies are evaluated again with another result.
Conclude(s) ==
    /\ \E v \in Verdicts : given' = [given EXCEPT ![s] = @ \cup {v}]
    /\ UNCHANGED <<watch, reports, excuse>>

Watch(s) ==
    /\ watch[s] = "off"
    /\ watch' = [watch EXCEPT ![s] = "on"]
    /\ UNCHANGED <<given, reports, excuse>>

\* What is reported is a verdict; it is reported while the scan is watched.
Announce(s) ==
    /\ watch[s] = "on"
    /\ \E v \in given[s] : reports' = [reports EXCEPT ![s] = @ \cup {v}]
    /\ UNCHANGED <<given, watch, excuse>>

\* Something goes wrong.  It may end the watch of a scan not yet reported.
Excuse(s) ==
    /\ watch[s] # "ended"
    /\ \E e \in Excuses : excuse' = [excuse EXCEPT ![s] = @ \cup {e}]
    /\ \/ UNCHANGED watch
       \/ /\ reports[s] = {}
          /\ watch' = [watch EXCEPT ![s] = "ended"]
    /\ UNCHANGED <<given, reports>>

\* The watch of an excused, unreported scan ends.
End(s) ==
    /\ watch[s] = "on"
    /\ reports[s] = {}
    /\ excuse[s] # {}
    /\ watch' = [watch EXCEPT ![s] = "ended"]
    /\ UNCHANGED <<given, reports, excuse>>

Next ==
    \E s \in Scans :
        Conclude(s) \/ Watch(s) \/ Announce(s) \/ Excuse(s) \/ End(s)

Spec == Init /\ [][Next]_vars
=============================================================================
