----------------------------- MODULE PromisedMails -----------------------------
(***************************************************************************)
(* The journal of scheduled e-mail, without the jobs, transactions and     *)
(* locks that write it.  An attempt at a mail is handed over to the SMTP   *)
(* server at most once.  A mail that is announced has an entry before      *)
(* that, so that a crash in between cannot make anybody forget it; of      *)
(* other mails an attempt may be lost.  An entry is settled once, and      *)
(* never says that something was sent which the server does not have.      *)
(***************************************************************************)
CONSTANTS
  Attempts, Mails,
  Announced,    \* mails with an entry before they are sent
  None

VARIABLES
  entry,        \* of each attempt: mail, status and date, or None
  taken         \* the mail that the server took for an attempt, or None

journalVars == <<entry, taken>>

Init == entry = [x \in Attempts |-> None] /\ taken = [x \in Attempts |-> None]

Announce(x) ==
  /\ entry[x] = None /\ taken[x] = None
  /\ entry' = [entry EXCEPT ![x] = entry'[x]]
  /\ entry'[x] # None /\ entry'[x].mail \in Announced /\ entry'[x].status = "pending"
  /\ UNCHANGED taken

HandOver(x, m) ==
  /\ taken[x] = None
  /\ IF m \in Announced THEN entry[x] # None /\ entry[x].mail = m /\ entry[x].status = "pending"
                        ELSE entry[x] = None
  /\ taken' = [taken EXCEPT ![x] = m]
  /\ UNCHANGED entry

\* What becomes of attempt x: an entry that was announced only changes its status.
Settled(x) ==
  /\ entry'[x] # None
  /\ entry'[x].status = "failed" \/ (entry'[x].status = "sent" /\ taken[x] = entry'[x].mail)
  /\ \/ entry[x] = None /\ entry'[x].mail \in Mails \ Announced
     \/ /\ entry[x] # None /\ entry[x].status = "pending"
        /\ entry'[x] = [entry[x] EXCEPT !.status = entry'[x].status]

\* A job settles all that it has attempted since it last did so.
Settle ==
  /\ entry' = [x \in Attempts |-> entry'[x]]
  /\ \A x \in Attempts : entry'[x] = entry[x] \/ Settled(x)
  /\ UNCHANGED taken

Next ==
  \/ \E x \in Attempts : Announce(x) \/ \E m \in Mails : HandOver(x, m)
  \/ Settle

Spec == Init /\ [][Next]_journalVars
=============================================================================
