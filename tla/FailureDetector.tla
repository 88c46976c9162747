-------------------------- MODULE FailureDetector --------------------------
(***************************************************************************)
(* FailureDetector: what a management node thinks of the members of the      *)
(* cluster.  A member describes itself in full when it joins and when its    *)
(* versions have changed; between that it sends pulses with its versions,    *)
(* which the detector compares with those it has.                            *)
(*                                                                           *)
(* Abstractions.  The two versions of a member are one.  Healthy, Overloaded *)
(* and Draining, which a member says of itself, are Reported; its pressure   *)
(* is left out.  Instead of a clock and the tick of the last pulse, silence  *)
(* counts the ticks between them, up to DeadAfter.  Members and messages     *)
(* are external: a member pulses for as long as it is up, and sends a full   *)
(* description when the answer to a pulse was that one is required, or that  *)
(* it is unknown.  Messages are lost and overtake one another.               *)
(***************************************************************************)
EXTENDS Naturals, FiniteSets

CONSTANTS
    Member,
    MaxMembers, SuspectAfter, DeadAfter,    \* as FailureDetector::new takes them
    MemberVersions,                         \* bound: versions of every member
    MaxMail, MaxLost                        \* bounds: messages of a member on their way, lost

ASSUME DetectorConstants ==
    /\ {MaxMembers, SuspectAfter, DeadAfter, MaxMail} \subseteq Nat \ {0}
    /\ SuspectAfter < DeadAfter
    /\ MemberVersions \in [Member -> Nat \ {0}] /\ MaxLost \in Nat

VARIABLES
    up,         \* members that run
    version,    \* the version of every member
    mail,       \* messages of every member on their way
    lost,       \* how many messages were lost
    asked,      \* members that have to describe themselves in full
    members     \* what the detector has of every member

dvars == <<up, version, mail, lost, asked, members>>

Absent == [version |-> 0, health |-> "none", silence |-> 0]

Observed == {n \in Member : members[n] # Absent}

DetectorInit ==
    /\ up = {}
    /\ version = [n \in Member |-> 1]
    /\ mail = [n \in Member |-> {}]
    /\ lost = 0
    /\ asked = {}
    /\ members = [n \in Member |-> Absent]

-----------------------------------------------------------------------------
(* Members and the network.                                                  *)

Send(n, kind) ==
    /\ n \in up /\ Cardinality(mail[n]) < MaxMail
    /\ mail' = [mail EXCEPT ![n] = @ \cup {[kind |-> kind, version |-> version[n]]}]
    /\ UNCHANGED <<up, version, lost, members>>

SendPulse(n) == Send(n, "pulse") /\ UNCHANGED asked

SendFull(n) == n \in asked /\ Send(n, "full") /\ asked' = asked \ {n}

Lose(n) ==
    /\ lost < MaxLost /\ lost' = lost + 1
    /\ \E m \in mail[n] : mail' = [mail EXCEPT ![n] = @ \ {m}]
    /\ UNCHANGED <<up, version, asked, members>>

ChangeVersion(n) ==
    /\ n \in up /\ version[n] < MemberVersions[n]
    /\ version' = [version EXCEPT ![n] = @ + 1]
    /\ UNCHANGED <<up, mail, lost, asked, members>>

Stop(n) == n \in up /\ up' = up \ {n} /\ asked' = asked \ {n} /\ UNCHANGED <<version, mail, lost, members>>

Start(n) == n \notin up /\ up' = up \cup {n} /\ UNCHANGED <<version, mail, lost, asked, members>>

-----------------------------------------------------------------------------
(* The detector.                                                             *)

Receives(n, kind, v) ==
    /\ [kind |-> kind, version |-> v] \in mail[n]
    /\ mail' = [mail EXCEPT ![n] = @ \ {[kind |-> kind, version |-> v]}]
    /\ UNCHANGED <<up, version, lost>>

Described(v) == [version |-> v, health |-> "Reported", silence |-> 0]

HasCapacity(n) == n \in Observed \/ Cardinality(Observed) < MaxMembers

\* A description replaces what was there, also a newer one that has overtaken it.
register_full(n, v) ==
    /\ Receives(n, "full", v)
    /\ members' = IF HasCapacity(n) THEN [members EXCEPT ![n] = Described(v)] ELSE members
    /\ UNCHANGED asked

\* The answer to a pulse of another version; the member's silence goes on.
Mismatched(n) ==
    /\ members' = [members EXCEPT ![n].health = "Incompatible"]
    /\ asked' = asked \cup ({n} \cap up)

pulse_of(n, v) ==
    /\ Receives(n, "pulse", v)
    /\ \/ n \notin Observed /\ asked' = asked \cup ({n} \cap up) /\ UNCHANGED members
       \/ n \in Observed /\ members[n].version # v /\ Mismatched(n)
       \/ /\ members[n].version = v
          /\ members' = [members EXCEPT ![n] = Described(v)]
          /\ UNCHANGED asked

\* Defect: a member that is silent for long enough to be dead is suspect all the same.
JudgedSuspectFirst(m) ==
    IF m.silence >= SuspectAfter THEN [m EXCEPT !.health = "Suspect"] ELSE m

Judged(m) ==
    IF m.silence >= DeadAfter THEN [m EXCEPT !.health = "Dead"]
    ELSE IF m.silence >= SuspectAfter THEN [m EXCEPT !.health = "Suspect"]
    ELSE m

advance ==
    /\ members' = [n \in Member |-> IF n \in Observed THEN Judged(members[n]) ELSE Absent]
    /\ UNCHANGED <<up, version, mail, lost, asked>>

DetectorTick ==
    /\ members' = [n \in Member |-> IF n \in Observed /\ members[n].silence < DeadAfter
                                      THEN [members[n] EXCEPT !.silence = @ + 1] ELSE members[n]]
    /\ UNCHANGED <<up, version, mail, lost, asked>>

-----------------------------------------------------------------------------
VersionOf(n) == 1..MemberVersions[n]

DetectorNext ==
    \/ \E n \in Member : \/ SendPulse(n) \/ SendFull(n) \/ Lose(n)
                         \/ ChangeVersion(n) \/ Stop(n) \/ Start(n)
                         \/ \E v \in VersionOf(n) : register_full(n, v) \/ pulse_of(n, v)
    \/ advance
    \/ DetectorTick

\* Time goes on and the detector is advanced, a member that is up goes on sending,
\* and what is not lost arrives.
DetectorFairness ==
    /\ WF_dvars(DetectorTick) /\ WF_dvars(advance)
    /\ \A n \in Member :
          /\ WF_dvars(SendPulse(n)) /\ WF_dvars(SendFull(n))
          /\ \A v \in VersionOf(n) : WF_dvars(pulse_of(n, v)) /\ WF_dvars(register_full(n, v))

-----------------------------------------------------------------------------
\* docs/phase5-ha-control.md: a member without pulses becomes Suspect and then Dead, and
\* one whose versions differ is asked for its description.  A member that stays down
\* is Dead in the end and no late message brings it back; one that stays up is seen
\* as what it reports again and again, whatever it changed, lost or sent out of
\* order before: it is never Incompatible or Dead for good.
HealthConverges ==
    \A n \in Member :
        /\ <>[](n \in Observed \ up) => <>[](members[n].health = "Dead")
        /\ <>[](n \in Observed \cap up) => []<>(members[n].health = "Reported")

=============================================================================
