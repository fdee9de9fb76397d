--------------------------- MODULE RenewalAdoption ---------------------------
(***************************************************************************)
(* What "Set up automatic renewal" promises an operator, without workers,  *)
(* leases, retries or crashes.  A request stays open until it is decided,  *)
(* it is decided once, linking the certificate to the profile derived for  *)
(* the request and deciding it are one step, and detaching a certificate   *)
(* decides everything that was still open for it.                          *)
(* (apps/api/services/certops/renewalAdoption.js)                          *)
(***************************************************************************)
CONSTANTS Intents, Certificates, NoCertificate, NoProfile, OtherProfile

VARIABLES
  decision,  \* what became of a request
  target,    \* the certificate it is for
  profile    \* managed_certificates.profile_id, by the request it was derived for

vars == <<decision, target, profile>>

Undecided == {"open", "parked"}

Init ==
  /\ decision = [i \in Intents |-> "none"]
  /\ target = [i \in Intents |-> NoCertificate]
  /\ profile = [c \in Certificates |-> NoProfile]

\* The certificate has no profile, and its operator asks for one.
Request(i, c) ==
  /\ decision[i] = "none" /\ profile[c] = NoProfile
  /\ decision' = [decision EXCEPT ![i] = "open"]
  /\ target' = [target EXCEPT ![i] = c]
  /\ UNCHANGED profile

\* The job worked: the certificate gets its profile.
Derive(i) ==
  /\ decision[i] = "open" /\ profile[target[i]] = NoProfile
  /\ decision' = [decision EXCEPT ![i] = "derived"]
  /\ profile' = [profile EXCEPT ![target[i]] = i]
  /\ UNCHANGED target

\* Nothing is configured, for good.
Decline(i) ==
  /\ decision[i] = "open"
  /\ decision' = [decision EXCEPT ![i] = "void"]
  /\ UNCHANGED <<target, profile>>

\* The request is put aside until its operator retries it.
Park(i) ==
  /\ decision[i] = "open"
  /\ decision' = [decision EXCEPT ![i] = "parked"]
  /\ UNCHANGED <<target, profile>>

Retry(i) ==
  /\ decision[i] = "parked"
  /\ decision' = [decision EXCEPT ![i] = "open"]
  /\ UNCHANGED <<target, profile>>

Detach(c) ==
  /\ profile[c] # NoProfile
  /\ profile' = [profile EXCEPT ![c] = NoProfile]
  /\ decision' = [i \in Intents |->
                    IF target[i] = c /\ decision[i] \in Undecided THEN "void"
                    ELSE decision[i]]
  /\ UNCHANGED target

\* Another way to a profile, or out of one.
Manage(c, p) ==
  /\ p \in {NoProfile, OtherProfile}
  /\ profile' = [profile EXCEPT ![c] = p]
  /\ UNCHANGED <<decision, target>>

Next ==
  \/ \E i \in Intents : \/ \E c \in Certificates : Request(i, c)
                        \/ Derive(i) \/ Decline(i) \/ Park(i) \/ Retry(i)
  \/ \E c \in Certificates : Detach(c) \/ (\E p \in {NoProfile, OtherProfile} : Manage(c, p))

Spec == Init /\ [][Next]_vars
=============================================================================
