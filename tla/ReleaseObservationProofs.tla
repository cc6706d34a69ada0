----------------------- MODULE ReleaseObservationProofs -----------------------
(***************************************************************************)
(* Proofs about ReleaseObservation, for any package of artifacts, any URLs *)
(* and limits, and a server that does anything.                            *)
(***************************************************************************)
EXTENDS ReleaseObservation, TLAPS

Path == <<Requested[Role]>> \o chain

Open == pc # "ended" => outcome = "open"

BodyWithinLimit == pc \in {"body", "validate"} => received <= MaxBytes

IInv == TypeOK /\ ChainIsAnOfficialPath /\ ReleaseIsComplete /\ Open /\ BodyWithinLimit

\* A new target at the end keeps a path free of loops.
LEMMA LongerPath ==
    ASSUME NEW p \in Seq(Urls), IsInjective(p), NEW t \in Urls, t \notin ToSet(p)
    PROVE  /\ IsInjective(Append(p, t))
           /\ ToSet(Append(p, t)) = ToSet(p) \cup {t}
           /\ Last(Append(p, t)) = t
<1>1. /\ Append(p, t) \in Seq(Urls) /\ Len(Append(p, t)) = Len(p) + 1
      /\ Append(p, t)[Len(p) + 1] = t
      /\ \A i \in 1..Len(p) : Append(p, t)[i] = p[i]
      /\ DOMAIN Append(p, t) = 1..(Len(p) + 1)
      /\ DOMAIN p = 1..Len(p) /\ Len(p) \in Nat
  OBVIOUS
<1>2. \A i \in 1..Len(p) : p[i] # t
  BY DEF ToSet
<1>3. IsInjective(Append(p, t))
  BY <1>1, <1>2 DEF IsInjective
<1>4. ToSet(Append(p, t)) = ToSet(p) \cup {t}
  BY <1>1 DEF ToSet
<1>5. QED
  BY <1>1, <1>3, <1>4 DEF Last

\* The path of an artifact that is requested anew.
LEMMA FreshPath ==
    ASSUME NEW i \in DOMAIN Order
    PROVE  LET p == <<Requested[Order[i]]>> \o << >>
           IN Last(p) = Requested[Order[i]] /\ IsInjective(p) /\ ToSet(p) \subseteq Official
<1>1. Requested[Order[i]] \in Official
  BY ConfigurationAssumption DEF Roles
<1>2. <<Requested[Order[i]]>> \o << >> = <<Requested[Order[i]]>>
  BY <1>1
<1>3. QED
  BY <1>1, <1>2 DEF Last, IsInjective, ToSet

-----------------------------------------------------------------------------

LEMMA InitInv == Init => IInv
<1> SUFFICES ASSUME Init PROVE IInv
  OBVIOUS
<1>1. 1 \in DOMAIN Order /\ Requested[Order[1]] \in Official /\ Official \subseteq Urls
  BY ConfigurationAssumption DEF Roles
<1>2. TypeOK
  BY <1>1, ConfigurationAssumption DEF Init, TypeOK, Roles
<1>3. ChainIsAnOfficialPath
  BY <1>1, FreshPath DEF Init, ChainIsAnOfficialPath, Role
<1>4. ReleaseIsComplete
  BY DEF Init, ReleaseIsComplete
<1>5. QED
  BY <1>2, <1>3, <1>4 DEF Init, IInv, Open, BodyWithinLimit

Errors == RetrievalErrors \cup ContentErrors \cup {"raised"}

LEMMA FailStep ==
    ASSUME IInv, pc # "ended", NEW code \in Errors, FailWith(code)
    PROVE  IInv'
<1> USE DEF IInv, FailWith
<1>1. TypeOK'
  BY DEF TypeOK, Errors
<1>2. ChainIsAnOfficialPath'
  BY DEF ChainIsAnOfficialPath, Role
<1>3. code # "release" /\ outcome # "release"
  BY DEF Errors, RetrievalErrors, ContentErrors, Open
<1>4. ReleaseIsComplete'
  BY <1>3 DEF ReleaseIsComplete
<1>5. QED
  BY <1>1, <1>2, <1>4 DEF Open, BodyWithinLimit

\* A step on the same hop of the same artifact.
LEMMA SameHop ==
    ASSUME IInv, UNCHANGED <<step, url, chain, validated, outcome>>, outcome # "release",
           TypeOK', BodyWithinLimit', Open',
           pc' = "validate" => declared' \in {Undeclared, received'}
    PROVE  IInv'
BY DEF IInv, ChainIsAnOfficialPath, Role, ReleaseIsComplete, BodyWithinLimit

LEMMA RetryStep ==
    ASSUME IInv, pc = "send", NEW code \in RetrievalErrors, RetryOrFail(code)
    PROVE  IInv'
<1>1. CASE FailWith(code)
  BY <1>1, FailStep DEF Errors
<1>2. CASE /\ attempt < MaxAttempts
           /\ attempt' = attempt + 1
           /\ UNCHANGED <<step, url, chain, declared, received, validated, pc, outcome>>
  <2>1. TypeOK'
    BY <1>2, ConfigurationAssumption DEF IInv, TypeOK
  <2>2. BodyWithinLimit' /\ Open' /\ outcome = "open" /\ pc' = "send"
    BY <1>2 DEF IInv, BodyWithinLimit, Open
  <2>3. QED
    BY <1>2, <2>1, <2>2, SameHop
<1>3. QED
  BY <1>1, <1>2 DEF RetryOrFail

LEMMA RedirectStep ==
    ASSUME IInv, NEW target \in Urls, Redirect(target)
    PROVE  IInv'
<1>1. CASE FailWith("artifact_url_unofficial") \/ FailWith("artifact_redirect_invalid")
  BY <1>1, FailStep DEF Redirect, Errors, RetrievalErrors
<1>2. CASE /\ target \in Official \ Visited
           /\ Len(chain) < MaxRedirects
           /\ chain' = Append(chain, target)
           /\ url' = target
           /\ attempt' = 1
           /\ UNCHANGED <<step, declared, received, validated, pc, outcome>>
  <2>1. chain \in Seq(Urls) /\ Requested[Role] \in Urls /\ Path \in Seq(Urls)
    BY ConfigurationAssumption DEF IInv, TypeOK, Role, Roles, Path
  <2>2. TypeOK'
    BY <1>2, <2>1, ConfigurationAssumption DEF IInv, TypeOK
  <2>3. Path' = Append(Path, target)
    BY <1>2, <2>1 DEF Path, Role
  <2>4. ToSet(Path) = Visited
    <3>1. /\ DOMAIN Path = 1..(Len(chain) + 1) /\ DOMAIN chain = 1..Len(chain)
          /\ Path[1] = Requested[Role] /\ Len(chain) \in Nat
          /\ \A i \in 1..Len(chain) : Path[i + 1] = chain[i]
      BY <2>1 DEF Path
    <3>2. \A i \in 2..(Len(chain) + 1) : i - 1 \in 1..Len(chain) /\ Path[i] = chain[i - 1]
      BY <3>1
    <3>3. QED
      BY <3>1, <3>2 DEF ToSet, Visited
  <2>5. /\ IsInjective(Path) /\ ToSet(Path) \subseteq Official
        /\ \A entry \in validated : entry[2] \in Official
    BY DEF IInv, ChainIsAnOfficialPath, Path
  <2>6. /\ IsInjective(Path') /\ ToSet(Path') \subseteq Official /\ url' = Last(Path')
    BY <1>2, <2>1, <2>3, <2>4, <2>5, LongerPath
  <2>7. ChainIsAnOfficialPath'
    BY <1>2, <2>5, <2>6 DEF ChainIsAnOfficialPath, Path
  <2>8. QED
    BY <1>2, <2>2, <2>7 DEF IInv, ReleaseIsComplete, Open, BodyWithinLimit
<1>3. QED
  BY <1>1, <1>2 DEF Redirect

LEMMA RespondStep ==
    ASSUME IInv, NEW length \in 0..(MaxBytes + 1) \cup {Undeclared}, Respond(length)
    PROVE  IInv'
<1>1. CASE FailWith("artifact_too_large")
  BY <1>1, FailStep DEF Respond, Errors, RetrievalErrors
<1>2. CASE ~ (length # Undeclared /\ length > MaxBytes)
  <2>1. TypeOK'
    BY <1>2, ConfigurationAssumption DEF IInv, TypeOK, Respond
  <2>2. BodyWithinLimit' /\ Open' /\ outcome = "open" /\ pc' = "body"
    BY <1>2, ConfigurationAssumption DEF IInv, BodyWithinLimit, Open, Respond
  <2>3. QED
    BY <1>2, <2>1, <2>2, SameHop DEF Respond
<1>3. QED
  BY <1>1, <1>2 DEF Respond

LEMMA ChunkStep ==
    ASSUME IInv, Chunk
    PROVE  IInv'
<1>1. CASE FailWith("artifact_too_large")
  BY <1>1, FailStep DEF Chunk, Errors, RetrievalErrors
<1>2. CASE ~ received + 1 > MaxBytes
  <2>1. TypeOK'
    BY <1>2 DEF IInv, TypeOK, Chunk
  <2>2. BodyWithinLimit' /\ Open' /\ outcome = "open" /\ pc' = "body"
    BY <1>2, ConfigurationAssumption DEF IInv, TypeOK, BodyWithinLimit, Open, Chunk
  <2>3. QED
    BY <1>2, <2>1, <2>2, SameHop DEF Chunk
<1>3. QED
  BY <1>1, <1>2 DEF Chunk

LEMMA BodyEndsStep ==
    ASSUME IInv, BodyEnds
    PROVE  IInv'
<1>1. CASE FailWith("artifact_length_mismatch")
  BY <1>1, FailStep DEF BodyEnds, Errors, RetrievalErrors
<1>2. CASE declared \in {Undeclared, received}
  <2>1. TypeOK'
    BY <1>2 DEF IInv, TypeOK, BodyEnds
  <2>2. BodyWithinLimit' /\ Open' /\ outcome = "open"
    BY <1>2 DEF IInv, BodyWithinLimit, Open, BodyEnds
  <2>3. QED
    BY <1>2, <2>1, <2>2, SameHop DEF BodyEnds
<1>3. QED
  BY <1>1, <1>2 DEF BodyEnds

LEMMA ValidateStep ==
    ASSUME IInv, Validate
    PROVE  IInv'
<1> USE DEF Validate
<1>1. /\ step \in DOMAIN Order /\ DOMAIN Order = 1..Len(Order) /\ Len(Order) \in Nat
      /\ Role \in Roles /\ url \in Official /\ Official \subseteq Urls
  <2>1. step \in DOMAIN Order /\ Role \in Roles
    BY ConfigurationAssumption DEF IInv, TypeOK, Role, Roles
  <2>2. Path \in Seq(Urls) /\ Path # << >>
    BY <2>1, ConfigurationAssumption DEF IInv, TypeOK, Path
  <2>3. Last(Path) \in ToSet(Path)
    BY <2>2 DEF Last, ToSet
  <2>4. url \in Official
    BY <2>3 DEF IInv, ChainIsAnOfficialPath, Path
  <2>5. QED
    BY <2>1, <2>4, ConfigurationAssumption
<1>2. outcome = "open" /\ validated' = validated \cup {<<Order[step], url>>}
  BY DEF IInv, Open, Role
<1>3. {entry[1] : entry \in validated'} = {Order[i] : i \in 1..step}
  <2>1. {entry[1] : entry \in validated} = {Order[i] : i \in 1..(step - 1)}
    BY <1>2 DEF IInv, ReleaseIsComplete
  <2>2. {entry[1] : entry \in validated'} = {entry[1] : entry \in validated} \cup {Order[step]}
    <3>1. <<Order[step], url>>[1] = Order[step]
      OBVIOUS
    <3>2. QED
      BY <1>2, <3>1
  <2>3. 1..step = 1..(step - 1) \cup {step}
    BY <1>1
  <2>4. QED
    BY <2>1, <2>2, <2>3
<1>4. \A entry \in validated' : entry[2] \in Official
  BY <1>1, <1>2 DEF IInv, ChainIsAnOfficialPath
<1>5. CASE step < Len(Order)
  <2>1. step' = step + 1 /\ step + 1 \in DOMAIN Order /\ pc' = "send" /\ outcome' = "open"
    BY <1>1, <1>2, <1>5
  <2>2. Requested[Order[step + 1]] \in Official
    BY <2>1, ConfigurationAssumption DEF Roles
  <2>3. TypeOK'
    BY <1>1, <1>2, <1>5, <2>1, <2>2, ConfigurationAssumption DEF IInv, TypeOK, Role
  <2>4. ChainIsAnOfficialPath'
    BY <1>4, <1>5, <2>1, FreshPath DEF ChainIsAnOfficialPath, Role
  <2>5. ReleaseIsComplete'
    <3>1. step' - 1 = step
      BY <1>1, <2>1
    <3>2. QED
      BY <1>3, <2>1, <3>1 DEF ReleaseIsComplete
  <2>6. QED
    BY <2>1, <2>3, <2>4, <2>5 DEF IInv, Open, BodyWithinLimit
<1>6. CASE step = Len(Order)
  <2>1. pc' = "ended" /\ outcome' = "release" /\ UNCHANGED <<step, url, chain, attempt, declared, received>>
    BY <1>6, <1>1
  <2>2. TypeOK'
    BY <1>1, <1>2, <2>1 DEF IInv, TypeOK, Role
  <2>3. ChainIsAnOfficialPath'
    BY <1>4, <2>1 DEF IInv, ChainIsAnOfficialPath, Role
  <2>4. ReleaseIsComplete'
    BY <1>1, <1>3, <1>6, <2>1 DEF ReleaseIsComplete, Roles
  <2>5. QED
    BY <2>1, <2>2, <2>3, <2>4 DEF IInv, Open, BodyWithinLimit
<1>7. QED
  BY <1>1, <1>5, <1>6

LEMMA NextStep == IInv /\ [Next]_vars => IInv'
<1> SUFFICES ASSUME IInv, [Next]_vars PROVE IInv'
  OBVIOUS
<1> USE DEF Errors, RetrievalErrors, ContentErrors
<1>1. CASE SendFails
  BY <1>1, FailStep, RetryStep DEF SendFails
<1>2. CASE BadStatus
  BY <1>2, FailStep, RetryStep DEF BadStatus
<1>3. CASE BadLocation \/ BadHeaders \/ BodyBreaks \/ Reject
  BY <1>3, FailStep DEF BadLocation, BadHeaders, BodyBreaks, Reject
<1>4. CASE \E target \in Urls : Redirect(target)
  BY <1>4, RedirectStep
<1>5. CASE \E length \in 0..(MaxBytes + 1) \cup {Undeclared} : Respond(length)
  BY <1>5, RespondStep
<1>6. CASE Chunk \/ BodyEnds \/ Validate
  BY <1>6, ChunkStep, BodyEndsStep, ValidateStep
<1>7. CASE UNCHANGED vars
  BY <1>7 DEF vars, IInv, TypeOK, ChainIsAnOfficialPath, ReleaseIsComplete, Role, Open,
     BodyWithinLimit
<1>8. QED
  BY <1>1, <1>2, <1>3, <1>4, <1>5, <1>6, <1>7 DEF Next

LEMMA Invariance == Spec => []IInv
BY InitInv, NextStep, PTL DEF Spec

\* Every reachable state of an observation is well typed.
THEOREM TypeCorrect == Spec => []TypeOK
BY Invariance, PTL DEF IInv

\* However servers redirect, each artifact comes along a path of official
\* URLs that starts at the configured one and repeats none.
THEOREM PathsAreOfficial == Spec => []ChainIsAnOfficialPath
BY Invariance, PTL DEF IInv

\* A release has all its artifacts, and no body is accepted in part.
THEOREM ReleasesAreComplete == Spec => []ReleaseIsComplete
BY Invariance, PTL DEF IInv
=============================================================================
