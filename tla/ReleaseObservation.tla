------------------------- MODULE ReleaseObservation -------------------------
(***************************************************************************)
(* CnbvPortfolioAdapter.observe over HttpArtifactClient.retrieve: the      *)
(* required artifacts are fetched in order, every redirect is authorized   *)
(* before it is followed, each hop is tried a bounded number of times, and *)
(* the first error ends the observation.                                   *)
(*                                                                         *)
(* The remote server and the network are arbitrary: each step of httpx may *)
(* end in any way httpx has, the one exception being that it does end (the *)
(* client sets a timeout).  A URL is reduced to its identity and to        *)
(* whether the authority policy accepts it, a body to its length, and the  *)
(* structural validation to its verdict.                                   *)
(***************************************************************************)
EXTENDS Naturals, Sequences, SequencesExt

CONSTANTS
    Order,        \* RETRIEVAL_ORDER: the roles as a sequence
    ZipRoles,     \* the roles whose artifact is a ZIP archive
    Urls,         \* URLs a redirect may name
    Official,     \* those authorize_cnbv_artifact_url accepts
    Requested,    \* the configured URL of each role
    MaxAttempts,  \* _MAX_ATTEMPTS, per hop
    MaxRedirects, \* max_redirects, per artifact
    MaxBytes,     \* max_bytes, in chunks
    Undeclared    \* no Content-Length header

Roles == {Order[i] : i \in DOMAIN Order}

ASSUME ConfigurationAssumption ==
    /\ Order \in Seq(Roles) /\ Order # <<>>
    /\ Official \subseteq Urls
    /\ Requested \in [Roles -> Official]
    /\ MaxAttempts \in Nat \ {0} /\ MaxRedirects \in Nat /\ MaxBytes \in Nat
    /\ Undeclared \notin Nat

RetrievalErrors ==
    {"artifact_url_unofficial", "artifact_transport_failed",
     "artifact_tls_untrusted", "artifact_http_status",
     "artifact_redirect_invalid", "artifact_content_encoding",
     "artifact_too_large", "artifact_length_mismatch"}

ContentErrors == {"artifact_content"}

VARIABLES
    step,      \* index in Order of the artifact being observed
    url,       \* the URL of the current hop
    chain,     \* the redirect targets followed for this artifact
    attempt,   \* the attempt of the current hop
    declared,  \* the Content-Length of the response being read
    received,  \* chunks of its body read so far
    validated, \* the roles validated, with the URL their bytes came from
    pc,        \* "send", "body", "validate" or "ended"
    outcome    \* "open", "release", an error code, or "raised"

vars == <<step, url, chain, attempt, declared, received, validated, pc, outcome>>

Role == Order[step]

Visited == {Requested[Role]} \cup ToSet(chain)

Init ==
    /\ step = 1
    /\ url = Requested[Order[1]]
    /\ chain = <<>>
    /\ attempt = 1
    /\ declared = Undeclared
    /\ received = 0
    /\ validated = {}
    /\ pc = "send"
    /\ outcome = "open"

-----------------------------------------------------------------------------

\* The observation ends at its first error: as a typed failure of the
\* outcome, or, for an exception that is no DiscoveryError, by raising it.
FailWith(code) ==
    /\ outcome' = code
    /\ pc' = "ended"
    /\ UNCHANGED <<step, url, chain, attempt, declared, received, validated>>

\* Mutant: one retry too many.
RetryOnceMore(code) ==
    \/ /\ attempt <= MaxAttempts
       /\ attempt' = attempt + 1
       /\ UNCHANGED <<step, url, chain, declared, received, validated, pc, outcome>>
    \/ attempt > MaxAttempts /\ FailWith(code)

\* Mutant: the last attempt starts the count again.
RetryOrFailForever(code) ==
    /\ attempt' = IF attempt < MaxAttempts THEN attempt + 1 ELSE 1
    /\ UNCHANGED <<step, url, chain, declared, received, validated, pc, outcome>>

RetryOrFail(code) ==
    \/ /\ attempt < MaxAttempts
       /\ attempt' = attempt + 1
       /\ UNCHANGED <<step, url, chain, declared, received, validated, pc, outcome>>
    \/ attempt = MaxAttempts /\ FailWith(code)

\* httpx raises instead of returning a response.
SendFails ==
    /\ pc = "send"
    /\ \/ RetryOrFail("artifact_transport_failed")
       \/ \E code \in {"artifact_transport_failed", "artifact_tls_untrusted",
                       "artifact_content_encoding", "artifact_redirect_invalid"} :
             FailWith(code)

\* Status 429 or 5xx, and any other status but 200 and the redirects.
BadStatus ==
    /\ pc = "send"
    /\ \/ RetryOrFail("artifact_http_status")
       \/ FailWith("artifact_http_status")

\* Mutant: the target is not authorized before it is followed.
RedirectUnauthorized(target) ==
    /\ pc = "send"
    /\ \/ target \in Visited /\ FailWith("artifact_redirect_invalid")
       \/ Len(chain) >= MaxRedirects /\ FailWith("artifact_redirect_invalid")
       \/ /\ target \notin Visited
          /\ Len(chain) < MaxRedirects
          /\ chain' = Append(chain, target)
          /\ url' = target
          /\ attempt' = 1
          /\ UNCHANGED <<step, declared, received, validated, pc, outcome>>

\* Mutant: only an immediate return to the same URL counts as a loop.
RedirectLooping(target) ==
    /\ pc = "send"
    /\ \/ target \notin Official /\ FailWith("artifact_url_unofficial")
       \/ target = url /\ FailWith("artifact_redirect_invalid")
       \/ Len(chain) >= MaxRedirects /\ FailWith("artifact_redirect_invalid")
       \/ /\ target \in Official \ {url}
          /\ Len(chain) < MaxRedirects
          /\ chain' = Append(chain, target)
          /\ url' = target
          /\ attempt' = 1
          /\ UNCHANGED <<step, declared, received, validated, pc, outcome>>

\* A redirect with a usable Location: authority first, then loop, then limit.
Redirect(target) ==
    /\ pc = "send"
    /\ \/ /\ target \notin Official
          /\ FailWith("artifact_url_unofficial")
       \/ /\ target \in Official
          /\ target \in Visited \/ Len(chain) >= MaxRedirects
          /\ FailWith("artifact_redirect_invalid")
       \/ /\ target \in Official \ Visited
          /\ Len(chain) < MaxRedirects
          /\ chain' = Append(chain, target)
          /\ url' = target
          /\ attempt' = 1
          /\ UNCHANGED <<step, declared, received, validated, pc, outcome>>

BadLocation ==
    /\ pc = "send"
    /\ FailWith("artifact_redirect_invalid")

\* Status 200: the headers are checked before the body is read.
Respond(length) ==
    /\ pc = "send"
    /\ IF length # Undeclared /\ length > MaxBytes
       THEN FailWith("artifact_too_large")
       ELSE /\ pc' = "body"
            /\ declared' = length
            /\ received' = 0
            /\ UNCHANGED <<step, url, chain, attempt, validated, outcome>>

BadHeaders ==
    /\ pc = "send"
    /\ \E code \in {"artifact_content_encoding", "artifact_length_mismatch"} :
          FailWith(code)

\* Mutant: the size limit is left to the declared length.
ChunkUnbounded ==
    /\ pc = "body"
    /\ received <= MaxBytes
    /\ received' = received + 1
    /\ UNCHANGED <<step, url, chain, attempt, declared, validated, pc, outcome>>

Chunk ==
    /\ pc = "body"
    /\ IF received + 1 > MaxBytes
       THEN FailWith("artifact_too_large")
       ELSE /\ received' = received + 1
            /\ UNCHANGED <<step, url, chain, attempt, declared, validated, pc, outcome>>

BodyEnds ==
    /\ pc = "body"
    /\ IF declared \in {Undeclared, received}
       THEN /\ pc' = "validate"
            /\ UNCHANGED <<step, url, chain, attempt, declared, received,
                           validated, outcome>>
       ELSE FailWith("artifact_length_mismatch")

\* The connection breaks while the body is read.  _read_body translates a
\* DecodingError only: a transport error leaves retrieve, and observe, raw.
BodyBreaks ==
    /\ pc = "body"
    /\ FailWith("artifact_content_encoding") \/ FailWith("raised")

\* Mutant: a failing artifact is skipped instead of ending the observation.
ValidateOrSkip ==
    /\ pc = "validate"
    /\ \/ validated' = validated \cup {<<Role, url>>}
       \/ UNCHANGED validated
    /\ IF step < Len(Order)
       THEN /\ step' = step + 1
            /\ url' = Requested[Order[step + 1]]
            /\ chain' = <<>>
            /\ attempt' = 1
            /\ pc' = "send"
            /\ UNCHANGED <<declared, received, outcome>>
       ELSE /\ outcome' = "release"
            /\ pc' = "ended"
            /\ UNCHANGED <<step, url, chain, attempt, declared, received>>

\* The bytes are accepted; the next artifact is fetched, or all are there.
Validate ==
    /\ pc = "validate"
    /\ received > 0
    /\ validated' = validated \cup {<<Role, url>>}
    /\ IF step < Len(Order)
       THEN /\ step' = step + 1
            /\ url' = Requested[Order[step + 1]]
            /\ chain' = <<>>
            /\ attempt' = 1
            /\ pc' = "send"
            /\ UNCHANGED <<declared, received, outcome>>
       ELSE /\ outcome' = "release"
            /\ pc' = "ended"
            /\ UNCHANGED <<step, url, chain, attempt, declared, received>>

\* Empty, HTML, of the wrong media type or layout; and a ZIP member whose
\* compressed data is damaged, which zlib reports by its own exception.
Reject ==
    /\ pc = "validate"
    /\ \/ \E code \in ContentErrors : FailWith(code)
       \/ Role \in ZipRoles /\ received > 0 /\ FailWith("raised")

Next ==
    \/ SendFails \/ BadStatus \/ BadLocation \/ BadHeaders
    \/ \E target \in Urls : Redirect(target)
    \/ \E length \in 0..(MaxBytes + 1) \cup {Undeclared} : Respond(length)
    \/ Chunk \/ BodyEnds \/ BodyBreaks
    \/ Validate \/ Reject

\* One thread that never waits without a timeout.
Spec == Init /\ [][Next]_vars /\ WF_vars(Next)

-----------------------------------------------------------------------------

TypeOK ==
    /\ step \in DOMAIN Order
    /\ url \in Urls
    /\ chain \in Seq(Urls) /\ Len(chain) <= MaxRedirects
    /\ attempt \in 1..MaxAttempts
    /\ declared \in 0..MaxBytes \cup {Undeclared}
    /\ received \in Nat
    /\ validated \subseteq Roles \X Urls
    /\ pc \in {"send", "body", "validate", "ended"}
    /\ outcome \in {"open", "release", "raised"} \cup RetrievalErrors \cup ContentErrors

\* The redirect chain kept as provenance is the path taken, wherever a server
\* redirects to: it starts at the configured URL, ends at the URL in hand,
\* visits none twice, and leaves the official authority nowhere.  No bytes
\* that count as evidence came from elsewhere.
ChainIsAnOfficialPath ==
    LET path == <<Requested[Role]>> \o chain
    IN /\ url = Last(path) /\ IsInjective(path)
       /\ ToSet(path) \subseteq Official
       /\ \A entry \in validated : entry[2] \in Official

\* An observation is all or nothing: a body goes to validation only whole, as
\* declared and within the limit; a release has every required artifact; and
\* otherwise exactly those ahead of the one that failed were accepted.
ReleaseIsComplete ==
    /\ pc = "validate" => received <= MaxBytes /\ declared \in {Undeclared, received}
    /\ {entry[1] : entry \in validated} =
           IF outcome = "release" THEN Roles ELSE {Order[i] : i \in 1..(step - 1)}

\* Retries and redirects are bounded, so the observation ends.
ObservationEnds == <>(pc = "ended")

\* observe reports every failure to retrieve or validate an artifact in its
\* outcome, and a failure of the transport as artifact_transport_failed.
FailuresAreTyped == outcome # "raised"
=============================================================================
