----------------------------- MODULE Publication -----------------------------
(* Stage two of a release candidate (scripts/rc_verify_and_publish.py and  *)
(* the jobs of rc-publish-stage.yml): reserve, pypi, publish, attest and   *)
(* finalize.  Every job verifies again; a job that is refused or dies ends *)
(* the run, and can be run again by itself or with the whole run.          *)
EXTENDS ReleaseRefs

CONSTANTS
    Builds,         \* the attempts of rc-build for one head
    MaxBuilt,       \* bound: builds of all heads
    MoveRc          \* SDLC_RC_CHANNEL is "enabled"

VARIABLES
    built,          \* the builds stage two can be triggered by: <<head, build>>
    attested        \* the builds whose subjects are signed

publicationVars == <<built, attested>>

InitPublication == built = {} /\ attested = {}

Running(flow) == lock # Nil /\ lock.flow = flow

\* The step of the run, and the job it belongs to.
At(flow, step) == Running(flow) /\ lock.at = step

Goto(step) == lock' = [lock EXCEPT !.at = step]

JobOf == [reserve |-> "reserve", tag |-> "reserve", draft |-> "reserve",
          listing |-> "reserve", assets |-> "reserve",
          pypi |-> "pypi", upload |-> "pypi",
          publish |-> "publish", await |-> "publish", image |-> "publish",
          channel |-> "publish", reverify |-> "publish",
          attest |-> "attest", finalize |-> "finalize", open |-> "finalize"]

\* The run ends.  "Re-run failed jobs" of the last one starts again at the
\* failed job; at the first job that is a new run.
Fails(jobOf) ==
    LET job == jobOf[lock.at]
    IN  /\ lock' = Nil
        /\ failed' = IF job \in {"reserve", "prove"} THEN failed
                     ELSE [lock EXCEPT !.at = job, !.todo = {}]

-----------------------------------------------------------------------------
(* What a job verifies before it does anything.                            *)

\* verify: H is still the branch head and main has not moved.
Verify(r) == branch # Nil /\ branch = r.h /\ Computable(r.h)

\* Mutant of Bound: the tag is only compared by its head.
BoundToHead(r) == \A t \in TagOf(Candidate(r.h)) : t.at = r.h

\* The candidate's tag, if there is one, is at H and lists these bytes.
Bound(r) ==
    \A t \in TagOf(Candidate(r.h)) : t.at = r.h /\ t.binds = Assets(r.h, r.build)

Tagged(r) == TagOf(Candidate(r.h)) # {}

\* inventory: every surface is read, and none may hold anything else.
Inventory(r, push) ==
    LET v == Candidate(r.h)
        seen == Visible(v, push)
        mine == Assets(r.h, r.build)
    IN  /\ Cardinality(seen) <= 1
        /\ \A x \in seen :
               /\ x.whole
               /\ Tagged(r)
               /\ x.assets \subseteq mine
               /\ ~x.draft => x.assets = mine
        /\ ImageOf(v) \subseteq {Digest(r.h, r.build)}
        /\ Listed(v) \subseteq Dists(r.h, r.build)
        /\ Listed(v) # {} \/ ImageOf(v) # {} =>
               IF push \/ seen # {}
               THEN \E x \in seen : Bytes(r.h, r.build, "provenance") \in x.assets
               ELSE Tagged(r)
        /\ Bound(r)

Complete(r, push) ==
    \E x \in Visible(Candidate(r.h), push) : x.assets = Assets(r.h, r.build)

\* reservation_bound: what a job that sees no drafts can tell.
ReservationBound(r) ==
    /\ Inventory(r, FALSE)
    /\ Tagged(r)
    /\ Visible(Candidate(r.h), FALSE) # {} => Complete(r, FALSE)

MissingFiles(r) == Dists(r.h, r.build) \ Listed(Candidate(r.h))

-----------------------------------------------------------------------------
(* The run.                                                                *)

Start(h, build) ==
    [flow |-> "publication", h |-> h, build |-> build, at |-> "reserve", todo |-> {}]

\* rc-build succeeds for the pushed head.
BuildCandidate(build) ==
    /\ branch # Nil /\ Computable(branch)
    /\ built' = built \cup {<<branch, build>>}
    /\ built' # built /\ Cardinality(built) < MaxBuilt
    /\ UNCHANGED <<refs, surfaces, lock, failed, faults, attested>>

RunPublication ==
    /\ lock = Nil
    /\ \/ \E b \in built : lock' = Start(b[1], b[2])
       \/ failed # Nil /\ failed.flow = "publication" /\ lock' = failed
    /\ UNCHANGED <<refs, surfaces, failed, faults, built, attested>>

\* reserve: nothing is written when the reservation is complete.
Reserve ==
    /\ At("publication", "reserve")
    /\ Verify(lock) /\ Inventory(lock, TRUE)
    /\ IF Complete(lock, TRUE) THEN Goto(IF MissingFiles(lock) = {} THEN "publish" ELSE "pypi")
       ELSE Goto(IF Tagged(lock) THEN "draft" ELSE "tag")
    /\ UNCHANGED <<surfaces, failed>>

ReserveTag ==
    /\ At("publication", "tag")
    /\ CreateTag(Candidate(lock.h), lock.h, Assets(lock.h, lock.build))
    /\ Goto("draft")
    /\ UNCHANGED <<pypi, images, channels, releases, failed>>

\* The draft is created when the listing shows no release, and polled for.
ReserveDraft ==
    /\ At("publication", "draft")
    /\ IF Visible(Candidate(lock.h), TRUE) = {}
       THEN CreateDraft(Candidate(lock.h)) /\ Goto("listing")
       ELSE Goto("assets") /\ UNCHANGED releases
    /\ UNCHANGED <<tags, pypi, images, channels, failed>>

DraftListed ==
    /\ At("publication", "listing")
    /\ Visible(Candidate(lock.h), TRUE) # {}
    /\ Goto("assets")
    /\ UNCHANGED <<surfaces, failed>>

\* One asset is uploaded, never replaced; the last one is read back.
ReserveAsset ==
    /\ At("publication", "assets")
    /\ Inventory(lock, TRUE)
    /\ \E x \in Visible(Candidate(lock.h), TRUE) :
           IF x.assets = Assets(lock.h, lock.build)
           THEN /\ Goto(IF MissingFiles(lock) = {} THEN "publish" ELSE "pypi")
                /\ UNCHANGED releases
           ELSE /\ x.draft
                /\ \E bytes \in Assets(lock.h, lock.build) \ x.assets : Upload(x, bytes)
                /\ UNCHANGED lock
    /\ UNCHANGED <<tags, pypi, images, channels, failed>>

\* stage_upload: the files PyPI lacks.
StageUpload ==
    /\ At("publication", "pypi")
    /\ Verify(lock) /\ ReservationBound(lock)
    /\ lock' = [lock EXCEPT !.todo = MissingFiles(lock),
                            !.at = IF MissingFiles(lock) = {} THEN "publish" ELSE "upload"]
    /\ UNCHANGED <<surfaces, failed>>

\* The upload action: a file PyPI holds already is a conflict.
UploadPython ==
    /\ At("publication", "upload")
    /\ IF lock.todo = {} THEN Goto("publish") /\ UNCHANGED pypi
       ELSE \E bytes \in lock.todo :
                /\ ~Holds(Candidate(lock.h), bytes[1])
                /\ PutPython(Candidate(lock.h), bytes)
                /\ lock' = [lock EXCEPT !.todo = @ \ {bytes}]
    /\ UNCHANGED <<tags, images, channels, releases, failed>>

PublishJob ==
    /\ At("publication", "publish")
    /\ Verify(lock) /\ ReservationBound(lock)
    /\ Goto("await")
    /\ UNCHANGED <<surfaces, failed>>

\* PyPI must list both files before the image is pushed.
AwaitPython ==
    /\ At("publication", "await")
    /\ Listed(Candidate(lock.h)) = Dists(lock.h, lock.build)
    /\ Goto("image")
    /\ UNCHANGED <<surfaces, failed>>

PushImage ==
    /\ At("publication", "image")
    /\ images' = IF ImageOf(Candidate(lock.h)) = {}
                 THEN images \cup {[v |-> Candidate(lock.h), digest |-> Digest(lock.h, lock.build)]}
                 ELSE images
    /\ Goto(IF MoveRc THEN "channel" ELSE "reverify")
    /\ UNCHANGED <<tags, pypi, channels, releases, failed>>

MoveChannel ==
    /\ At("publication", "channel")
    /\ channels' = [channels EXCEPT !.rc = Digest(lock.h, lock.build)]
    /\ Goto("reverify")
    /\ UNCHANGED <<tags, pypi, images, releases, failed>>

\* Refs that moved during the publication are detected before the selection.
Reverify ==
    /\ At("publication", "reverify")
    /\ Verify(lock)
    /\ Goto("attest")
    /\ UNCHANGED <<surfaces, failed>>

-----------------------------------------------------------------------------
(* Attestation and the publication of the draft.                           *)

\* The attest job signs what the publish job verified.
Attest ==
    /\ At("publication", "attest")
    /\ attested' = attested \cup {<<lock.h, lock.build>>}
    /\ Goto("finalize")
    /\ UNCHANGED <<refs, surfaces, failed, faults, built>>

\* finalize: every surface is complete.
Final(r) ==
    /\ Verify(r) /\ Inventory(r, TRUE) /\ Complete(r, TRUE)
    /\ Listed(Candidate(r.h)) = Dists(r.h, r.build)
    /\ ImageOf(Candidate(r.h)) = {Digest(r.h, r.build)}

Finalize ==
    /\ At("publication", "finalize")
    /\ Final(lock)
    /\ IF \E x \in Visible(Candidate(lock.h), TRUE) : x.draft THEN Goto("open") ELSE lock' = Nil
    /\ UNCHANGED <<surfaces, failed>>

PublishDraft ==
    /\ At("publication", "open")
    /\ \E x \in Visible(Candidate(lock.h), TRUE) : x.draft /\ Publish(x)
    /\ lock' = Nil
    /\ UNCHANGED <<tags, pypi, images, channels, failed>>

\* What a step requires, and is refused without.
Admitted(r) ==
    CASE r.at = "reserve" -> Verify(r) /\ Inventory(r, TRUE)
      [] r.at = "assets" -> Inventory(r, TRUE) /\ Visible(Candidate(r.h), TRUE) # {}
      [] r.at \in {"pypi", "publish"} -> Verify(r) /\ ReservationBound(r)
      [] r.at = "upload" ->
             r.todo = {} \/ \E bytes \in r.todo : ~Holds(Candidate(r.h), bytes[1])
      [] r.at = "reverify" -> Verify(r)
      [] r.at = "finalize" -> Final(r)
      [] r.at = "open" -> \E x \in Visible(Candidate(r.h), TRUE) : x.draft
      [] OTHER -> TRUE

\* A refusal, or the job dies, or a listing does not catch up within its bound.
PublicationFails ==
    /\ Running("publication")
    /\ \/ ~Admitted(lock) /\ UNCHANGED faults
       \/ Fault
    /\ \/ UNCHANGED releases
       \/ /\ lock.at = "assets" /\ Admitted(lock)
          /\ \E x \in Visible(Candidate(lock.h), TRUE) : x.draft /\ UploadCut(x)
    /\ Fails(JobOf)
    /\ UNCHANGED <<refs, tags, pypi, images, channels, publicationVars>>

PublicationSteps ==
    /\ \/ Reserve \/ ReserveTag \/ ReserveDraft \/ DraftListed \/ ReserveAsset
       \/ StageUpload \/ UploadPython \/ PublishJob \/ AwaitPython
       \/ PushImage \/ MoveChannel \/ Reverify \/ Finalize \/ PublishDraft
    /\ UNCHANGED <<refs, faults, publicationVars>>

PublicationNext ==
    \/ \E build \in Builds : BuildCandidate(build)
    \/ RunPublication \/ PublicationSteps \/ Attest \/ PublicationFails
=============================================================================
