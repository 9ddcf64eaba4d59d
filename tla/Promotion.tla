------------------------------ MODULE Promotion ------------------------------
(* The promotion of a published candidate whose squash is on main          *)
(* (scripts/release_record.py, scripts/version_free.py and the jobs of     *)
(* promote-release.yml): prove, build, publish-pypi, create-tag,           *)
(* promote-image and release, from the start, by "Re-run failed jobs" or   *)
(* by a resume_pypi dispatch.                                              *)
EXTENDS Publication

promotionVars == <<refs, faults, publicationVars>>

JobOfPromotion ==
    [prove |-> "prove", recheck |-> "recheck", upload |-> "recheck", verify |-> "recheck",
     tagging |-> "tagging", image |-> "image", stable |-> "image", latest |-> "image",
     draft |-> "draft", listing |-> "draft", assets |-> "draft", open |-> "draft"]

Version(r) == Target(r.h)

StableTag(r) == TagOf(Version(r))

-----------------------------------------------------------------------------
(* The proof.                                                              *)

OnMain(h) == h.cut < Len(mainline) /\ mainline[h.cut + 1] = h

\* validate_proof: S is the squash of the reviewed head on its recorded base,
\* at main's head or, in a later phase, on main; a stable tag is this run's.
Proven(r, initial) ==
    /\ OnMain(r.h) /\ CutTagged(r.h.cut)
    /\ initial => r.h.cut + 1 = Len(mainline) /\ StableTag(r) = {}
    /\ \A t \in StableTag(r) : t.at = r.h
    /\ \E t \in TagOf(Candidate(r.h)) : t.at = r.h

\* The candidate's publication, as the prove job reads it.
CandidatePublished(r) ==
    /\ \E x \in Visible(Candidate(r.h), FALSE) :
           Bytes(r.h, r.build, "provenance") \in x.assets
    /\ ImageOf(Candidate(r.h)) = {Digest(r.h, r.build)}
    /\ Listed(Candidate(r.h)) = Dists(r.h, r.build)
    /\ <<r.h, r.build>> \in attested

\* version_free.evaluate: the version is on no surface.
VersionFree(r) ==
    /\ StableTag(r) = {}
    /\ Listed(Version(r)) = {} /\ ImageOf(Version(r)) = {}
    /\ Visible(Version(r), FALSE) = {}

\* validate_visible_release: a release that is seen is this one's, and if it
\* is published it has every asset.
VisibleRelease(r) ==
    \A x \in Visible(Version(r), FALSE) : x.whole /\ Cardinality(x.assets) = Cardinality(Files)

\* validate_resume_state: PyPI is done, and nothing unexpected came after it.
ResumeState(r) ==
    LET digest == Digest(r.h, r.build)
        onCandidate == \E c \in {"stable", "latest"} : channels[c] = digest
    IN  /\ {bytes[1] : bytes \in Listed(Version(r))} = Python
        /\ IF StableTag(r) = {}
           THEN /\ ImageOf(Version(r)) = {}
                /\ Visible(Version(r), FALSE) = {}
                /\ ~onCandidate
           ELSE /\ ImageOf(Version(r)) \subseteq {digest}
                /\ onCandidate => ImageOf(Version(r)) = {digest}
                /\ VisibleRelease(r)

-----------------------------------------------------------------------------
(* The run.                                                                *)

Dispatch(h, build, rebuild, resume) ==
    [flow |-> "promotion", h |-> h, build |-> build, rebuild |-> rebuild,
     resume |-> resume, at |-> "prove", todo |-> {}]

RunPromotion ==
    /\ lock = Nil
    /\ \/ \E h \in ToSet(mainline), build, rebuild \in Builds, resume \in BOOLEAN :
              lock' = Dispatch(h, build, rebuild, resume)
       \/ failed # Nil /\ failed.flow = "promotion" /\ lock' = failed
    /\ UNCHANGED <<refs, surfaces, failed, faults, publicationVars>>

Prove(r) ==
    /\ Proven(r, ~r.resume)
    /\ CandidatePublished(r)
    /\ IF r.resume THEN ResumeState(r) ELSE VersionFree(r)

ProveJob ==
    /\ At("promotion", "prove")
    /\ Prove(lock)
    /\ Goto("recheck")
    /\ UNCHANGED <<surfaces, failed>>

\* publish-pypi proves again after the approval; a resume uploads nothing.
Recheck ==
    /\ At("promotion", "recheck")
    /\ Proven(lock, FALSE)
    /\ lock' = IF lock.resume THEN [lock EXCEPT !.at = "verify"]
               ELSE [lock EXCEPT !.at = "upload", !.todo = Dists(lock.h, lock.rebuild)]
    /\ UNCHANGED <<surfaces, failed>>

\* skip-existing: a name that PyPI holds is passed over, whatever its bytes.
UploadStable ==
    /\ At("promotion", "upload")
    /\ IF lock.todo = {} THEN Goto("verify") /\ UNCHANGED pypi
       ELSE \E bytes \in lock.todo :
                /\ IF Holds(Version(lock), bytes[1]) THEN UNCHANGED pypi
                   ELSE PutPython(Version(lock), bytes)
                /\ lock' = [lock EXCEPT !.todo = @ \ {bytes}]
    /\ UNCHANGED <<tags, images, channels, releases, failed>>

\* Mutant of Verified: the names are enough.
VerifiedNames(r) == {bytes[1] : bytes \in Listed(Version(r))} = Python

\* verify_published: PyPI lists exactly the bytes built from S.
Verified(r) == Listed(Version(r)) = Dists(r.h, r.rebuild)

VerifyPython ==
    /\ At("promotion", "verify")
    /\ Verified(lock)
    /\ Goto("tagging")
    /\ UNCHANGED <<surfaces, failed>>

TagStable ==
    /\ At("promotion", "tagging")
    /\ Proven(lock, FALSE)
    /\ IF StableTag(lock) = {} THEN CreateTag(Version(lock), lock.h, {}) ELSE UNCHANGED tags
    /\ Goto("image")
    /\ UNCHANGED <<pypi, images, channels, releases, failed>>

\* The version tag is created, never moved; then the channels are.
PromoteImage ==
    LET digest == Digest(lock.h, lock.build)
    IN  /\ At("promotion", "image")
        /\ ImageOf(Version(lock)) \subseteq {digest}
        /\ images' = images \cup {[v |-> Version(lock), digest |-> digest]}
        /\ Goto("stable")
        /\ UNCHANGED <<tags, pypi, channels, releases, failed>>

PromoteChannel(c, next) ==
    /\ At("promotion", c)
    /\ channels' = [channels EXCEPT ![c] = Digest(lock.h, lock.build)]
    /\ Goto(next)
    /\ UNCHANGED <<tags, pypi, images, releases, failed>>

ReleaseDraft ==
    /\ At("promotion", "draft")
    /\ \E t \in StableTag(lock) : t.at = lock.h
    /\ IF Visible(Version(lock), TRUE) = {}
       THEN CreateDraft(Version(lock)) /\ Goto("listing")
       ELSE Goto("assets") /\ UNCHANGED releases
    /\ UNCHANGED <<tags, pypi, images, channels, failed>>

ReleaseListed ==
    /\ At("promotion", "listing")
    /\ Visible(Version(lock), TRUE) # {}
    /\ Goto("assets")
    /\ UNCHANGED <<surfaces, failed>>

\* gh resolves a tag to its published release, else to the newest draft: two
\* drafts are there when a re-run does not see the first one yet.
Resolved(v) ==
    LET seen == Visible(v, TRUE)
        open == {x \in seen : ~x.draft}
        from == IF open # {} THEN open ELSE seen
    IN  {x \in from : \A y \in from : y.id <= x.id}

\* validate_existing_release: only this run's bytes; a published release that
\* lacks some is burned.
Acceptable(r, x) ==
    /\ x.whole
    /\ x.assets \subseteq Assets(r.h, r.rebuild)
    /\ ~x.draft => x.assets = Assets(r.h, r.rebuild)

\* complete_release: the missing assets, every byte again, then the draft.
CompleteRelease ==
    /\ At("promotion", "assets")
    /\ \E x \in Resolved(Version(lock)) :
           /\ Acceptable(lock, x)
           /\ IF x.assets = Assets(lock.h, lock.rebuild)
              THEN /\ IF x.draft THEN Goto("open") ELSE lock' = Nil
                   /\ UNCHANGED releases
              ELSE /\ \E bytes \in Assets(lock.h, lock.rebuild) \ x.assets : Upload(x, bytes)
                   /\ UNCHANGED lock
    /\ UNCHANGED <<tags, pypi, images, channels, failed>>

PublishRelease ==
    /\ At("promotion", "open")
    /\ \E x \in Resolved(Version(lock)) : x.draft /\ Publish(x)
    /\ lock' = Nil
    /\ UNCHANGED <<tags, pypi, images, channels, failed>>

AdmittedPromotion(r) ==
    CASE r.at = "prove" -> Prove(r)
      [] r.at \in {"recheck", "tagging"} -> Proven(r, FALSE)
      [] r.at = "verify" -> Verified(r) \/ \E x \in pypi : x.v = Version(r) /\ ~x.listed
      [] r.at = "image" -> ImageOf(Version(r)) \subseteq {Digest(r.h, r.build)}
      [] r.at = "draft" -> \E t \in StableTag(r) : t.at = r.h
      [] r.at = "assets" -> \A x \in Resolved(Version(r)) : Acceptable(r, x)
      [] OTHER -> TRUE

PromotionFails ==
    /\ Running("promotion")
    /\ \/ ~AdmittedPromotion(lock) /\ UNCHANGED faults
       \/ Fault
    /\ \/ UNCHANGED releases
       \/ /\ lock.at = "assets" /\ AdmittedPromotion(lock)
          /\ \E x \in Resolved(Version(lock)) : x.draft /\ UploadCut(x)
    /\ Fails(JobOfPromotion)
    /\ UNCHANGED <<refs, tags, pypi, images, channels, publicationVars>>

PromotionSteps ==
    /\ \/ ProveJob \/ Recheck \/ UploadStable \/ VerifyPython \/ TagStable \/ PromoteImage
       \/ PromoteChannel("stable", "latest") \/ PromoteChannel("latest", "draft")
       \/ ReleaseDraft \/ ReleaseListed \/ CompleteRelease \/ PublishRelease
    /\ UNCHANGED promotionVars

PromotionNext == RunPromotion \/ PromotionSteps \/ PromotionFails
=============================================================================
