------------------------------ MODULE Compliance ------------------------------
(***************************************************************************)
(* The checks of one counterparty and its beneficial owners (UBOs), their  *)
(* review, and the decision to onboard it: integrations/compliance/        *)
(* compliance.service.ts with its mock providers, and                       *)
(* counterparties/counterparties.service.ts.                               *)
(*                                                                         *)
(* A check belongs to the company or to one owner.  Nothing runs in a      *)
(* transaction: a run stores its checks one by one, then the flags of the  *)
(* subject, then opens a case for a reviewer; an approval first reads the  *)
(* checks and then writes.  Other requests come in between.                *)
(***************************************************************************)
EXTENDS Service

CONSTANTS
  Company, Owners,   \* the subjects of checks; owners may come and go
  ScreeningTypes,    \* the types of check of one screening, in order
  Profiles,          \* what providers may find: [verify, match]
  FirstProfile, OwnerProfile,
  FirstOwners,       \* a company has these from the start, or none
  MaxChecks          \* bound: the checks that are made

Verifications == {"BUSINESS_VERIFICATION", "PERSON_VERIFICATION"}
Screenings == {ScreeningTypes[k] : k \in DOMAIN ScreeningTypes}
requiredTypes == {"BUSINESS_VERIFICATION"} \cup Screenings
Subjects == {Company} \cup Owners

OnboardingStatus == {"DRAFT", "SUBMITTED", "UNDER_REVIEW", "APPROVED", "REJECTED"}
Decisions == {"APPROVED", "REJECTED", "ESCALATED", "FALSE_POSITIVE", "TRUE_MATCH"}
Runs == {"kyb", "kyc", "screening", "full"}

Finding == [verify : {"VERIFIED", "REFERRED", "FAILED"}, match : Screenings \cup {"none"}]

ASSUME ComplianceAssumption ==
  /\ Company \notin Owners /\ FirstOwners \subseteq Owners
  /\ ScreeningTypes \in Seq({"SANCTIONS", "PEP", "ADVERSE_MEDIA"}) /\ ScreeningTypes # <<>>
  /\ Profiles \subseteq Finding /\ FirstProfile \in Finding
  /\ OwnerProfile \in [Owners -> Finding]
  /\ MaxChecks \in Nat

VARIABLES
  onboarding,  \* onboardingStatus
  profile,     \* what the providers find on the company as it is described now
  owners,      \* the UBO records of the counterparty
  checks,      \* its compliance checks, in the order of checkedAt
  flags,       \* of each subject: the types whose own status calls for a review
               \* (kybStatus, kycStatus, sanctionsStatus, pepStatus, adverseMediaStatus)
  shared,      \* of each subject: the statuses that all its runs write
  cases        \* the workflow cases: the check each was opened for

complianceVars == <<onboarding, profile, owners, checks, flags, shared, cases>>

Check == [of : Subjects, type : Verifications \cup Screenings,
          status : {"COMPLETED", "FAILED", "REVIEW_REQUIRED", "EXPIRED"},
          result : {"VERIFIED", "REFERRED", "FAILED", "CLEAR", "MATCH"},
          reviewRequired : BOOLEAN, decision : Decisions \cup {"none"}]

\* screeningStatus and complianceReviewStatus.
SharedStatus == [screening : {"none", "VERIFIED", "CLEAR", "REVIEW_REQUIRED"},
                 review : {"none", "CLEAR", "REVIEW_REQUIRED"}]

Running == [phase : {"query", "persist", "flags", "after"}, of : Subjects,
            runs : Seq(Runs),      \* what is left to run
            found : Seq(Check),    \* what the provider found
            stored : Nat,          \* how many of them are stored
            first : Nat]           \* the first of them
Approving == [phase : {"approving"}]

ComplianceTypeOK ==
  /\ onboarding \in OnboardingStatus
  /\ profile \in Finding
  /\ owners \subseteq Owners
  /\ checks \in Seq(Check) /\ Len(checks) <= MaxChecks
  /\ flags \in [Subjects -> SUBSET (Verifications \cup Screenings)]
  /\ shared \in [Subjects -> SharedStatus]
  /\ cases \subseteq DOMAIN checks
  /\ req \in [Processes -> {Idle} \cup Running \cup Approving]

ComplianceInit ==
  /\ ServiceInit
  /\ onboarding = "SUBMITTED"
  /\ profile = FirstProfile
  /\ owners \in {{}, FirstOwners}
  /\ checks = <<>>
  /\ flags = [s \in Subjects |-> {}]
  /\ shared = [s \in Subjects |-> [screening |-> "none", review |-> "none"]]
  /\ cases = {}
-----------------------------------------------------------------------------
(* The providers *)

newCheck(s, type, status, result, reviewRequired) ==
  [of |-> s, type |-> type, status |-> status, result |-> result,
   reviewRequired |-> reviewRequired, decision |-> "none"]

profileOf(s) == IF s = Company THEN profile ELSE OwnerProfile[s]
verificationOf(s) == IF s = Company THEN "BUSINESS_VERIFICATION" ELSE "PERSON_VERIFICATION"

\* Mutation: a failed verification needs no review.
verifyQuietly(s) ==
  LET v == profileOf(s).verify
  IN newCheck(s, verificationOf(s),
              CASE v = "FAILED" -> "FAILED" [] v = "REFERRED" -> "REVIEW_REQUIRED"
                [] OTHER -> "COMPLETED", v, v = "REFERRED")

\* verifyBusiness, verifyPerson
verify(s) ==
  LET v == profileOf(s).verify
  IN newCheck(s, verificationOf(s),
              CASE v = "FAILED" -> "FAILED" [] v = "REFERRED" -> "REVIEW_REQUIRED"
                [] OTHER -> "COMPLETED", v, v # "VERIFIED")

\* A screening answers for all types at once.
splitScreeningResult(s, type) ==
  IF profileOf(s).match = type THEN newCheck(s, type, "REVIEW_REQUIRED", "MATCH", TRUE)
                               ELSE newCheck(s, type, "COMPLETED", "CLEAR", FALSE)
screen(s) == [k \in DOMAIN ScreeningTypes |-> splitScreeningResult(s, ScreeningTypes[k])]
-----------------------------------------------------------------------------
(* Runs *)

RunsOf(op, s) ==
  CASE op = "full" -> IF s = Company THEN <<"kyb", "screening">> ELSE <<"kyc", "screening">>
    [] OTHER -> <<op>>

Needs(run) == IF run = "screening" THEN Len(ScreeningTypes) ELSE 1
NeedsAll(runs) == MapThenSumSet(LAMBDA k : Needs(runs[k]), DOMAIN runs)
Reserved(q) ==
  IF q.phase \in {"idle", "approving"} THEN 0 ELSE Len(q.found) - q.stored + NeedsAll(q.runs)
HasRoom(op, s) ==
  Len(checks) + MapThenSumSet(LAMBDA r : Reserved(req[r]), Requests) + NeedsAll(RunsOf(op, s))
    <= MaxChecks

running(phase, s, runs, found, stored, first) ==
  [phase |-> phase, of |-> s, runs |-> runs, found |-> found, stored |-> stored, first |-> first]

\* runBusinessVerification, runPersonVerification, the two screenings and the
\* two full checks.
run(r, op, s) ==
  /\ mayBegin(r, op) /\ HasRoom(op, s)
  /\ s \in {Company} \cup owners
  /\ op = "kyb" => s = Company
  /\ op = "kyc" => s # Company
  /\ become(r, running("query", s, RunsOf(op, s), <<>>, 0, 0))
  /\ UNCHANGED <<onboarding, profile, owners, checks, flags, shared, cases, scope>>

\* The subject is read and its provider asked.
query(r) ==
  LET q == req[r]  s == q.of
  IN /\ at(r, "query")
     /\ become(r, running("persist", s, Tail(q.runs),
                          IF Head(q.runs) = "screening" THEN screen(s) ELSE <<verify(s)>>, 0, 0))
     /\ UNCHANGED <<onboarding, profile, owners, checks, flags, shared, cases, scope>>

\* persistCheck, for one check of the result.
persistCheck(r) ==
  LET q == req[r]
  IN /\ at(r, "persist")
     /\ checks' = Append(checks, q.found[q.stored + 1])
     /\ become(r, [q EXCEPT !.stored = @ + 1,
                            !.first = IF @ = 0 THEN Len(checks) + 1 ELSE @,
                            !.phase = IF q.stored + 1 = Len(q.found) THEN "flags" ELSE "persist"])
     /\ UNCHANGED <<onboarding, profile, owners, flags, shared, cases, scope>>

TypesIn(found) == {found[k].type : k \in DOMAIN found}
Flagged(found) == {found[k].type : k \in {j \in DOMAIN found : found[j].reviewRequired}}

\* A verification and a screening write the same two statuses over each other;
\* the verification of an owner leaves its screeningStatus.
sharedStatus(before, q) ==
  LET ok == IF Flagged(q.found) # {} THEN "REVIEW_REQUIRED" ELSE "CLEAR"
      verified == IF Flagged(q.found) # {} THEN "REVIEW_REQUIRED" ELSE "VERIFIED"
  IN [screening |-> IF q.found[1].type \in Screenings THEN ok
                    ELSE IF q.of = Company THEN verified ELSE before.screening,
      review |-> ok]

\* Mutation: only what was found is written, what is clear now stays flagged.
addFlags(r) ==
  LET q == req[r]
  IN /\ at(r, "flags")
     /\ flags' = [flags EXCEPT ![q.of] = @ \cup Flagged(q.found)]
     /\ shared' = [shared EXCEPT ![q.of] = sharedStatus(@, q)]
     /\ become(r, [q EXCEPT !.phase = "after"])
     /\ UNCHANGED <<onboarding, profile, owners, checks, cases, scope>>

\* Mutation: the review status follows the first check of the run.
updateFromTheFirst(r) ==
  LET q == req[r]
  IN /\ at(r, "flags")
     /\ flags' = [flags EXCEPT ![q.of] = (@ \ TypesIn(q.found)) \cup Flagged(q.found)]
     /\ shared' = [shared EXCEPT ![q.of] = sharedStatus(@, [q EXCEPT !.found = <<q.found[1]>>])]
     /\ become(r, [q EXCEPT !.phase = "after"])
     /\ UNCHANGED <<onboarding, profile, owners, checks, cases, scope>>

\* The statuses of the counterparty or of the owner follow the result.
updateFlags(r) ==
  LET q == req[r]
  IN /\ at(r, "flags")
     /\ flags' = [flags EXCEPT ![q.of] = (@ \ TypesIn(q.found)) \cup Flagged(q.found)]
     /\ shared' = [shared EXCEPT ![q.of] = sharedStatus(@, q)]
     /\ become(r, [q EXCEPT !.phase = "after"])
     /\ UNCHANGED <<onboarding, profile, owners, checks, cases, scope>>

nextRun(q) == IF q.runs = <<>> THEN Idle ELSE running("query", q.of, q.runs, <<>>, 0, 0)

\* Mutation: a case is opened if the check it is opened for needs a review.
caseForTheFirst(r) ==
  LET q == req[r]
  IN /\ at(r, "after")
     /\ cases' = IF q.found[1].reviewRequired THEN cases \cup {q.first} ELSE cases
     /\ become(r, nextRun(q))
     /\ UNCHANGED <<onboarding, profile, owners, checks, flags, shared, scope>>

\* A result that needs a review opens a case, for the first check of the run.
afterCheck(r) ==
  LET q == req[r]
  IN /\ at(r, "after")
     /\ cases' = IF Flagged(q.found) # {} THEN cases \cup {q.first} ELSE cases
     /\ become(r, nextRun(q))
     /\ UNCHANGED <<onboarding, profile, owners, checks, flags, shared, scope>>
-----------------------------------------------------------------------------
(* Reviews *)

\* Mutation: the decision is written as the status.
reviewIntoStatus(r, k, decision) ==
  /\ mayBegin(r, "review")
  /\ checks' = [checks EXCEPT ![k].reviewRequired = FALSE, ![k].decision = decision,
                              ![k].status = decision]
  /\ UNCHANGED <<onboarding, profile, owners, flags, shared, cases, req, scope>>

reviewComplianceCheck(r, k, decision) ==
  /\ mayBegin(r, "review")
  /\ checks' = [checks EXCEPT ![k].reviewRequired = FALSE, ![k].decision = decision,
                              ![k].status = IF decision \in {"ESCALATED", "TRUE_MATCH"}
                                            THEN "REVIEW_REQUIRED" ELSE "COMPLETED"]
  /\ UNCHANGED <<onboarding, profile, owners, flags, shared, cases, req, scope>>

expireComplianceCheck(r, k) ==
  /\ mayBegin(r, "expire")
  /\ checks' = [checks EXCEPT ![k].status = "EXPIRED"]
  /\ UNCHANGED <<onboarding, profile, owners, flags, shared, cases, req, scope>>

reviewQueue ==
  {k \in DOMAIN checks :
     /\ checks[k].decision = "none"
     /\ \/ checks[k].reviewRequired \/ checks[k].status = "REVIEW_REQUIRED"
        \/ checks[k].result \in {"MATCH", "REFERRED"}}
-----------------------------------------------------------------------------
(* The decision *)

\* The latest check of a type among all that name the counterparty, those of
\* its owners included.
latestByType(type) ==
  {k \in DOMAIN checks : checks[k].type = type
                         /\ \A j \in (k + 1)..Len(checks) : checks[j].type # type}

\* Mutation: any decision clears a blocker.
blocksUntilReviewed(c) ==
  c.decision = "none" /\ (c.status \in {"FAILED", "REVIEW_REQUIRED"}
                          \/ c.result \in {"MATCH", "FAILED", "REFERRED"} \/ c.reviewRequired)

blocks(c) ==
  /\ c.decision \notin {"APPROVED", "FALSE_POSITIVE"}
  /\ \/ c.status \in {"FAILED", "REVIEW_REQUIRED"}
     \/ c.result \in {"MATCH", "FAILED", "REFERRED"}
     \/ c.reviewRequired

some(owner, types, results) ==
  \E k \in DOMAIN checks : /\ checks[k].of = owner /\ checks[k].type \in types
                           /\ checks[k].result \in results

assertComplianceReadyForApproval ==
  /\ \A type \in requiredTypes : latestByType(type) # {}
  /\ \A type \in Verifications \cup Screenings : \A k \in latestByType(type) : ~blocks(checks[k])
  /\ \A o \in owners : /\ some(o, {"PERSON_VERIFICATION"}, {"VERIFIED", "CLEAR"})
                       /\ some(o, Screenings, {"CLEAR"})

approveKyc(r, override) ==
  /\ mayBegin(r, IF override THEN "override" ELSE "approve")
  /\ override \/ assertComplianceReadyForApproval
  /\ become(r, [phase |-> "approving"])
  /\ UNCHANGED <<onboarding, profile, owners, checks, flags, shared, cases, scope>>

approved(r) ==
  /\ at(r, "approving")
  /\ onboarding' = "APPROVED"
  /\ become(r, Idle)
  /\ UNCHANGED <<profile, owners, checks, flags, shared, cases, scope>>

rejectKyc(r) ==
  /\ mayBegin(r, "reject")
  /\ onboarding' = "REJECTED"
  /\ UNCHANGED <<profile, owners, checks, flags, shared, cases, req, scope>>

\* update: a description that providers judge otherwise, other owners (entered
\* with a screeningStatus, which is left out), or an onboarding status.
rename(r, p) ==
  /\ mayBegin(r, "rename") /\ profile' = p
  /\ UNCHANGED <<onboarding, owners, checks, flags, shared, cases, req, scope>>
replaceOwners(r, S) ==
  /\ mayBegin(r, "owners") /\ S \cap owners = {} /\ owners' = S
  /\ UNCHANGED <<onboarding, profile, checks, flags, shared, cases, req, scope>>
\* A PATCH writes the status of the verification, whatever the checks say.
setKybStatus(r, flagged) ==
  /\ mayBegin(r, "kybStatus")
  /\ flags' = [flags EXCEPT ![Company] =
                 IF flagged THEN @ \cup {"BUSINESS_VERIFICATION"}
                            ELSE @ \ {"BUSINESS_VERIFICATION"}]
  /\ UNCHANGED <<onboarding, profile, owners, checks, shared, cases, req, scope>>
setOnboarding(r, status) ==
  /\ mayBegin(r, "status") /\ onboarding' = status
  /\ UNCHANGED <<profile, owners, checks, flags, shared, cases, req, scope>>

cutShort(r) ==
  /\ "crash" \in scope /\ req[r] # Idle /\ become(r, Idle)
  /\ UNCHANGED <<onboarding, profile, owners, checks, flags, shared, cases, scope>>

Proceed(r) ==
  query(r) \/ persistCheck(r) \/ updateFlags(r) \/ afterCheck(r) \/ approved(r)

ComplianceNext ==
  \E r \in Requests :
    \/ \E op \in Runs, s \in Subjects : run(r, op, s)
    \/ \E k \in DOMAIN checks : \/ \E d \in Decisions : reviewComplianceCheck(r, k, d)
                                \/ expireComplianceCheck(r, k)
    \/ \E override \in BOOLEAN : approveKyc(r, override)
    \/ rejectKyc(r)
    \/ \E p \in Profiles : rename(r, p)
    \/ \E S \in SUBSET Owners : replaceOwners(r, S)
    \/ \E status \in OnboardingStatus : setOnboarding(r, status)
    \/ \E flagged \in BOOLEAN : setKybStatus(r, flagged)
    \/ Proceed(r) \/ cutShort(r)

ComplianceSpec == ComplianceInit /\ [][ComplianceNext]_<<complianceVars, req, scope>>
ComplianceFairSpec ==
  ComplianceSpec /\ \A r \in Requests : WF_<<complianceVars, req, scope>>(Proceed(r))
-----------------------------------------------------------------------------
(* Properties *)

latestOf(s, type) ==
  {k \in DOMAIN checks : /\ checks[k].of = s /\ checks[k].type = type
                         /\ \A j \in (k + 1)..Len(checks) :
                              checks[j].of # s \/ checks[j].type # type}

\* What the company's own latest checks say against it.
Cleared(c) == c.decision \in {"APPROVED", "FALSE_POSITIVE"}
Suspect(s) ==
  \E type \in requiredTypes :
    \/ latestOf(s, type) = {}
    \/ \E k \in latestOf(s, type) :
         ~Cleared(checks[k]) /\ checks[k].result \in {"MATCH", "FAILED", "REFERRED"}

\* "Approval is blocked when the latest required check is missing, failed,
\* referred, matched": between two requests, without an override or a PATCH of
\* the status, a company is approved only on its own latest checks, however
\* often it was checked and reviewed.  Checks of owners are left out of this
\* one: see ApprovedOnOwnChecks.
ApprovedOnLatestChecks ==
  [][Without({"overlap", "owners", "override", "status"}) /\ owners = {}
     /\ onboarding # "APPROVED" /\ onboarding' = "APPROVED" => ~Suspect(Company)]_<<complianceVars, req, scope>>

\* The same, of a company that has owners.
ApprovedOnOwnChecks ==
  [][Without({"overlap", "owners", "override", "status"})
     /\ onboarding # "APPROVED" /\ onboarding' = "APPROVED" => ~Suspect(Company)]_<<complianceVars, req, scope>>

\* Whatever blocks an approval and nobody has decided on can be found in the
\* review queue, unless it was marked as expired.
BlockersAreQueued ==
  \A k \in DOMAIN checks : blocks(checks[k]) /\ checks[k].decision = "none"
                           /\ checks[k].status # "EXPIRED" => k \in reviewQueue

\* Between two requests that do not overlap and are not cut short, and unless
\* the kybStatus was edited, each status that belongs to one type of check
\* repeats the latest check of that type.
FlagsFollowChecks ==
  Quiet /\ Without({"overlap", "crash", "kybStatus"}) =>
    \A s \in Subjects : \A type \in Verifications \cup Screenings :
      \A k \in latestOf(s, type) :
        type \in flags[s] <=> checks[k].result \in {"MATCH", "FAILED", "REFERRED"}

\* There, the statuses that verification and screening share say no more than
\* one of the two did: a complianceReviewStatus of CLEAR stands for the latest
\* verification or for the latest screening, whichever ran last, and not for
\* both: a clean screening takes back the REVIEW_REQUIRED of a failed KYB.
ClearSpeaksForOneRun ==
  Quiet /\ Without({"overlap", "crash", "kybStatus"}) =>
    \A s \in Subjects : shared[s].review = "CLEAR" =>
      \E types \in {{verificationOf(s)}, Screenings} :
        \A type \in types : \A k \in latestOf(s, type) :
          checks[k].result \notin {"MATCH", "FAILED", "REFERRED"}

\* A check that calls for a review ends as a case of its subject, unless the
\* process stops: the case does not depend on which type of check it was.
ReviewIsAssigned ==
  \A k \in 1..MaxChecks :
    "crash" \notin scope /\ k \in DOMAIN checks /\ checks[k].reviewRequired
      ~> k \in DOMAIN checks /\ \E c \in cases : checks[c].of = checks[k].of

\* What the checks say is what the queue and the statuses of a subject say.
ChecksAreReflected ==
  ComplianceTypeOK /\ BlockersAreQueued /\ FlagsFollowChecks /\ ClearSpeaksForOneRun
===============================================================================
