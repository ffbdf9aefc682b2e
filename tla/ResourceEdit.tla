---------------------------- MODULE ResourceEdit ----------------------------
(***************************************************************************)
(* Changing what others change too: a calendar event of an account, or an  *)
(* article of a help center.  A caller is shown a revision and later asks  *)
(* for a change of some of its fields.  The calendar providers then read   *)
(* the event again, compare its version with the one the caller was shown, *)
(* carry over what a snapshot does not tell, and send the change with an   *)
(* If-Match; Confluence sends the number of the next version; the others   *)
(* send the changed fields alone.  The request may be delayed, lost, or    *)
(* executed after its call has given up; other people edit meanwhile; and  *)
(* the answer to a change that was made may be one nobody can read.        *)
(***************************************************************************)
EXTENDS Naturals, FiniteSets

CONSTANTS
  Edited,      \* the observed providers
  Callers,
  Asked,       \* the sets of fields a caller asks to change
  MaxVersion,  \* bound: revisions after the first one
  MaxTries     \* bound: how often one request is made

ASSUME BoundsAssumption == MaxVersion \in Nat /\ MaxTries \in Nat \ {0}

\* What a change may name; people are an event's attendees.
Contents == {"text", "dates"}
Fields == Contents \cup {"people"}

ASSUME AskedAssumption == Asked \subseteq SUBSET Fields

Unversioned ==
  [ rereads   |-> FALSE,   \* the resource is read before it is changed
    guard     |-> "none",  \* "match": the version that is replaced, "next": the one that is made
    whole     |-> FALSE,   \* all contents are sent, not the changed ones alone
    twice     |-> FALSE,   \* all-day dates take a second read
    blob      |-> FALSE,   \* the text holds what makes an online meeting joinable
    people    |-> FALSE,   \* there are attendees
    receipt   |-> FALSE,   \* a success without the resource's identity is an open outcome
    bodyFirst |-> TRUE ]   \* a body that is not JSON is a final error, whatever the status

\* Mutant: google, too, takes a body that is not JSON for a final error.
GoogleEventBodyFirst ==
  [Unversioned EXCEPT !.rereads = TRUE, !.guard = "match", !.people = TRUE, !.receipt = TRUE]
GoogleEvent ==
  [Unversioned EXCEPT !.rereads = TRUE, !.guard = "match", !.people = TRUE, !.receipt = TRUE,
                      !.bodyFirst = FALSE]
MicrosoftEvent == [GoogleEvent EXCEPT !.twice = TRUE, !.blob = TRUE]
ConfluencePage == [Unversioned EXCEPT !.guard = "next", !.whole = TRUE]
HelpScoutArticle == Unversioned
IntercomArticle == Unversioned
NotionPage == Unversioned
ReadMeGuide == Unversioned
ZendeskArticle == Unversioned

EditProfile ==
  [ google |-> GoogleEvent, microsoft |-> MicrosoftEvent, confluence |-> ConfluencePage,
    help_scout_docs |-> HelpScoutArticle, intercom_articles |-> IntercomArticle,
    notion_docs |-> NotionPage, readme |-> ReadMeGuide, zendesk_guide |-> ZendeskArticle ]

ASSUME EditedAssumption == Edited \subseteq DOMAIN EditProfile

VARIABLES
  provider,
  version,    \* the resource's current version
  revision,   \* its revisions: who wrote what is told by the version that brought it
  call,       \* each caller's request
  flying,     \* changes on their way to the upstream
  replied,    \* history: an attendee answered the invitation
  unseen,     \* history: a change replaced contents its caller was not shown
  applied     \* history: how often each caller's change took effect

vars == <<provider, version, revision, call, flying, replied, unseen, applied>>
history == <<replied, unseen, applied>>
resource == <<version, revision>>

Versions == 0..MaxVersion
profile == EditProfile[provider]
current == revision[version]

Document ==
  [contents : [Contents -> Versions], replied : BOOLEAN, online : BOOLEAN, joinable : BOOLEAN]
\* "refused" is a permanent error, "unreadable" the one of a body that is not JSON.
Verdicts == {"none", "updated", "refused", "unreadable", "retryable", "uncertain"}
Answers == {"none", "done", "refused", "limited"}
Phases == {"idle", "dating", "shown", "rereading", "redating", "ready", "waiting", "done"}
Reads == [version : Versions, document : Document]

Call ==
  [ phase : Phases, shown : Reads, changes : SUBSET Fields, read : Reads,
    tries : 0..MaxTries, answer : Answers, verdict : Verdicts ]

\* A change under way: of which call, what it replaces, and the answers it carries over.
Change ==
  [caller : Callers, try : 1..MaxTries, expected : Versions, fields : SUBSET Fields, replied : BOOLEAN]

\* A read: the version it is of, and what it says.
Read == [version |-> version, document |-> current]

Blank == [version |-> 0, document |-> revision[0]]

Idle == [phase |-> "idle", shown |-> Blank, changes |-> {}, read |-> Blank, tries |-> 0,
         answer |-> "none", verdict |-> "none"]

-----------------------------------------------------------------------------
(* The provider.                                                           *)

\* The read is complete, or its dates are still to be read in the event's own time zone.
Inspect(c) ==
  /\ call[c].phase = "idle"
  /\ call' = [call EXCEPT ![c].shown = Read,
                          ![c].phase = IF profile.twice THEN "dating" ELSE "shown"]
  /\ UNCHANGED <<provider, resource, flying, history>>

\* The second read replaces the dates of the first.
Dated(read) ==
  [read EXCEPT !.document.contents = [read.document.contents EXCEPT !["dates"] =
                                        current.contents["dates"]]]

\* Mutant: the dates are taken from whatever revision the second read meets.
AnyRevision(read) == TRUE
\* Both reads met one revision: changeKey did not change.
SameRevision(read) == read.version = version

\* A caller who is told that the event changed while it was read asks again.
InspectDates(c) ==
  /\ call[c].phase = "dating"
  /\ \/ /\ SameRevision(call[c].shown)
        /\ call' = [call EXCEPT ![c].phase = "shown", ![c].shown = Dated(call[c].shown)]
     \/ /\ ~SameRevision(call[c].shown)
        /\ call' = [call EXCEPT ![c] = Idle]
  /\ UNCHANGED <<provider, resource, flying, history>>

Changes == {changes \in Asked : changes # {} /\ ("people" \in changes => profile.people)}

\* The caller asks for a change of what it was shown.
Update(c, changes) ==
  /\ call[c].phase = "shown" /\ call[c].tries = 0
  /\ call' = [call EXCEPT ![c].changes = changes, ![c].tries = 1,
                          ![c].phase = IF profile.rereads THEN "rereading" ELSE "ready"]
  /\ UNCHANGED <<provider, resource, flying, history>>

\* The verdict a call ends with.
Ended(c, verdict) ==
  [call[c] EXCEPT !.phase = "done", !.verdict = verdict, !.read = Blank, !.answer = "none"]

\* Mutant: an online meeting's text is replaced like any other.
AnyText(c, read) == TRUE
\* Replacing an online meeting's text would remove what makes it joinable.
TextReplaceable(c, read) ==
  "text" \in call[c].changes /\ profile.blob => ~read.document.online

\* ValidateAgainst the read that was just completed.
Checked(c, read) ==
  IF read.version # call[c].shown.version \/ ~TextReplaceable(c, read)
    THEN Ended(c, "refused")
    ELSE [call[c] EXCEPT !.phase = "ready", !.read = read]

Reread(c) ==
  /\ call[c].phase = "rereading"
  /\ call' = [call EXCEPT ![c] =
                IF profile.twice THEN [call[c] EXCEPT !.phase = "redating", !.read = Read]
                ELSE Checked(c, Read)]
  /\ UNCHANGED <<provider, resource, flying, history>>

RereadDates(c) ==
  /\ call[c].phase = "redating"
  /\ call' = [call EXCEPT ![c] = IF SameRevision(call[c].read)
                                   THEN Checked(c, Dated(call[c].read))
                                   ELSE Ended(c, "retryable")]
  /\ UNCHANGED <<provider, resource, flying, history>>

\* A read fails, or the change cannot be expressed: the call ends before it sends anything.
NotSent(c) ==
  /\ call[c].phase \in {"rereading", "redating", "ready"}
  /\ \E verdict \in {"refused", "retryable"} :
       /\ verdict = "retryable" => profile.rereads
       /\ call' = [call EXCEPT ![c] = Ended(c, verdict)]
  /\ UNCHANGED <<provider, resource, flying, history>>

\* Mutant: the attendees are sent without their answers.
NoReplies(c) == FALSE
\* Replacing the attendees must not reset their answers.
Replies(c) == call[c].read.document.replied

\* Mutant: what was read last is matched, not what the caller was shown.
MatchingRead(c) ==
  [caller |-> c, try |-> call[c].tries, expected |-> call[c].read.version,
   fields |-> call[c].changes, replied |-> Replies(c)]

Requested(c) ==
  [caller |-> c, try |-> call[c].tries, expected |-> call[c].shown.version,
   fields |-> call[c].changes, replied |-> Replies(c)]

Send(c) ==
  /\ call[c].phase = "ready"
  /\ flying' = flying \cup {Requested(c)}
  /\ call' = [call EXCEPT ![c].phase = "waiting", ![c].read = Blank]
  /\ UNCHANGED <<provider, resource, history>>

Reports(answer) == [done |-> "updated", refused |-> "refused", limited |-> "retryable"][answer]

\* The answer.  A receipt that does not name the event leaves the outcome open; a body that
\* cannot be read is the end of a call that decodes it first, also of one that succeeded.
Receive(c) ==
  /\ call[c].phase = "waiting" /\ call[c].answer # "none"
  /\ \/ call' = [call EXCEPT ![c] = Ended(c, Reports(call[c].answer))]
     \/ /\ call[c].answer = "done" /\ profile.receipt
        /\ call' = [call EXCEPT ![c] = Ended(c, "uncertain")]
     \/ /\ profile.bodyFirst
        /\ call' = [call EXCEPT ![c] = Ended(c, "unreadable")]
  /\ UNCHANGED <<provider, resource, flying, history>>

\* Mutant: a change that was not answered failed for good.
Failed(c) == Ended(c, "refused")
\* No answer in time, or none at all: the change may have been made, or be made yet.
Unanswered(c) == Ended(c, "uncertain")

\* A 5xx leaves as much open, and is read like any other answer.
GiveUp(c) ==
  /\ call[c].phase = "waiting"
  /\ \/ call' = [call EXCEPT ![c] = Unanswered(c)]
     \/ /\ profile.bodyFirst
        /\ call' = [call EXCEPT ![c] = Ended(c, "unreadable")]
  /\ UNCHANGED <<provider, resource, flying, history>>

\* The same request is made again, after a rate limit or by one who does not know its outcome.
Repeat(c) ==
  /\ call[c].phase = "done" /\ call[c].verdict \in {"retryable", "uncertain"}
  /\ call[c].tries < MaxTries
  /\ call' = [call EXCEPT ![c].tries = call[c].tries + 1, ![c].verdict = "none",
                          ![c].phase = IF profile.rereads THEN "rereading" ELSE "ready"]
  /\ UNCHANGED <<provider, resource, flying, history>>

-----------------------------------------------------------------------------
(* The upstream and those who edit there.                                  *)

Becomes(document) ==
  /\ version < MaxVersion
  /\ version' = version + 1
  /\ revision' = [revision EXCEPT ![version + 1] = document]

Written(contents, names) == [f \in Contents |-> IF f \in names THEN version + 1 ELSE contents[f]]

Rewrite(f) ==
  /\ Becomes([current EXCEPT !.contents = Written(current.contents, {f})])
  /\ UNCHANGED <<provider, call, flying, history>>

Answer ==
  /\ profile.people
  /\ Becomes([current EXCEPT !.replied = TRUE]) /\ replied' = TRUE
  /\ UNCHANGED <<provider, call, flying, unseen, applied>>

GoOnline ==
  /\ profile.blob /\ ~current.online
  /\ Becomes([current EXCEPT !.online = TRUE])
  /\ UNCHANGED <<provider, call, flying, history>>

\* The caller of a change hears of it while it still waits for it.
Heard(m, answer) ==
  IF call[m.caller].phase = "waiting" /\ call[m.caller].tries = m.try
    THEN [call EXCEPT ![m.caller].answer = answer] ELSE call

\* Mutant: the version check is a matter of the read before.
NoPrecondition(m) == TRUE
\* If-Match names the version that is replaced, version.number the one after it.
Precondition(m) == profile.guard # "none" => m.expected = version

\* Contents a change sets: the whole of them as its caller was shown them, or the changed ones.
Sets(m) == IF profile.whole THEN Contents ELSE m.fields \cap Contents
Base(m) == IF profile.whole THEN call[m.caller].shown.document.contents ELSE current.contents

Execute(m) ==
  /\ Precondition(m)
  /\ Becomes([contents |-> Written(Base(m), m.fields),
              replied  |-> IF "people" \in m.fields THEN m.replied ELSE current.replied,
              online   |-> current.online,
              joinable |-> current.joinable
                             /\ ~(profile.blob /\ current.online /\ "text" \in m.fields)])
  /\ unseen' = (unseen \/ \E f \in Sets(m) :
                  current.contents[f] # call[m.caller].shown.document.contents[f])
  /\ applied' = [applied EXCEPT ![m.caller] = @ + 1]
  /\ call' = Heard(m, "done") /\ flying' = flying \ {m}
  /\ UNCHANGED <<provider, replied>>

\* For its precondition or for a reason of the upstream's own.  A change that is lost stays on
\* its way for ever.
Decline(m) ==
  /\ flying' = flying \ {m}
  /\ \E answer \in {"refused", "limited"} : call' = Heard(m, answer)
  /\ UNCHANGED <<provider, resource, history>>

-----------------------------------------------------------------------------
Init ==
  /\ provider \in Edited /\ version = 0
  /\ revision = [v \in Versions |-> [contents |-> [f \in Contents |-> 0], replied |-> FALSE,
                                     online |-> FALSE, joinable |-> TRUE]]
  /\ call = [c \in Callers |-> Idle]
  /\ flying = {} /\ replied = FALSE /\ unseen = FALSE
  /\ applied = [c \in Callers |-> 0]

UpdateSome(c) == \E changes \in Changes : Update(c, changes)

Next ==
  \/ \E c \in Callers :
       \/ Inspect(c) \/ InspectDates(c) \/ UpdateSome(c) \/ Reread(c) \/ RereadDates(c)
       \/ NotSent(c) \/ Send(c) \/ Receive(c) \/ GiveUp(c) \/ Repeat(c)
  \/ \E f \in Contents : Rewrite(f)
  \/ Answer \/ GoOnline
  \/ \E m \in flying : Execute(m) \/ Decline(m)

Spec == Init /\ [][Next]_vars

-----------------------------------------------------------------------------
Versioned == {"google", "microsoft", "confluence"}

\* A change that was sent says what its call says.
TypeOK ==
  /\ provider \in Edited /\ version \in Versions
  /\ revision \in [Versions -> Document]
  /\ call \in [Callers -> Call] /\ flying \subseteq Change
  /\ \A m \in flying :
       /\ m.try <= call[m.caller].tries
       /\ m.expected = call[m.caller].shown.version /\ m.fields = call[m.caller].changes
  /\ replied \in BOOLEAN /\ unseen \in BOOLEAN /\ applied \in [Callers -> Nat]

\* What a caller is shown is one revision, however the event changed between two reads of it.
SnapshotWhole ==
  \A c \in Callers : call[c].phase \notin {"idle", "dating"} =>
    call[c].shown.document = revision[call[c].shown.version]

\* No one's edit is replaced by a caller who was not shown it, whenever its change arrives.
NothingUnseenReplaced == unseen => provider \notin Versioned

\* An answer to the invitation survives every change of the attendees.
RepliesKept == replied => current.replied

\* An online meeting stays joinable, also one that went online while its text was changed.
StillJoinable == current.joinable

\* However often a request is made, and however late its changes arrive, it takes effect once.
AppliedOnce == \A c \in Callers : applied[c] > 1 => provider \notin Versioned

\* Who calls a body that is not JSON a final failure, whatever became of the change.
RejectGarbled ==
  {"confluence", "help_scout_docs", "intercom_articles", "notion_docs", "readme", "zendesk_guide"}

\* What is reported to have been changed was; what is reported at once to be refused was not
\* changed and will not be.  A final failure that says neither comes of an answer that could
\* not be read, and of the help centers alone.
ReportsTrue ==
  \A c \in Callers :
    /\ call[c].verdict = "updated" => applied[c] > 0
    /\ call[c].verdict = "refused" /\ call[c].tries = 1 =>
         applied[c] = 0 /\ \A m \in flying : m.caller # c
    /\ call[c].verdict = "unreadable" => provider \in RejectGarbled

\* What a caller was told that is final; a refusal of a repetition tells nothing of the
\* request before it.
Told(c) ==
  CASE call[c].verdict = "updated" -> "updated"
    [] call[c].verdict = "refused" /\ call[c].tries = 1 -> "refused"
    [] call[c].verdict = "unreadable" -> "failed"
    [] OTHER -> "nothing"

Contract == INSTANCE AtomicEdit WITH
  guarded <- provider \in Versioned, candid <- provider \notin RejectGarbled,
  contents <- current.contents,
  replied <- current.replied, joinable <- current.joinable,
  seen <- [c \in Callers |-> call[c].shown.version], asked <- [c \in Callers |-> call[c].changes],
  done <- [c \in Callers |-> applied[c] > 0], told <- [c \in Callers |-> Told(c)]

\* To its caller an update is a compare-and-set: however it is read again, repeated, delayed or
\* given up, it sets what was asked, at one moment, and a report of a change or a refusal is
\* what happened.  The help centers alone may report a failure that is neither.
EditContract == Contract!Spec
=============================================================================
