--------------------------------- MODULE Settings ---------------------------------
(* The settings page (settings/page.tsx) and the routes it saves to           *)
(* (profile.routes.ts, requestDeletion).  The page keeps one copy of what the *)
(* server last told it; a tab starts its form from that copy and keeps it     *)
(* whatever is told later.  Saves go on while their tab, or the page, is left.*)
(*                                                                            *)
(* `profile` stands for the texts, country and gender of the form, `countries`*)
(* for the preferences. Rows, statements and locks are those of one user, at  *)
(* READ COMMITTED.                                                            *)
EXTENDS Naturals, FiniteSets

CONSTANTS
    Slot,                     \* bound: calls of the page at one time
    Detail,                   \* what can be typed into the profile form
    Interest, Country,
    MAX_INTERESTS_PER_USER,
    PREFERRED_COUNTRY_LIMIT,  \* of the user's plan
    MaxEdits, MaxSaves        \* bounds: edits (or new languages) and saves

ASSUME LimitAssumption == MAX_INTERESTS_PER_USER \in Nat /\ PREFERRED_COUNTRY_LIMIT \in Nat
ASSUME SettingsBounds  == MaxEdits \in Nat /\ MaxSaves \in Nat

TABS == {"profile", "privacy", "matching", "blocked", "account"}

(* What a registration leaves. *)
Unset    == [profile |-> "unset", interests |-> {}, countries |-> {}]
Settings == [profile : Detail \cup {"unset"}, interests : SUBSET Interest,
             countries : SUBSET Country]

VARIABLES
    account,   \* the server's rows
    closed,    \* deletion is requested, the account deactivated
    opened,    \* the page is open,
    there,     \* and has a profile to show:
    copy,      \* the one it was last told
    tab, form, \* the tab and what its fields hold
    closing,   \* the account tab's dialog
    error,     \* the page shows one
    calls,     \* what the page has sent, by slot
    sole,      \* history: no replacement of interests met another one's transaction
    raced,     \* history: the last that was stored did
    overlap,   \* history: the last load or save did not run alone
    stale,     \* history: the form was opened while one ran
    touched,   \* history: fields edited since they were sent or opened
    edits, saves

rows     == <<account, closed>>
open     == <<opened, there, copy, tab, closing>>
typing   == <<form, touched, stale, edits>>
stored   == <<sole, raced>>
formVars == <<rows, open, error, typing, calls, stored, overlap, saves>>

(* `of`: the form that sent it is open, only its page is, the page was left,  *)
(* or the client has given up. `body`: what it carries, and then the answer.  *)
Idle == [job |-> "none", pc |-> "free", of |-> "form", body |-> Unset,
         seen |-> {}, gone |-> {}]

Saves == {"profile", "privacy", "matching"}

Call == [job : Saves \cup {"none", "load", "delete"},
         pc : {"free", "sent", "patched", "put", "deleting", "deleted", "inserted",
               "stored", "answered", "refused"},
         of : {"form", "page", "left", "nobody"},
         body : Settings, seen : SUBSET Interest, gone : SUBSET Interest]

Sent(job) == [Idle EXCEPT !.job = job, !.pc = "sent", !.body = form]

(* A load or a save is under way. *)
Saving(s) == calls[s].job \in Saves \cup {"load"}
InFlight  == \E s \in Slot : Saving(s)

(* The page opens and loads, or is not there. *)
FormInit ==
    /\ account = Unset /\ closed = FALSE
    /\ opened \in BOOLEAN /\ there = FALSE /\ copy = Unset
    /\ tab = "profile" /\ form = Unset /\ closing = {}
    /\ error = FALSE
    /\ \E s \in Slot :
          calls = [t \in Slot |-> IF opened /\ t = s
                                  THEN [Idle EXCEPT !.job = "load", !.pc = "sent"] ELSE Idle]
    /\ sole = TRUE /\ raced = FALSE /\ overlap = FALSE /\ stale = FALSE
    /\ touched = {} /\ edits = 0 /\ saves = 0

--------------------------------------------------------------------------------
(* The page *)

Done(s) == calls' = [calls EXCEPT ![s] = Idle]

(* The form of an open tab starts from the page's copy. *)
Mounts(values) ==
    /\ form' = values /\ touched' = {} /\ closing' = {}

Heard(s) == calls[s].of \in {"form", "page"}

(* Both reads of the load are in, *)
Loaded(s) ==
    /\ calls[s].job = "load" /\ calls[s].pc = "answered" /\ Heard(s)
    /\ Done(s)
    /\ there' = TRUE /\ copy' = calls[s].body
    /\ Mounts(calls[s].body) /\ UNCHANGED edits
    /\ stale' = \E t \in Slot \ {s} : Saving(t)
    /\ UNCHANGED <<rows, opened, tab, error, stored, overlap, saves>>

(* Another tab is another form. Calls of the one that was open go on. *)
setTab(to) ==
    /\ there /\ to \in TABS \ {tab}
    /\ tab' = to
    /\ Mounts(copy) /\ UNCHANGED edits
    /\ stale' = InFlight
    /\ calls' = [s \in Slot |-> IF calls[s].of = "form" /\ calls[s].job # "none"
                                THEN [calls[s] EXCEPT !.of = "page"] ELSE calls[s]]
    /\ UNCHANGED <<rows, opened, there, copy, error, stored, overlap, saves>>

(* The page goes: what it sent goes on, heard by nobody. *)
Orphaned == [s \in Slot |-> IF Heard(s) /\ calls[s].job # "none"
                            THEN [calls[s] EXCEPT !.of = "left"] ELSE calls[s]]

Unmounts ==
    /\ there' = FALSE /\ copy' = Unset /\ tab' = "profile" /\ error' = FALSE
    /\ Mounts(Unset) /\ stale' = FALSE

(* The language is part of the address: the page opens anew. That the account *)
(* hears of the language too is no matter of the form's.                      *)
LanguageSwitcher(s) ==
    /\ there /\ tab = "profile" /\ calls[s].pc = "free"
    /\ edits < MaxEdits /\ edits' = edits + 1
    /\ Unmounts
    /\ calls' = [Orphaned EXCEPT ![s] = [Idle EXCEPT !.job = "load", !.pc = "sent"]]
    /\ overlap' = InFlight
    /\ UNCHANGED <<rows, opened, stored, saves>>

(* Back, the tokens' page, or signing out on the account tab. *)
leaveSettings ==
    /\ there /\ opened' = FALSE
    /\ Unmounts /\ UNCHANGED edits
    /\ calls' = Orphaned
    /\ UNCHANGED <<rows, stored, overlap, saves>>

--------------------------------------------------------------------------------
(* The forms *)

Edits(field, now) ==
    /\ there /\ edits < MaxEdits /\ edits' = edits + 1
    /\ form' = now
    /\ touched' = touched \cup {field}
    /\ UNCHANGED <<rows, open, error, calls, stored, overlap, stale, saves>>

editProfile(v) == tab = "profile" /\ Edits("profile", [form EXCEPT !.profile = v])

(* A chip: off, or on while there is room. *)
Toggled(set, x, limit) ==
    IF x \in set THEN set \ {x} ELSE IF Cardinality(set) < limit THEN set \cup {x} ELSE set

toggleInterest(i) ==
    /\ tab = "profile"
    /\ Edits("interests", [form EXCEPT !.interests = Toggled(@, i, MAX_INTERESTS_PER_USER)])

toggleCountry(c) ==
    /\ tab = "matching"
    /\ Edits("countries", [form EXCEPT !.countries = Toggled(@, c, PREFERRED_COUNTRY_LIMIT)])

(* The button is off while a call of this form runs. *)
Busy == \E s \in Slot : calls[s].of = "form" /\ calls[s].job # "none"

(* Save, of a tab that has the button: every field is sent. *)
Save(s) ==
    /\ there /\ tab \in Saves /\ ~Busy /\ calls[s].pc = "free"
    /\ saves < MaxSaves /\ saves' = saves + 1
    /\ calls' = [calls EXCEPT ![s] = Sent(tab)]
    /\ error' = FALSE
    /\ overlap' = InFlight
    /\ touched' = {} /\ stale' = FALSE
    /\ UNCHANGED <<rows, open, form, edits, stored>>

(* The answer is the page's new copy; a page that is gone takes no notice. *)
Saved(s) ==
    /\ calls[s].job \in Saves /\ calls[s].pc = "answered" /\ Heard(s)
    /\ Done(s)
    /\ copy' = calls[s].body
    /\ UNCHANGED <<rows, opened, there, tab, closing, error, typing, stored, overlap, saves>>

(* The second call of the profile tab goes when the first is answered. *)
thenInterests(s) ==
    /\ calls[s].pc = "patched" /\ calls[s].of # "nobody"
    /\ calls' = [calls EXCEPT ![s].pc = "put"]
    /\ UNCHANGED <<rows, open, error, typing, stored, overlap, saves>>

(* A failure is shown. The request may not have arrived, or be served all     *)
(* the same.                                                                  *)
Fails(s) ==
    /\ calls[s].job \in Saves \cup {"load"} /\ Heard(s)
    /\ error' = TRUE
    /\ \/ calls[s].pc \in {"refused", "sent", "put", "answered"} /\ Done(s)
       \/ /\ calls[s].pc \notin {"refused", "answered"}
          /\ calls' = [calls EXCEPT ![s].of = "nobody"]
    /\ UNCHANGED <<rows, open, typing, stored, overlap, saves>>

Unheard(s) ==
    /\ ~Heard(s) /\ calls[s].pc \in {"answered", "refused", "patched"}
    /\ Done(s)
    /\ UNCHANGED <<rows, open, error, typing, stored, overlap, saves>>

(* The account tab: ask, type the word, cancel (what was typed stays). *)
Dialog(now) ==
    /\ there /\ tab = "account" /\ "scheduled" \notin closing
    /\ closing' = now
    /\ UNCHANGED <<rows, opened, there, copy, tab, error, typing, calls, stored, overlap, saves>>

setConfirming   == "confirming" \notin closing /\ Dialog(closing \cup {"confirming"})
setConfirmation == "confirming" \in closing /\ \E word \in SUBSET {"typed"} :
                                                   Dialog({"confirming"} \cup word)
cancelDeletion  == "confirming" \in closing /\ Dialog(closing \ {"confirming"})

deleteAccount(s) ==
    /\ there /\ tab = "account" /\ closing = {"confirming", "typed"} /\ ~Busy
    /\ calls[s].pc = "free"
    /\ calls' = [calls EXCEPT ![s] = [Idle EXCEPT !.job = "delete", !.pc = "sent"]]
    /\ UNCHANGED <<rows, open, error, typing, stored, overlap, saves>>

(* Its answer, or its failure, is the tab's own. *)
Scheduled(s) ==
    /\ calls[s].job = "delete" /\ Heard(s)
    /\ calls[s].pc \in {"answered", "refused"}
    /\ Done(s)
    /\ closing' = IF calls[s].pc = "answered" /\ calls[s].of = "form"
                  THEN closing \cup {"scheduled"} ELSE closing
    /\ UNCHANGED <<rows, opened, there, copy, tab, error, typing, stored, overlap, saves>>

--------------------------------------------------------------------------------
(* The server *)

Answers(s, now) == calls' = [calls EXCEPT ![s] = now]

Serving(s, job, pc) == calls[s].job = job /\ calls[s].pc = pc

At(s, pc) == [calls[s] EXCEPT !.pc = pc]

(* What the server answers with is read after what the call has written. *)
loadProfile(s) ==
    /\ \/ calls[s].pc = "stored"
       \/ Serving(s, "load", "sent") /\ ~closed
    /\ Answers(s, [At(s, "answered") EXCEPT !.body = account])
    /\ UNCHANGED <<rows, open, error, typing, stored, overlap, saves>>

(* No session, too many calls, a text that the schemas refuse. *)
Refuses(s) ==
    /\ calls[s].pc \in {"sent", "put"}
    /\ Answers(s, At(s, "refused"))
    /\ UNCHANGED <<rows, open, error, typing, stored, overlap, saves>>

(* PATCH profile. Its answer is not used. *)
PatchProfile(s) ==
    /\ Serving(s, "profile", "sent") /\ ~closed
    /\ account' = [account EXCEPT !.profile = calls[s].body.profile]
    /\ Answers(s, At(s, "patched"))
    /\ UNCHANGED <<closed, open, error, typing, stored, overlap, saves>>

(* Calls whose transaction on the interests is open. *)
InTx(s) == calls[s].pc \in {"deleting", "deleted", "inserted"}

(* PUT interests: the delete begins on the rows there are, *)
PutInterests(s) ==
    /\ calls[s].pc = "put" /\ ~closed
    /\ Cardinality(calls[s].body.interests) <= MAX_INTERESTS_PER_USER
    /\ Answers(s, [At(s, "deleting") EXCEPT !.seen = account.interests])
    /\ sole' = ~\E t \in Slot : InTx(t)
    /\ UNCHANGED <<rows, open, error, typing, raced, overlap, saves>>

Others(s) == {t \in Slot \ {s} : InTx(t)}

(* MUTANT of Deleted: the old rows stay. *)
DeletedNothing(s) ==
    /\ calls[s].pc = "deleting"
    /\ \A t \in Others(s) : calls[s].seen \cap calls[t].gone = {}
    /\ Answers(s, [At(s, "deleted") EXCEPT !.gone = {}])
    /\ UNCHANGED <<rows, open, error, typing, stored, overlap, saves>>

(* waits for who deletes one of them, and deletes those that are left. *)
Deleted(s) ==
    /\ calls[s].pc = "deleting"
    /\ \A t \in Others(s) : calls[s].seen \cap calls[t].gone = {}
    /\ Answers(s, [At(s, "deleted") EXCEPT !.gone = calls[s].seen \cap account.interests])
    /\ UNCHANGED <<rows, open, error, typing, stored, overlap, saves>>

(* The insert waits for who inserts or deletes the same row; one that is     *)
(* there breaks the key, and with it the transaction.                        *)
Inserted(s) ==
    LET new == calls[s].body.interests IN
    /\ calls[s].pc = "deleted"
    /\ \A t \in Others(s) :
          /\ new \cap calls[t].gone = {}
          /\ calls[t].pc = "inserted" => new \cap calls[t].body.interests = {}
    /\ Answers(s, At(s, IF new \cap (account.interests \ calls[s].gone) = {}
                        THEN "inserted" ELSE "refused"))
    /\ UNCHANGED <<rows, open, error, typing, stored, overlap, saves>>

CommitInterests(s) ==
    /\ calls[s].pc = "inserted"
    /\ account' = [account EXCEPT !.interests = (@ \ calls[s].gone) \cup calls[s].body.interests]
    /\ raced' = ~sole
    /\ Answers(s, At(s, "stored"))
    /\ UNCHANGED <<closed, open, error, typing, sole, overlap, saves>>

(* PATCH privacy takes these keys and no other. What the page sends is what   *)
(* loadProfile gave it: the whole row, and the overrides.                     *)
PRIVACY_TOGGLES == {"showDisplayName", "showCountry", "showAgeBracket", "showGender",
                    "showInterests", "showBio", "allowConnectionRequests"}

DEFAULT_PRIVACY_SETTINGS == PRIVACY_TOGGLES \cup {"fieldOverrides"}

PrivacySetting == PRIVACY_TOGGLES \cup {"id", "userId", "createdAt", "updatedAt"}

PatchPrivacy(s) ==
    /\ Serving(s, "privacy", "sent") /\ ~closed
    /\ Answers(s, At(s, IF DEFAULT_PRIVACY_SETTINGS \cup PrivacySetting \subseteq PRIVACY_TOGGLES
                        THEN "stored" ELSE "refused"))
    /\ UNCHANGED <<rows, open, error, typing, stored, overlap, saves>>

(* MUTANT of PatchPreferences: the answer is read before the write. *)
PatchPreferencesLate(s) ==
    /\ Serving(s, "matching", "sent") /\ ~closed
    /\ Cardinality(calls[s].body.countries) <= PREFERRED_COUNTRY_LIMIT
    /\ account' = [account EXCEPT !.countries = calls[s].body.countries]
    /\ Answers(s, [At(s, "answered") EXCEPT !.body = account])
    /\ UNCHANGED <<closed, open, error, typing, stored, overlap, saves>>

(* PATCH preferences, within what the plan allows (and else Refuses). *)
PatchPreferences(s) ==
    /\ Serving(s, "matching", "sent") /\ ~closed
    /\ Cardinality(calls[s].body.countries) <= PREFERRED_COUNTRY_LIMIT
    /\ account' = [account EXCEPT !.countries = calls[s].body.countries]
    /\ Answers(s, At(s, "stored"))
    /\ UNCHANGED <<closed, open, error, typing, stored, overlap, saves>>

(* Nothing that comes with an access token is served from now on. *)
requestDeletion(s) ==
    /\ Serving(s, "delete", "sent") /\ ~closed
    /\ closed' = TRUE
    /\ Answers(s, At(s, "answered"))
    /\ UNCHANGED <<account, open, error, typing, stored, overlap, saves>>

--------------------------------------------------------------------------------
OnPage(s) ==
    \/ Loaded(s) \/ LanguageSwitcher(s) \/ Save(s) \/ Saved(s) \/ thenInterests(s)
    \/ Fails(s) \/ Unheard(s) \/ deleteAccount(s) \/ Scheduled(s)

OnServer(s) ==
    \/ loadProfile(s) \/ Refuses(s) \/ PatchProfile(s) \/ PutInterests(s) \/ Deleted(s)
    \/ Inserted(s) \/ CommitInterests(s) \/ PatchPrivacy(s) \/ PatchPreferences(s)
    \/ requestDeletion(s)

Typing ==
    \/ \E t \in TABS : setTab(t)
    \/ \E v \in Detail : editProfile(v)
    \/ \E i \in Interest : toggleInterest(i)
    \/ \E c \in Country : toggleCountry(c)
    \/ setConfirming \/ setConfirmation \/ cancelDeletion

FormNext == leaveSettings \/ Typing \/ \E s \in Slot : OnPage(s) \/ OnServer(s)

FormSpec == FormInit /\ [][FormNext]_formVars

--------------------------------------------------------------------------------
(* Properties *)

(* What a tab's form holds. *)
Fields(t) == CASE t = "profile" -> {"profile", "interests"}
               [] t = "matching" -> {"countries"}
               [] OTHER -> {}

Agree(fields, a, b) ==
    /\ "profile" \in fields => a.profile = b.profile
    /\ "interests" \in fields => a.interests = b.interests
    /\ "countries" \in fields => a.countries = b.countries

(* Types of the page's state and of the account's. *)
FormTypes ==
    /\ account \in Settings /\ copy \in Settings /\ form \in Settings
    /\ closed \in BOOLEAN /\ opened \in BOOLEAN /\ there \in BOOLEAN /\ error \in BOOLEAN
    /\ tab \in TABS /\ closing \subseteq {"confirming", "typed", "scheduled"}
    /\ calls \in [Slot -> Call]
    /\ sole \in BOOLEAN /\ raced \in BOOLEAN /\ overlap \in BOOLEAN /\ stale \in BOOLEAN
    /\ touched \subseteq {"profile", "interests", "countries"}
    /\ edits \in 0..MaxEdits /\ saves \in 0..MaxSaves

(* A replacement of the interests ("delete-then-insert inside one             *)
(* transaction") never leaves more of them than a user may choose, unless its *)
(* transaction met another one's: then it may leave both choices.             *)
InterestsWithinLimit == raced \/ Cardinality(account.interests) <= MAX_INTERESTS_PER_USER

(* A quiet page without an error shows what is stored, in its copy and in     *)
(* every field not edited since it was opened or sent, whatever was lost,     *)
(* half done or answered to another tab before ("The shape every profile      *)
(* endpoint returns, so the client never has to refetch"): unless the last    *)
(* load or save overlapped another, or the form was opened while one ran.     *)
ShowsStored ==
    there /\ ~error /\ ~overlap /\ ~InFlight =>
        /\ copy = account
        /\ stale \/ Agree(Fields(tab) \ touched, form, account)

================================================================================
