--------------------------- MODULE ClientComposer ---------------------------
(***************************************************************************)
(* The composer of the web client: one text box and one attachment row     *)
(* shared by every chat (composer-state.ts, attachments.ts), the send that *)
(* leaves them and may hand its text and files back (submit.ts, the prompt *)
(* and steer actions of actions/chat.ts), and the history browsing of      *)
(* prompt-input.ts.                                                        *)
(*                                                                         *)
(* The draft of every chat lives in one map.  One debounce slot persists   *)
(* the text of all of them and one their files; the saves of a chat go out *)
(* in order and may be lost (no retry), and every save that moves the      *)
(* server's copy comes back as a draft_changed frame.  A text is the chat  *)
(* it was written for and a number, a file the chat it was attached to.    *)
(***************************************************************************)
EXTENDS Integers, Sequences, FiniteSets, SequencesExt

CONSTANTS
    Chats,            \* chat ids, as strings
    FailChats,        \* the chats whose sends the server may refuse or not answer
    MaxTexts,         \* bound: texts written for a chat
    ComposerScenarios \* budgets of what may happen

VARIABLES
    cp,      \* the client: box, row, drafts, slots, and the requests it has out
    cpsrv,   \* the server: each chat's draft and files, its turn, what it took
    cpnet,   \* draft_changed, chat_deleted and tabs_changed frames, oldest first
    cpuse,   \* what this device last wrote in each chat (history)
    cpleft   \* what may still happen

cpvars == <<cp, cpsrv, cpnet, cpuse, cpleft>>

NoChat == ""

ASSUME ChatsAssumption == NoChat \notin Chats

Blank == <<>>
Unset == <<"unset">>
RemoteText == 0

DraftOf(x, ch) == IF ch = NoChat \/ x.drafts[ch] = Unset THEN Blank ELSE x.drafts[ch]

Queue(x, ch, kind, val) == [x EXCEPT !.out[ch] = Append(@, [kind |-> kind, val |-> val])]

-----------------------------------------------------------------------------
(* The text half: composer-state.ts.                                       *)

(* A keystroke, or a value the client set with an input event. *)
NoteText(x, t) ==
    IF x.live = NoChat \/ x.drafts[x.live] = t THEN x
    ELSE [x EXCEPT !.drafts[x.live] = t, !.slot = <<x.live, t>>]

(* The flush sends the live chat's draft, whatever chat the slot was for. *)
FlushDraft(x) ==
    IF x.live = NoChat \/ x.slot = <<>> THEN x
    ELSE Queue([x EXCEPT !.slot = <<>>], x.live, "draft", DraftOf(x, x.live))

(* The files go back into their chat's stash and the row empties. *)
FlushFiles(x) ==
    IF x.live = NoChat \/ x.fslot = <<>> THEN x
    ELSE Queue([x EXCEPT !.fslot = <<>>], x.live, "files", x.row)

StashFiles(x) ==
    LET kept == IF x.live = NoChat THEN x ELSE [x EXCEPT !.stash[x.live] = x.row]
    IN  [FlushFiles(kept) EXCEPT !.live = NoChat, !.row = {}]

(* A mutant of SaveComposer: the save that is due stays due. *)
SaveFilesOnly(x) == StashFiles(x)

SaveComposer(x) == StashFiles(FlushDraft(x))

RestoreComposer(x, ch) ==
    IF ch = NoChat THEN [x EXCEPT !.live = NoChat, !.box = Blank, !.row = {}]
    ELSE [x EXCEPT !.live = ch, !.box = DraftOf(x, ch), !.row = x.stash[ch], !.stash[ch] = {}]

Retarget(x, ch) == RestoreComposer(SaveComposer(x), ch)

(* A chat is forgotten: its draft, its files, and the generation a failed  *)
(* send's files are checked against.                                       *)
DropComposer(x, ch) ==
    LET gone == [x EXCEPT !.drafts[ch] = Unset, !.stash[ch] = {},
                          !.touched = @ \ {ch}, !.gens[ch] = @ + 1]
    IN  IF ch = x.live THEN [gone EXCEPT !.live = NoChat, !.row = {}, !.box = Blank] ELSE gone

(* A mutant of RestoreFailedSend: the shared box is written whoever sent.  *)
RestoreFailedAnywhere(x, ch, t) ==
    IF x.box # Blank THEN x ELSE NoteText([x EXCEPT !.box = t], t)

(* A failed send's text goes back to the chat that sent it, unless a draft *)
(* was recorded there since; the box is written only while it is empty.    *)
RestoreFailedSend(x, ch, t) ==
    IF DraftOf(x, ch) # Blank THEN x
    ELSE [x EXCEPT !.drafts[ch] = t, !.slot = <<ch, t>>,
                   !.box = IF ch = x.live /\ @ = Blank THEN t ELSE @]

(* An Edit the server refused is undone while its text is still the draft. *)
RestoreRefusedEdit(x, e) ==
    IF x.drafts[e.chat] # e.taken THEN x
    ELSE LET back == [x EXCEPT !.drafts[e.chat] = e.before]
         IN  IF e.chat = x.live
             THEN [back EXCEPT !.slot = <<e.chat, e.before>>,
                               !.box = IF @ = e.taken THEN e.before ELSE @]
             ELSE Queue([FlushDraft(back) EXCEPT !.slot = <<>>], e.chat, "draft", e.before)

(* The record's composer state, read once when the chat is first shown. *)
SeedFiles(x, ch, files) ==
    IF ch \in x.touched THEN x
    ELSE LET t == [x EXCEPT !.touched = @ \cup {ch}]
         IN  IF files = {} THEN t
             ELSE IF ch # x.live THEN [t EXCEPT !.stash[ch] = files]
             ELSE IF x.row # {} THEN t
             ELSE [t EXCEPT !.row = files]

SeedComposer(x, ch, rec) ==
    LET s == SeedFiles(x, ch, rec.files)
    IN  IF s.drafts[ch] # Unset THEN s
        ELSE [s EXCEPT !.drafts[ch] = rec.text,
                       !.box = IF ch = s.live /\ @ = Blank THEN rec.text ELSE @]

(* A draft_changed frame is adopted for every chat but the live one. *)
AdoptRemote(x, ch, rec) ==
    IF ch = x.live THEN x
    ELSE [x EXCEPT !.touched = @ \cup {ch}, !.stash[ch] = rec.files, !.drafts[ch] = rec.text]

-----------------------------------------------------------------------------
(* The file half: attachments.ts.                                          *)

Persist(x, ch, files, now) ==
    IF ch = NoChat THEN x
    ELSE IF now THEN Queue([x EXCEPT !.touched = @ \cup {ch}, !.fslot = <<>>], ch, "files", files)
    ELSE [x EXCEPT !.touched = @ \cup {ch}, !.fslot = <<ch, files>>]

(* A named chat's files: the row when the chat is live, else its stash.    *)
(* The generation read when the send took them must still be the chat's.   *)
AddFilesTo(x, ch, files, gen) ==
    IF gen # x.gens[ch] THEN x
    ELSE IF ch = x.live
         THEN IF files \subseteq x.row THEN x
              ELSE Persist([x EXCEPT !.row = @ \cup files], ch, x.row \cup files, FALSE)
         ELSE IF files \subseteq x.stash[ch] THEN x
              ELSE Persist([x EXCEPT !.stash[ch] = @ \cup files], ch, x.stash[ch] \cup files, FALSE)

TakeFiles(x) ==
    IF x.row = {} THEN x ELSE Persist([x EXCEPT !.row = {}], x.live, {}, TRUE)

-----------------------------------------------------------------------------
(* The send: submit.ts over the prompt and steer actions.                  *)

ConvertBudget == 2
NoFailure == [chat |-> NoChat, text |-> Blank, id |-> 0]

(* A retry of the text that last failed, on its chat, goes under its id. *)
MessageId(x, ch, t) ==
    IF x.failed.chat = ch /\ x.failed.text = t THEN x.failed.id ELSE x.minted + 1

(* The prompt's optimistic half says the chat is thinking. *)
Dispatch(x, s) ==
    [x EXCEPT !.sends = Append(@, s),
              !.thinking = IF s.kind = "prompt" THEN @ \cup {s.chat} ELSE @]

Submitted(x, ch, t) ==
    LET id    == MessageId(x, ch, t)
        taken == TakeFiles(x)
    IN  Dispatch([taken EXCEPT !.minted = IF id > @ THEN id ELSE @],
                 [chat |-> ch, text |-> t, files |-> x.row, gen |-> x.gens[ch], id |-> id,
                  kind |-> IF ch \in x.thinking THEN "steer" ELSE "prompt",
                  budget |-> ConvertBudget, res |-> ""])

(* The id is remembered either way; the text and the files go back unless  *)
(* the transcript already shows that the server took the prompt.           *)
HasMessage(x, s) == s.chat \in x.chats /\ \E m \in x.known : m.chat = s.chat /\ m.id = s.id

RecordFailure(x, s) ==
    LET y == [x EXCEPT !.failed = [chat |-> s.chat, text |-> s.text, id |-> s.id]]
    IN  IF HasMessage(x, s) THEN y
        ELSE AddFilesTo(RestoreFailedSend(y, s.chat, s.text), s.chat, s.files, s.gen)

(* What a send does with its answer.  A busy chat turns a prompt into a    *)
(* steer and a chat with no turn a steer into a prompt, twice at most.     *)
Answered(x, i) ==
    LET s == x.sends[i]
        y == [x EXCEPT !.sends = RemoveAt(@, i)]
        quiet(z) == [z EXCEPT !.thinking = @ \ {s.chat}]
        again(kind) == Dispatch(y, [s EXCEPT !.kind = kind, !.budget = @ - 1, !.res = ""])
    IN  CASE s.res = "ok" -> [y EXCEPT !.failed = NoFailure]
          [] s.res = "queued" /\ s.budget > 0 -> again("steer")
          [] s.res = "queued" /\ s.budget = 0 -> RecordFailure(y, s)
          [] s.res = "no_turn" /\ s.budget > 0 -> again("prompt")
          [] s.res = "no_turn" /\ s.budget = 0 -> RecordFailure(y, s)
          [] s.res \in {"starting", "gone"} -> RecordFailure(quiet(y), s)
          [] s.res = "failed" ->
                 RecordFailure(IF s.kind = "prompt" THEN quiet(y) ELSE y, s)

-----------------------------------------------------------------------------
(* The user.                                                               *)

Spend(field) == /\ cpleft[field] > 0
                /\ cpleft' = [cpleft EXCEPT ![field] = @ - 1]

(* A draft that may not be the server's, written again as it is, is not    *)
(* saved again.                                                            *)
Wrote(ch, t) ==
    cpuse' = IF ch = NoChat \/ (cpuse[ch] = Unset /\ cp.drafts[ch] = t) THEN cpuse ELSE [cpuse EXCEPT ![ch] = t]

(* An input event ends the browsing of past prompts. *)
EndBrowse(x) == [x EXCEPT !.browse = [@ EXCEPT !.on = FALSE, !.kept = Blank]]

Type ==
    /\ Spend("types") /\ cp.active # NoChat
    /\ \E n \in 1..MaxTexts :
         LET t == <<cp.active, n>>
         IN  /\ t # cp.box
             /\ cp' = NoteText(EndBrowse([cp EXCEPT !.box = t]), t)
             /\ Wrote(cp.live, t)
    /\ UNCHANGED <<cpsrv, cpnet>>

(* The first key after another chat became active ends the browsing too. *)
Keyed(x) == IF x.browse.at = x.active THEN x
            ELSE [x EXCEPT !.browse = [on |-> FALSE, kept |-> Blank, at |-> x.active]]

(* ArrowUp shows a prompt of the active chat without touching its draft. *)
Recall ==
    /\ Spend("recalls")
    /\ LET k == Keyed(cp)
       IN  \E m \in {p \in cp.known : p.chat = cp.active} :
             cp' = [k EXCEPT !.box = m.text,
                             !.browse.on = TRUE,
                             !.browse.kept = IF k.browse.on THEN @ ELSE k.box]
    /\ UNCHANGED <<cpsrv, cpnet, cpuse>>

(* Escape, or ArrowDown past the newest, shows what the box held before. *)
StopBrowsing ==
    /\ LET k == Keyed(cp)
       IN  /\ cp.browse.on
           /\ cp' = IF k.browse.on THEN EndBrowse([k EXCEPT !.box = k.browse.kept]) ELSE k
    /\ UNCHANGED <<cpsrv, cpnet, cpuse, cpleft>>

(* Send: the text goes to the active chat, the box empties whatever came   *)
(* of it, and the emptying is a keystroke.                                 *)
Submit ==
    /\ Spend("sends") /\ cp.box # Blank
    /\ LET x == EndBrowse(cp)
           y == IF x.active = NoChat THEN x ELSE Submitted(x, x.active, x.box)
       IN  cp' = NoteText([y EXCEPT !.box = Blank], Blank)
    /\ Wrote(cp.live, Blank)
    /\ UNCHANGED <<cpsrv, cpnet>>

AttachFile ==
    /\ Spend("attaches") /\ cp.live # NoChat
    /\ cp.live \notin cp.row
    /\ cp' = Persist([cp EXCEPT !.row = @ \cup {cp.live}], cp.live, cp.row \cup {cp.live}, FALSE)
    /\ UNCHANGED <<cpsrv, cpnet, cpuse>>

RemoveFile ==
    /\ \E f \in cp.row :
         cp' = Persist([cp EXCEPT !.row = @ \ {f}], cp.live, cp.row \ {f}, FALSE)
    /\ UNCHANGED <<cpsrv, cpnet, cpuse, cpleft>>

(* A chat is shown: the composer of the one left is saved and this one's   *)
(* restored; a record not read yet is asked for.                           *)
ActivateChatView(x, ch) ==
    [Retarget(x, ch) EXCEPT !.active = ch,
                            !.load = IF ch \in x.loaded THEN <<>> ELSE <<ch>>]

(* The store's active chat can be shown too while the tab on show is that  *)
(* of a chat just deleted.                                                 *)
ShowChat ==
    /\ Spend("switches")
    /\ \E ch \in cp.chats \ {cp.live} : cp' = ActivateChatView(cp, ch)
    /\ UNCHANGED <<cpsrv, cpnet, cpuse>>

(* store.removeChat: the store shows its first remaining session. *)
RemoveSession(x, ch) ==
    LET left == x.chats \ {ch}
    IN  [x EXCEPT !.chats = left,
                  !.known = {m \in @ : m.chat # ch},
                  !.active = IF @ # ch THEN @
                             ELSE IF left = {} THEN NoChat ELSE CHOOSE n \in left : TRUE]

(* What closing a chat's tab does, whoever closed it. *)
CloseChatTab(x, ch) ==
    LET y == DropComposer(RemoveSession(FlushDraft(x), ch), ch)
    IN  [Retarget(y, y.active) EXCEPT !.load = IF @ = <<ch>> THEN <<>> ELSE @]

CloseChat ==
    /\ Spend("closes")
    /\ \E ch \in cp.chats : /\ cp' = CloseChatTab(cp, ch)
                            /\ cpuse' = [cpuse EXCEPT ![ch] = Unset]
    /\ UNCHANGED <<cpsrv, cpnet>>

(* A steer row taken back for editing: its text becomes the active chat's  *)
(* draft before the server says whether the row was still unread.          *)
TakeBack ==
    /\ Spend("edits") /\ cp.active # NoChat /\ cp.edit = <<>>
    /\ LET t == <<cp.active, MaxTexts>>
       IN  /\ cp' = [NoteText(EndBrowse([cp EXCEPT !.box = t]), t) EXCEPT
                        !.edit = <<[chat |-> cp.active, taken |-> t,
                                    before |-> DraftOf(cp, cp.active)]>>]
           /\ Wrote(cp.live, t)
    /\ UNCHANGED <<cpsrv, cpnet>>

(* The removal is answered: kept, or refused for certain. *)
EditAnswered ==
    /\ cp.edit # <<>>
    /\ LET e == cp.edit[1]
           x == [cp EXCEPT !.edit = <<>>]
       IN  \/ cp' = x /\ UNCHANGED cpuse
           \/ /\ cp' = RestoreRefusedEdit(x, e)
              /\ cpuse' = IF cp.drafts[e.chat] = e.taken
                          THEN [cpuse EXCEPT ![e.chat] = e.before] ELSE cpuse
    /\ UNCHANGED <<cpsrv, cpnet, cpleft>>

(* The box loses focus, or the page is hidden: both slots go out. *)
Blur ==
    /\ cp.live # NoChat /\ (cp.slot # <<>> \/ cp.fslot # <<>>)
    /\ cp' = FlushFiles(FlushDraft(cp))
    /\ UNCHANGED <<cpsrv, cpnet, cpuse, cpleft>>

-----------------------------------------------------------------------------
(* Timers, answers and frames.                                             *)

DraftSaveFires ==
    /\ cp.slot # <<>>
    /\ cp' = Queue([cp EXCEPT !.slot = <<>>], cp.slot[1], "draft", cp.slot[2])
    /\ UNCHANGED <<cpsrv, cpnet, cpuse, cpleft>>

FilesSaveFires ==
    /\ cp.fslot # <<>>
    /\ cp' = Queue([cp EXCEPT !.fslot = <<>>], cp.fslot[1], "files", cp.fslot[2])
    /\ UNCHANGED <<cpsrv, cpnet, cpuse, cpleft>>

Served(ch) == [text |-> cpsrv.draft[ch], files |-> cpsrv.files[ch]]

Frame(kind, ch, rec) == [kind |-> kind, chat |-> ch, rec |-> rec]

(* The server's half of a save: it writes and broadcasts what moved. *)
SaveServed ==
    /\ \E ch \in Chats :
         /\ cp.out[ch] # <<>>
         /\ cp' = [cp EXCEPT !.out[ch] = Tail(@)]
         /\ LET r   == Head(cp.out[ch])
                new == IF r.kind = "draft" THEN [Served(ch) EXCEPT !.text = r.val]
                       ELSE [Served(ch) EXCEPT !.files = r.val]
            IN  IF ch \notin cpsrv.chats \/ new = Served(ch) THEN UNCHANGED <<cpsrv, cpnet>>
                ELSE /\ cpsrv' = [cpsrv EXCEPT !.draft[ch] = new.text, !.files[ch] = new.files]
                     /\ cpnet' = Append(cpnet, Frame("draft", ch, new))
    /\ UNCHANGED <<cpuse, cpleft>>

(* A save that fails is not retried and says nothing. *)
SaveLost ==
    /\ Spend("losses")
    /\ \E ch \in Chats : /\ cp.out[ch] # <<>>
                         /\ cp' = [cp EXCEPT !.out[ch] = Tail(@)]
                         /\ cpuse' = [cpuse EXCEPT ![ch] = Unset]
    /\ UNCHANGED <<cpsrv, cpnet>>

(* Another device writes a draft. *)
RemoteDraft ==
    /\ Spend("remotes")
    /\ \E ch \in cpsrv.chats :
         LET t == <<ch, RemoteText>>
         IN  /\ cpsrv.draft[ch] # t
             /\ cpsrv' = [cpsrv EXCEPT !.draft[ch] = t]
             /\ cpnet' = Append(cpnet, Frame("draft", ch, [Served(ch) EXCEPT !.text = t]))
             /\ cpuse' = [cpuse EXCEPT ![ch] = Unset]
    /\ UNCHANGED cp

(* Another device deletes a chat: its record and then its tab go under the *)
(* membership lock, so no other deletion's frame comes between the two.    *)
RemoteDelete ==
    /\ Spend("deletes")
    /\ \E ch \in cpsrv.chats :
         /\ cpsrv' = [cpsrv EXCEPT !.chats = @ \ {ch}, !.busy = @ \ {ch}]
         /\ cpnet' = cpnet \o <<Frame("gone", ch, Served(ch)), Frame("tab", ch, Served(ch))>>
         /\ cpuse' = [cpuse EXCEPT ![ch] = Unset]
    /\ UNCHANGED cp

(* draft_changed; chat_deleted, which drops the composer and the session   *)
(* and leaves retargeting to the tab; or the frame that closes this tab.   *)
(* If it was the one on show, a tab visited before it, of a chat or of     *)
(* something else, is shown in its place.                                  *)
FrameArrives ==
    /\ cpnet # <<>>
    /\ LET f == Head(cpnet)
           y == CloseChatTab(cp, f.chat)
       IN  \/ f.kind = "draft" /\ cp' = AdoptRemote(cp, f.chat, f.rec)
           \/ f.kind = "gone" /\ cp' = RemoveSession(DropComposer(cp, f.chat), f.chat)
           \/ f.kind = "tab" /\ cp' = y
           \/ /\ f.kind = "tab" /\ cp.live = NoChat
              /\ \E ch \in y.chats : cp' = ActivateChatView(y, ch)
    /\ cpnet' = Tail(cpnet)
    /\ UNCHANGED <<cpsrv, cpuse, cpleft>>

LoadServed ==
    /\ Len(cp.load) = 1
    /\ cp' = [cp EXCEPT !.load = Append(@, Served(cp.load[1]))]
    /\ UNCHANGED <<cpsrv, cpnet, cpuse, cpleft>>

(* The read counts only for the activation that asked for it. *)
LoadLands ==
    /\ Len(cp.load) = 2
    /\ LET ch == cp.load[1]
           x  == [cp EXCEPT !.load = <<>>]
       IN  cp' = IF cp.active # ch THEN x
                 ELSE [SeedComposer(x, ch, cp.load[2]) EXCEPT !.loaded = @ \cup {ch}]
    /\ UNCHANGED <<cpsrv, cpnet, cpuse, cpleft>>

Took(s) == {[chat |-> s.chat, text |-> s.text, id |-> s.id, kind |-> s.kind]}

Waiting(i) == /\ cp.sends[i].res = ""
              /\ \A j \in 1..(i - 1) : cp.sends[j].chat # cp.sends[i].chat

(* The server's half of a prompt or a steer.  Sends of a chat go one at a  *)
(* time.  What the server took it also broadcasts; its answer may be lost. *)
SendServed ==
    /\ \E i \in DOMAIN cp.sends :
         LET s == cp.sends[i]
             says(r) == cp' = [cp EXCEPT !.sends[i].res = r]
             takes == cpsrv' = [cpsrv EXCEPT !.took = @ \cup Took(s), !.busy = @ \cup {s.chat}]
             fails == s.chat \in FailChats /\ Spend("fails") /\ says("failed")
             open == s.chat \in cpsrv.chats
             busy == s.chat \in cpsrv.busy
         IN  /\ Waiting(i)
             /\ \/ /\ s.kind = "prompt" /\ ~open /\ says("gone")
                   /\ UNCHANGED <<cpsrv, cpleft>>
                \/ s.kind = "prompt" /\ open /\ busy /\ says("queued") /\ UNCHANGED <<cpsrv, cpleft>>
                \/ s.kind = "prompt" /\ open /\ ~busy /\ says("ok") /\ takes /\ UNCHANGED cpleft
                \/ s.kind = "prompt" /\ open /\ ~busy /\ fails /\ takes
                \/ s.kind = "steer" /\ ~busy /\ says("no_turn") /\ UNCHANGED <<cpsrv, cpleft>>
                \/ s.kind = "steer" /\ busy /\ says("ok") /\ takes /\ UNCHANGED cpleft
                \/ fails /\ UNCHANGED cpsrv
                \/ /\ s.chat \in FailChats /\ s.kind = "prompt" /\ open /\ Spend("fails")
                   /\ says("starting") /\ UNCHANGED cpsrv
    /\ UNCHANGED <<cpnet, cpuse>>

SendAnswered ==
    /\ \E i \in DOMAIN cp.sends :
         /\ cp.sends[i].res # ""
         /\ cp' = Answered(cp, i)
         /\ cpuse' = IF cp'.slot = cp.slot THEN cpuse
                     ELSE [ch \in Chats |-> IF ch = cp'.slot[1] \/ (cp.slot # <<>> /\ ch = cp.slot[1])
                                            THEN Unset ELSE cpuse[ch]]
    /\ UNCHANGED <<cpsrv, cpnet, cpleft>>

(* The turn_open of a prompt the server took reaches the transcript. *)
EchoArrives ==
    /\ \E m \in cpsrv.took :
         /\ m.kind = "prompt" /\ m \notin cp.known /\ m.chat \in cp.chats
         /\ cp' = [cp EXCEPT !.known = @ \cup {m}, !.thinking = @ \cup {m.chat}]
    /\ UNCHANGED <<cpsrv, cpnet, cpuse, cpleft>>

(* The turn ends, and its last frame says so. *)
TurnEnds ==
    /\ \E ch \in cpsrv.busy :
         /\ \A m \in cpsrv.took : m.chat = ch /\ m.kind = "prompt" => m \in cp.known \/ ch \notin cp.chats
         /\ cpsrv' = [cpsrv EXCEPT !.busy = @ \ {ch}]
         /\ cp' = [cp EXCEPT !.thinking = @ \ {ch}]
    /\ UNCHANGED <<cpnet, cpuse, cpleft>>

-----------------------------------------------------------------------------
(* A prompt of each chat from an earlier turn, if its transcript has one.   *)
Past == {m \in {[chat |-> ch, text |-> <<ch, 1>>, id |-> 0, kind |-> "prompt"] : ch \in Chats} : cpleft.past}

ComposerInit ==
    /\ cpleft \in ComposerScenarios
    /\ \E first \in Chats :
         cp = [live |-> first, active |-> first, box |-> Blank, chats |-> Chats,
               drafts |-> [ch \in Chats |-> IF ch = first THEN Blank ELSE Unset], slot |-> <<>>,
               row |-> {}, stash |-> [ch \in Chats |-> {}], touched |-> {first},
               gens |-> [ch \in Chats |-> 0], fslot |-> <<>>,
               out |-> [ch \in Chats |-> <<>>], load |-> <<>>, loaded |-> {first},
               thinking |-> {}, sends |-> <<>>, failed |-> NoFailure, minted |-> 0,
               known |-> Past, browse |-> [on |-> FALSE, kept |-> Blank, at |-> NoChat],
               edit |-> <<>>]
    /\ cpsrv = [chats |-> Chats, draft |-> [ch \in Chats |-> Blank],
                files |-> [ch \in Chats |-> {}], busy |-> {}, took |-> {}]
    /\ cpnet = <<>>
    /\ cpuse = [ch \in Chats |-> Blank]

ComposerNext ==
    \/ Type \/ Recall \/ StopBrowsing \/ Submit \/ AttachFile \/ RemoveFile
    \/ ShowChat \/ CloseChat \/ TakeBack \/ EditAnswered \/ Blur
    \/ DraftSaveFires \/ FilesSaveFires \/ SaveServed \/ SaveLost
    \/ RemoteDraft \/ RemoteDelete \/ FrameArrives \/ LoadServed \/ LoadLands
    \/ SendServed \/ SendAnswered \/ EchoArrives \/ TurnEnds

ComposerSpec == ComposerInit /\ [][ComposerNext]_cpvars

-----------------------------------------------------------------------------
(* Properties.                                                             *)

OwnText(ch, t) == t \in {Blank, Unset} \/ t[1] = ch

(* NoBleed: no chat's words or files end up in another chat, on screen, in *)
(* its draft, in a save, on the server or in a prompt, whatever the user   *)
(* switches, closes or browses while sends and saves are out.              *)
NoBleed ==
    /\ cp.live # NoChat => OwnText(cp.live, cp.box) /\ cp.row \subseteq {cp.live}
    /\ \A ch \in Chats :
         /\ OwnText(ch, cp.drafts[ch]) /\ OwnText(ch, cpsrv.draft[ch])
         /\ cp.stash[ch] \subseteq {ch} /\ cpsrv.files[ch] \subseteq {ch}
         /\ \A r \in Range(cp.out[ch]) :
              IF r.kind = "draft" THEN OwnText(ch, r.val) ELSE r.val \subseteq {ch}
    /\ \A m \in cpsrv.took : OwnText(m.chat, m.text)

Quiet == /\ cp.slot = <<>> /\ cp.fslot = <<>> /\ cp.sends = <<>> /\ cp.load = <<>> /\ cp.edit = <<>>
         /\ \A ch \in Chats : cp.out[ch] = <<>>

(* LatestSaved: once nothing is owed, the server's draft of every chat is  *)
(* the last text this device wrote there: no switch, close, refused edit   *)
(* or second chat's save drops one.  Not after another device wrote there, *)
(* a save was lost, a text was handed back to the chat, or a hand-back to  *)
(* another took the one debounce slot from this chat's text: not until a   *)
(* text that differs from the draft, for noteComposerText saves no other.  *)
LatestSaved ==
    Quiet => \A ch \in cpsrv.chats : cpuse[ch] = Unset \/ cpsrv.draft[ch] = cpuse[ch]

=============================================================================
