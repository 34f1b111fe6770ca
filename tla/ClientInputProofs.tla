------------------------- MODULE ClientInputProofs -------------------------
(***************************************************************************)
(* What the user writes, in any number of chats, a run that is looked on   *)
(* at, and the turns that are jumped to.  The composer: no chat's words or *)
(* files end up in another chat (ClientComposer).  The dock: a steer the   *)
(* transcript shows as read stays out of it (ClientSteers).  The run: once *)
(* nothing more is on its way, what is shown of it is what the server says *)
(* (ClientRuns).  The rail: the scroller goes where the last jump asked it *)
(* to (ClientRail).  The place: whoever reads stays where they read        *)
(* (ClientReader).                                                         *)
(*                                                                         *)
(* NoBleed is not inductive: what is in the box and the drafts also comes  *)
(* from the saves that wait, the sends out, the reads, the prompts past,   *)
(* the frames and an edit on its way, and each must be its own chat's;     *)
(* and a chat may be shown without a composer only while the frame that    *)
(* closes its predecessor's tab is the next.  Nor is ReadStaysRead: a      *)
(* pending row is let off, and becomes a confirmed one when its answer     *)
(* comes.  RowHolds says what is true of pending rows too: the batch id a  *)
(* row will be read under has not been read yet.  RunCatchesUp says what   *)
(* holds at rest: Holds says how far what is cached may be from the run    *)
(* while frames, reads and retries are out, and that one will tell.        *)
(* LandsAsAsked rests on what a generation means: a jump of the rail's own *)
(* generation is the last one asked for, of the chat that is shown.        *)
(* ReaderKept rests on the measure of a page that is out: the height it    *)
(* was asked at is still the transcript's, or is known not to be.          *)
(***************************************************************************)
EXTENDS ClientComposer, ClientSteers, ClientRuns, ClientRail, ClientReader, SequenceFacts, FiniteSetTheorems

----------------------------------------------------------------------------
(* The composer.                                                           *)

CpFields == {"live", "active", "box", "chats", "drafts", "slot", "row", "stash", "touched", "gens",
             "fslot", "out", "load", "loaded", "thinking", "sends", "failed", "minted", "known",
             "browse", "edit"}

SendFields == {"chat", "text", "files", "gen", "id", "kind", "budget", "res"}

Results == {"", "ok", "queued", "no_turn", "starting", "gone", "failed"}

\* A record, as far as it matters which fields it has; a function of the chats.
Has(x, fields) == x = [k \in fields |-> x[k]]
OnChats(f) == f = [ch \in Chats |-> f[ch]]

DraftsFit(drafts) == OnChats(drafts) /\ \A ch \in Chats : OwnText(ch, drafts[ch])
FilesFit(stash) == OnChats(stash) /\ \A ch \in Chats : stash[ch] \subseteq {ch}

\* The texts and files that wait for a save, and the saves out.
SlotFits(slot) == slot # <<>> => slot[1] \in Chats /\ OwnText(slot[1], slot[2])
DueFits(fslot) == fslot # <<>> => fslot[1] \in Chats /\ fslot[2] \subseteq {fslot[1]}
SaveFits(ch, r) == IF r.kind = "draft" THEN OwnText(ch, r.val) ELSE r.val \subseteq {ch}
OutFits(out) ==
    /\ OnChats(out)
    /\ \A ch \in Chats : \E S : out[ch] \in Seq(S) /\ \A r \in S : SaveFits(ch, r)

\* The sends out, each of a chat's own text and files.
SendFits(s) ==
    /\ Has(s, SendFields) /\ s.chat \in Chats /\ OwnText(s.chat, s.text) /\ s.files \subseteq {s.chat}
    /\ s.budget \in Nat /\ s.res \in Results
SendsFit(sends) == \E S : sends \in Seq(S) /\ \A s \in S : SendFits(s)

\* A chat's record as it is read or broadcast, and a read of it.
RecFits(ch, rec) == OwnText(ch, rec.text) /\ rec.files \subseteq {ch}
LoadFits(load) ==
    \/ load = <<>>
    \/ \E ch \in Chats : load = <<ch>>
    \/ \E ch \in Chats : \E rec : load = <<ch, rec>> /\ RecFits(ch, rec)

KnownFits(known) == \A m \in known : OwnText(m.chat, m.text)
BrowseFits(b) == Has(b, {"on", "kept", "at"}) /\ (b.on /\ b.at # NoChat => OwnText(b.at, b.kept))
EditFits(edit) == edit # <<>> => edit[1].chat \in Chats /\ OwnText(edit[1].chat, edit[1].before)
RowFits(live, row) == live \in Chats \cup {NoChat} /\ row \subseteq {live} \ {NoChat}

\* What is kept for each chat is the chat's.
Kept(x) ==
    /\ Has(x, CpFields) /\ x.chats \subseteq Chats
    /\ DraftsFit(x.drafts) /\ FilesFit(x.stash) /\ SlotFits(x.slot) /\ DueFits(x.fslot) /\ OutFits(x.out)
    /\ SendsFit(x.sends) /\ LoadFits(x.load) /\ KnownFits(x.known) /\ BrowseFits(x.browse)
    /\ EditFits(x.edit) /\ RowFits(x.live, x.row)

\* The box is the active chat's, and so is the composer unless that chat was just deleted.
Shown(x) ==
    /\ x.active \in Chats \cup {NoChat} /\ x.live \in {NoChat, x.active}
    /\ x.active # NoChat => OwnText(x.active, x.box)

\* What is in view is the same.
Same(x, y) == y.live = x.live /\ y.active = x.active /\ y.box = x.box /\ y.chats = x.chats

----------------------------------------------------------------------------
\* The parts, one change at a time.

\* A chat's draft changes to a text of its own.
LEMMA DraftSet ==
  ASSUME NEW drafts, DraftsFit(drafts), NEW ch \in Chats, NEW t, OwnText(ch, t)
  PROVE  DraftsFit([drafts EXCEPT ![ch] = t])
BY DEF DraftsFit, OnChats

\* A chat's draft as it is read is its own.
LEMMA DraftIsOwn ==
  ASSUME NEW x, DraftsFit(x.drafts), NEW ch \in Chats
  PROVE  OwnText(ch, DraftOf(x, ch))
BY DEF DraftsFit, DraftOf, OwnText

\* A chat's files in the stash change to its own.
LEMMA FilesSet ==
  ASSUME NEW stash, FilesFit(stash), NEW ch \in Chats, NEW files, files \subseteq {ch}
  PROVE  FilesFit([stash EXCEPT ![ch] = files])
BY DEF FilesFit, OnChats

\* A save of a chat's own joins those out.
LEMMA OutAppend ==
  ASSUME NEW out, OutFits(out), NEW ch \in Chats, NEW r, SaveFits(ch, r)
  PROVE  OutFits([out EXCEPT ![ch] = Append(@, r)])
<1> DEFINE new == [out EXCEPT ![ch] = Append(@, r)]
<1>1. OnChats(new)
  BY DEF OutFits, OnChats
<1>2. ASSUME NEW c \in Chats
      PROVE  \E S : new[c] \in Seq(S) /\ \A q \in S : SaveFits(c, q)
  <2>1. PICK S : out[c] \in Seq(S) /\ \A q \in S : SaveFits(c, q)
    BY DEF OutFits
  <2>2. CASE c # ch
    BY <2>1, <2>2 DEF OutFits, OnChats
  <2>3. CASE c = ch
    <3>1. new[c] = Append(out[c], r)
      BY <2>3 DEF OutFits, OnChats
    <3>2. Append(out[c], r) \in Seq(S \cup {r})
      BY <2>1
    <3>3. \A q \in S \cup {r} : SaveFits(c, q)
      BY <2>1, <2>3
    <3>4. QED
      BY <3>1, <3>2, <3>3
  <2>4. QED
    BY <2>2, <2>3
<1>3. QED
  BY <1>1, <1>2 DEF OutFits

\* A save of a chat is served or lost.
LEMMA OutTail ==
  ASSUME NEW out, OutFits(out), NEW ch \in Chats, out[ch] # <<>>
  PROVE  OutFits([out EXCEPT ![ch] = Tail(@)]) /\ SaveFits(ch, Head(out[ch]))
<1> DEFINE new == [out EXCEPT ![ch] = Tail(@)]
<1>1. OnChats(new)
  BY DEF OutFits, OnChats
<1>2. ASSUME NEW c \in Chats
      PROVE  \E S : new[c] \in Seq(S) /\ \A q \in S : SaveFits(c, q)
  <2>1. PICK S : out[c] \in Seq(S) /\ \A q \in S : SaveFits(c, q)
    BY DEF OutFits
  <2>2. CASE c # ch
    BY <2>1, <2>2 DEF OutFits, OnChats
  <2>3. CASE c = ch
    <3>1. new[c] = Tail(out[c])
      BY <2>3 DEF OutFits, OnChats
    <3>2. Tail(out[c]) \in Seq(S)
      BY <2>1, <2>3
    <3>3. QED
      BY <2>1, <3>1, <3>2
  <2>4. QED
    BY <2>2, <2>3
<1>3. SaveFits(ch, Head(out[ch]))
  <2>1. PICK S : out[ch] \in Seq(S) /\ \A q \in S : SaveFits(ch, q)
    BY DEF OutFits
  <2>2. Head(out[ch]) \in S
    BY <2>1
  <2>3. QED
    BY <2>1, <2>2
<1>4. QED
  BY <1>1, <1>2, <1>3 DEF OutFits

\* A send starts.
LEMMA SendsAppend ==
  ASSUME NEW sends, SendsFit(sends), NEW s, SendFits(s)
  PROVE  SendsFit(Append(sends, s))
<1>1. PICK S : sends \in Seq(S) /\ \A q \in S : SendFits(q)
  BY DEF SendsFit
<1>2. Append(sends, s) \in Seq(S \cup {s})
  BY <1>1
<1>3. QED
  BY <1>1, <1>2 DEF SendsFit

\* A send that is answered leaves the others as they were.
LEMMA SendsRemove ==
  ASSUME NEW sends, SendsFit(sends), NEW i \in DOMAIN sends
  PROVE  SendsFit(RemoveAt(sends, i)) /\ SendFits(sends[i])
<1>1. PICK S : sends \in Seq(S) /\ \A q \in S : SendFits(q)
  BY DEF SendsFit
<1>2. i \in 1..Len(sends) /\ Len(sends) \in Nat
  BY <1>1
<1>3. SubSeq(sends, 1, i - 1) \in Seq(S) /\ SubSeq(sends, i + 1, Len(sends)) \in Seq(S)
  BY <1>1, <1>2
<1>4. RemoveAt(sends, i) \in Seq(S)
  BY <1>3 DEF RemoveAt
<1>5. QED
  BY <1>1, <1>2, <1>4 DEF SendsFit

\* The server's half of a send gives it a result.
LEMMA SendsServed ==
  ASSUME NEW sends, SendsFit(sends), NEW i \in DOMAIN sends, NEW r \in Results
  PROVE  SendsFit([sends EXCEPT ![i].res = r])
<1>1. PICK S : sends \in Seq(S) /\ \A q \in S : SendFits(q)
  BY DEF SendsFit
<1> DEFINE s == [sends[i] EXCEPT !.res = r]
<1>2. SendFits(sends[i])
  BY <1>1
<1>3. SendFits(s)
  BY <1>2 DEF SendFits, Has, SendFields
<1>4. [sends EXCEPT ![i] = s] \in Seq(S \cup {s})
  BY <1>1
<1>5. [sends EXCEPT ![i].res = r] = [sends EXCEPT ![i] = s]
  OBVIOUS
<1>6. QED
  BY <1>1, <1>3, <1>4, <1>5 DEF SendsFit

----------------------------------------------------------------------------
\* The text half.

\* A save of a chat's own goes out.
LEMMA QueueKept ==
  ASSUME NEW x, Kept(x), NEW ch \in Chats, NEW kind, NEW val,
         IF kind = "draft" THEN OwnText(ch, val) ELSE val \subseteq {ch}
  PROVE  Kept(Queue(x, ch, kind, val)) /\ Same(x, Queue(x, ch, kind, val))
         /\ Queue(x, ch, kind, val).row = x.row
<1> DEFINE r == [kind |-> kind, val |-> val]
           g == Queue(x, ch, kind, val)
<1>1. SaveFits(ch, r)
  BY DEF SaveFits
<1>2. OutFits([x.out EXCEPT ![ch] = Append(@, r)])
  BY <1>1, OutAppend DEF Kept
<1>3. Has(x, CpFields)
  BY DEF Kept
<1>4. g = [x EXCEPT !.out = [x.out EXCEPT ![ch] = Append(@, r)]]
  BY <1>3 DEF Queue
<1>5. QED
  BY <1>2, <1>3, <1>4 DEF Kept, Has, CpFields, Same

\* What a keystroke does, where it is the live chat's.
LEMMA NoteTextKept ==
  ASSUME NEW x, Kept(x), NEW t, x.live # NoChat => OwnText(x.live, t)
  PROVE  Kept(NoteText(x, t)) /\ Same(x, NoteText(x, t))
<1>1. CASE x.live = NoChat \/ x.drafts[x.live] = t
  BY <1>1 DEF NoteText, Same
<1>2. CASE ~(x.live = NoChat \/ x.drafts[x.live] = t)
  <2>1. x.live \in Chats /\ Has(x, CpFields)
    BY <1>2 DEF Kept, RowFits
  <2>2. DraftsFit([x.drafts EXCEPT ![x.live] = t])
    BY <1>2, <2>1, DraftSet DEF Kept
  <2>3. SlotFits(<<x.live, t>>)
    BY <1>2, <2>1 DEF SlotFits
  <2>4. NoteText(x, t) = [x EXCEPT !.drafts = [x.drafts EXCEPT ![x.live] = t], !.slot = <<x.live, t>>]
    BY <1>2, <2>1 DEF NoteText
  <2>5. QED
    BY <2>1, <2>2, <2>3, <2>4 DEF Kept, Has, CpFields, Same
<1>3. QED
  BY <1>1, <1>2

\* The draft that waits goes out.
LEMMA FlushDraftKept ==
  ASSUME NEW x, Kept(x)
  PROVE  Kept(FlushDraft(x)) /\ Same(x, FlushDraft(x)) /\ FlushDraft(x).row = x.row
<1>1. CASE x.live = NoChat \/ x.slot = <<>>
  BY <1>1 DEF FlushDraft, Same
<1>2. CASE ~(x.live = NoChat \/ x.slot = <<>>)
  <2> DEFINE y == [x EXCEPT !.slot = <<>>]
  <2>1. x.live \in Chats /\ Has(x, CpFields)
    BY <1>2 DEF Kept, RowFits
  <2>2. Kept(y) /\ Same(x, y) /\ y.row = x.row
    BY <2>1 DEF Kept, Has, CpFields, Same, SlotFits
  <2>3. OwnText(x.live, DraftOf(x, x.live))
    BY <2>1, DraftIsOwn DEF Kept
  <2>4. FlushDraft(x) = Queue(y, x.live, "draft", DraftOf(x, x.live))
    BY <1>2 DEF FlushDraft
  <2> HIDE DEF y
  <2>5. QED
    BY <2>1, <2>2, <2>3, <2>4, QueueKept DEF Same
<1>3. QED
  BY <1>1, <1>2

\* The files that wait go out.
LEMMA FlushFilesKept ==
  ASSUME NEW x, Kept(x)
  PROVE  Kept(FlushFiles(x)) /\ Same(x, FlushFiles(x)) /\ FlushFiles(x).row = x.row
<1>1. CASE x.live = NoChat \/ x.fslot = <<>>
  BY <1>1 DEF FlushFiles, Same
<1>2. CASE ~(x.live = NoChat \/ x.fslot = <<>>)
  <2> DEFINE y == [x EXCEPT !.fslot = <<>>]
  <2>1. x.live \in Chats /\ Has(x, CpFields) /\ x.row \subseteq {x.live}
    BY <1>2 DEF Kept, RowFits
  <2>2. Kept(y) /\ Same(x, y) /\ y.row = x.row
    BY <2>1 DEF Kept, Has, CpFields, Same, DueFits
  <2>4. FlushFiles(x) = Queue(y, x.live, "files", x.row)
    BY <1>2 DEF FlushFiles
  <2> HIDE DEF y
  <2>5. QED
    BY <2>1, <2>2, <2>4, QueueKept DEF Same
<1>3. QED
  BY <1>1, <1>2

\* The composer lets go of its chat: the row goes back into the chat's stash.
LEMMA SaveComposerKept ==
  ASSUME NEW x, Kept(x)
  PROVE  /\ Kept(SaveComposer(x)) /\ SaveComposer(x).live = NoChat
         /\ SaveComposer(x).active = x.active /\ SaveComposer(x).chats = x.chats
<1> DEFINE y == FlushDraft(x)
           kept == IF y.live = NoChat THEN y ELSE [y EXCEPT !.stash[y.live] = y.row]
           z == FlushFiles(kept)
<1>1. Kept(y) /\ Same(x, y)
  BY FlushDraftKept
<1>2. SaveComposer(x) = [z EXCEPT !.live = NoChat, !.row = {}]
  BY DEF SaveComposer, StashFiles
<1> HIDE DEF y
<1>3. Kept(kept) /\ Same(y, kept)
  <2>1. CASE y.live = NoChat
    BY <2>1, <1>1 DEF Same
  <2>2. CASE y.live # NoChat
    <3>1. y.live \in Chats /\ y.row \subseteq {y.live} /\ Has(y, CpFields)
      BY <2>2, <1>1 DEF Kept, RowFits
    <3>2. FilesFit([y.stash EXCEPT ![y.live] = y.row])
      BY <1>1, <3>1, FilesSet DEF Kept
    <3>3. kept = [y EXCEPT !.stash = [y.stash EXCEPT ![y.live] = y.row]]
      BY <2>2, <3>1
    <3>4. QED
      BY <1>1, <3>1, <3>2, <3>3 DEF Kept, Has, CpFields, Same
  <2>3. QED
    BY <2>1, <2>2
<1> HIDE DEF kept
<1>4. Kept(z) /\ Same(kept, z)
  BY <1>3, FlushFilesKept
<1> HIDE DEF z
<1>5. QED
  BY <1>1, <1>2, <1>3, <1>4 DEF Kept, Has, CpFields, Same, RowFits

\* The composer takes a chat, or none.
LEMMA RestoreComposerKept ==
  ASSUME NEW x, Kept(x), NEW ch \in Chats \cup {NoChat}
  PROVE  LET g == RestoreComposer(x, ch)
         IN  /\ Kept(g) /\ g.live = ch /\ g.active = x.active /\ g.chats = x.chats
             /\ ch # NoChat => OwnText(ch, g.box)
<1> DEFINE g == RestoreComposer(x, ch)
<1>1. Has(x, CpFields)
  BY DEF Kept
<1>2. CASE ch = NoChat
  <2>1. g = [x EXCEPT !.live = NoChat, !.box = Blank, !.row = {}]
    BY <1>2 DEF RestoreComposer
  <2>2. QED
    BY <1>1, <1>2, <2>1 DEF Kept, Has, CpFields, RowFits
<1>3. CASE ch # NoChat
  <2>1. ch \in Chats /\ OwnText(ch, DraftOf(x, ch))
    BY <1>3, DraftIsOwn DEF Kept
  <2>2. g = [x EXCEPT !.live = ch, !.box = DraftOf(x, ch), !.row = x.stash[ch],
                      !.stash = [x.stash EXCEPT ![ch] = {}]]
    BY <1>1, <1>3 DEF RestoreComposer
  <2>3. FilesFit([x.stash EXCEPT ![ch] = {}])
    BY <2>1, FilesSet DEF Kept
  <2>4. RowFits(ch, x.stash[ch])
    BY <1>3, <2>1 DEF Kept, FilesFit, RowFits
  <2>5. QED
    BY <1>1, <2>1, <2>2, <2>3, <2>4 DEF Kept, Has, CpFields
<1>4. QED
  BY <1>2, <1>3

\* The composer moves to another chat.
LEMMA RetargetKept ==
  ASSUME NEW x, Kept(x), NEW ch \in Chats \cup {NoChat}
  PROVE  LET g == Retarget(x, ch)
         IN  /\ Kept(g) /\ g.live = ch /\ g.active = x.active /\ g.chats = x.chats
             /\ ch # NoChat => OwnText(ch, g.box)
BY SaveComposerKept, RestoreComposerKept DEF Retarget

\* A chat is shown.
LEMMA ActivateKept ==
  ASSUME NEW x, Kept(x), NEW ch \in Chats
  PROVE  LET g == ActivateChatView(x, ch)
         IN  Kept(g) /\ Shown(g) /\ g.live = ch /\ g.active = ch
<1> DEFINE y == Retarget(x, ch)
           load == IF ch \in x.loaded THEN <<>> ELSE <<ch>>
<1>1. Kept(y) /\ y.live = ch /\ (ch # NoChat => OwnText(ch, y.box))
  BY RetargetKept
<1>2. ActivateChatView(x, ch) = [y EXCEPT !.active = ch, !.load = load]
  BY DEF ActivateChatView
<1> HIDE DEF y
<1>3. LoadFits(load)
  BY DEF LoadFits
<1> HIDE DEF load
<1>4. QED
  BY <1>1, <1>2, <1>3 DEF Kept, Has, CpFields, Shown

\* A chat is forgotten; if it was the live one, there is none and the box is empty.
LEMMA DropKept ==
  ASSUME NEW x, Kept(x), NEW ch \in Chats
  PROVE  LET g == DropComposer(x, ch)
         IN  /\ Kept(g) /\ g.active = x.active /\ g.chats = x.chats
             /\ IF ch = x.live THEN g.live = NoChat /\ g.box = Blank
                ELSE g.live = x.live /\ g.box = x.box
<1> DEFINE drafts == [x.drafts EXCEPT ![ch] = Unset]
           stash == [x.stash EXCEPT ![ch] = {}]
           touched == x.touched \ {ch}
           gens == [x.gens EXCEPT ![ch] = @ + 1]
           gone == [x EXCEPT !.drafts = drafts, !.stash = stash, !.touched = touched, !.gens = gens]
           g == DropComposer(x, ch)
<1>1. Has(x, CpFields)
  BY DEF Kept
<1>2. DraftsFit(drafts) /\ FilesFit(stash)
  BY DraftSet, FilesSet DEF Kept, OwnText
<1>3. g = IF ch = x.live THEN [gone EXCEPT !.live = NoChat, !.row = {}, !.box = Blank] ELSE gone
  BY <1>1 DEF DropComposer
<1> HIDE DEF drafts, stash, touched, gens
<1>4. Kept(gone) /\ Same(x, gone)
  BY <1>1, <1>2 DEF Kept, Has, CpFields, Same
<1> HIDE DEF gone
<1>5. CASE ch = x.live
  <2> DEFINE h == [gone EXCEPT !.live = NoChat, !.row = {}, !.box = Blank]
  <2>1. g = h
    BY <1>3, <1>5
  <2>2. Kept(h) /\ h.live = NoChat /\ h.box = Blank /\ h.active = gone.active /\ h.chats = gone.chats
    BY <1>4 DEF Kept, Has, CpFields, RowFits
  <2> HIDE DEF g, h
  <2>3. Kept(g) /\ g.live = NoChat /\ g.box = Blank /\ g.active = x.active /\ g.chats = x.chats
    BY <1>4, <2>1, <2>2 DEF Same
  <2>4. QED
    BY <1>5, <2>3 DEF g
<1>6. CASE ch # x.live
  BY <1>3, <1>4, <1>6 DEF Same
<1>7. QED
  BY <1>5, <1>6

\* The store forgets a chat, and shows another if that one was shown.
LEMMA RemoveSessionKept ==
  ASSUME NEW x, Kept(x), NEW ch \in Chats, x.active \in Chats \cup {NoChat}
  PROVE  LET g == RemoveSession(x, ch)
         IN  /\ Kept(g) /\ g.live = x.live /\ g.box = x.box /\ g.active \in Chats \cup {NoChat}
             /\ x.active # ch => g.active = x.active
<1> DEFINE left == x.chats \ {ch}
           known == {m \in x.known : m.chat # ch}
           active == IF x.active # ch THEN x.active
                     ELSE IF left = {} THEN NoChat ELSE CHOOSE n \in left : TRUE
           g == RemoveSession(x, ch)
<1>1. Has(x, CpFields) /\ left \subseteq Chats
  BY DEF Kept
<1>2. g = [x EXCEPT !.chats = left, !.known = known, !.active = active]
  BY <1>1 DEF RemoveSession
<1>3. active \in Chats \cup {NoChat} /\ (x.active # ch => active = x.active)
  <2>1. left # {} => (CHOOSE n \in left : TRUE) \in left
    OBVIOUS
  <2>2. QED
    BY <1>1, <2>1
<1>4. KnownFits(known)
  BY DEF Kept, KnownFits
<1> HIDE DEF left, known, active
<1> DEFINE h == [x EXCEPT !.chats = left, !.known = known, !.active = active]
<1>5. Kept(h) /\ h.live = x.live /\ h.box = x.box /\ h.active = active
  BY <1>1, <1>4 DEF Kept, Has, CpFields
<1> HIDE DEF g, h
<1>6. Kept(g) /\ g.live = x.live /\ g.box = x.box /\ g.active = active
  BY <1>2, <1>5 DEF h
<1>7. QED
  BY <1>3, <1>6 DEF g

\* Closing a chat's tab leaves the composer with the store's active chat.
LEMMA CloseTabKept ==
  ASSUME NEW x, Kept(x), NEW ch \in Chats, x.active \in Chats \cup {NoChat}
  PROVE  LET g == CloseChatTab(x, ch)
         IN  Kept(g) /\ Shown(g) /\ g.live = g.active
<1> DEFINE a == FlushDraft(x)
           b == RemoveSession(a, ch)
           y == DropComposer(b, ch)
           r == Retarget(y, y.active)
           load == IF r.load = <<ch>> THEN <<>> ELSE r.load
<1>1. Kept(a) /\ Same(x, a)
  BY FlushDraftKept
<1>2. CloseChatTab(x, ch) = [r EXCEPT !.load = IF r.load = <<ch>> THEN <<>> ELSE r.load]
  BY DEF CloseChatTab
<1> HIDE DEF a
<1>3. Kept(b) /\ b.active \in Chats \cup {NoChat}
  BY <1>1, RemoveSessionKept DEF Same
<1> HIDE DEF b
<1>4. Kept(y) /\ y.active = b.active
  BY <1>3, DropKept
<1> HIDE DEF y
<1>5. Kept(r) /\ r.live = y.active /\ r.active = y.active /\ (y.active # NoChat => OwnText(y.active, r.box))
  BY <1>3, <1>4, RetargetKept
<1> HIDE DEF r
<1>6. LoadFits(load)
  BY <1>5 DEF Kept, LoadFits
<1>7. CloseChatTab(x, ch) = [r EXCEPT !.load = load]
  BY <1>2
<1> HIDE DEF load
<1>8. QED
  BY <1>3, <1>4, <1>5, <1>6, <1>7 DEF Kept, Has, CpFields, Shown

\* A failed send's text goes back to its own chat.
LEMMA RestoreFailedKept ==
  ASSUME NEW x, Kept(x), NEW ch \in Chats, NEW t, OwnText(ch, t)
  PROVE  LET g == RestoreFailedSend(x, ch, t)
         IN  /\ Kept(g) /\ g.live = x.live /\ g.active = x.active
             /\ (g.box = x.box \/ (ch = x.live /\ g.box = t))
<1> DEFINE g == RestoreFailedSend(x, ch, t)
           box == IF ch = x.live /\ x.box = Blank THEN t ELSE x.box
<1>1. Has(x, CpFields)
  BY DEF Kept
<1>2. CASE DraftOf(x, ch) # Blank
  BY <1>2 DEF RestoreFailedSend
<1>3. CASE DraftOf(x, ch) = Blank
  <2>1. g = [x EXCEPT !.drafts = [x.drafts EXCEPT ![ch] = t], !.slot = <<ch, t>>, !.box = box]
    BY <1>1, <1>3 DEF RestoreFailedSend
  <2>2. DraftsFit([x.drafts EXCEPT ![ch] = t]) /\ SlotFits(<<ch, t>>)
    BY DraftSet DEF Kept, SlotFits
  <2>3. box = x.box \/ (ch = x.live /\ box = t)
    OBVIOUS
  <2> HIDE DEF box
  <2>4. QED
    BY <1>1, <2>1, <2>2, <2>3 DEF Kept, Has, CpFields
<1>4. QED
  BY <1>2, <1>3

\* A refused Edit is undone with the text its own chat had.
LEMMA RestoreEditKept ==
  ASSUME NEW x, Kept(x), NEW e, e.chat \in Chats, OwnText(e.chat, e.before)
  PROVE  LET g == RestoreRefusedEdit(x, e)
         IN  /\ Kept(g) /\ g.live = x.live /\ g.active = x.active
             /\ (g.box = x.box \/ (e.chat = x.live /\ g.box = e.before))
<1> DEFINE g == RestoreRefusedEdit(x, e)
           drafts == [x.drafts EXCEPT ![e.chat] = e.before]
           back == [x EXCEPT !.drafts = drafts]
           box == IF x.box = e.taken THEN e.before ELSE x.box
<1>1. Has(x, CpFields) /\ DraftsFit(drafts)
  BY DraftSet DEF Kept
<1>2. CASE x.drafts[e.chat] # e.taken
  BY <1>2 DEF RestoreRefusedEdit
<1>3. back = [x EXCEPT !.drafts[e.chat] = e.before]
  BY <1>1
<1> HIDE DEF drafts
<1>4. Kept(back) /\ Same(x, back)
  BY <1>1 DEF Kept, Has, CpFields, Same
<1>5. CASE x.drafts[e.chat] = e.taken /\ e.chat = x.live
  <2>1. g = [back EXCEPT !.slot = <<e.chat, e.before>>, !.box = IF back.box = e.taken THEN e.before ELSE back.box]
    BY <1>3, <1>5 DEF RestoreRefusedEdit
  <2>2. SlotFits(<<e.chat, e.before>>)
    BY DEF SlotFits
  <2>3. g = [back EXCEPT !.slot = <<e.chat, e.before>>, !.box = box]
    BY <1>4, <2>1 DEF Same
  <2>4. box = x.box \/ box = e.before
    OBVIOUS
  <2> HIDE DEF back, box
  <2>5. QED
    BY <1>4, <1>5, <2>2, <2>3, <2>4 DEF Kept, Has, CpFields, Same
<1>6. CASE x.drafts[e.chat] = e.taken /\ e.chat # x.live
  <2> DEFINE y == FlushDraft(back)
             z == [y EXCEPT !.slot = <<>>]
  <2>1. g = Queue(z, e.chat, "draft", e.before)
    BY <1>3, <1>6 DEF RestoreRefusedEdit
  <2> HIDE DEF back
  <2>2. Kept(y) /\ Same(back, y)
    BY <1>4, FlushDraftKept
  <2> HIDE DEF y
  <2>3. Kept(z) /\ Same(y, z)
    BY <2>2 DEF Kept, Has, CpFields, Same, SlotFits
  <2> HIDE DEF z
  <2>4. Kept(g) /\ Same(z, g)
    BY <2>1, <2>3, QueueKept
  <2>5. QED
    BY <1>4, <2>2, <2>3, <2>4 DEF Same
<1>7. QED
  BY <1>2, <1>5, <1>6

\* A record's files and draft are adopted for their own chat.
LEMMA SeedKept ==
  ASSUME NEW x, Kept(x), NEW ch \in Chats, NEW rec, RecFits(ch, rec)
  PROVE  LET g == SeedComposer(x, ch, rec)
         IN  /\ Kept(g) /\ g.live = x.live /\ g.active = x.active
             /\ (g.box = x.box \/ (ch = x.live /\ g.box = rec.text))
<1> DEFINE s == SeedFiles(x, ch, rec.files)
           touched == x.touched \cup {ch}
           t == [x EXCEPT !.touched = touched]
           g == SeedComposer(x, ch, rec)
<1>1. Has(x, CpFields)
  BY DEF Kept
<1>2. Kept(t) /\ Same(x, t) /\ t.row = x.row
  <2> HIDE DEF touched
  <2>1. QED
    BY <1>1 DEF Kept, Has, CpFields, Same
<1>3. Kept(s) /\ Same(x, s)
  <2>1. CASE ch \in x.touched
    BY <2>1 DEF SeedFiles, Same
  <2>2. CASE ch \notin x.touched /\ (rec.files = {} \/ (ch = x.live /\ x.row # {}))
    <3>1. s = t
      BY <1>2, <2>2 DEF SeedFiles, Same
    <3>2. QED
      BY <1>2, <3>1
  <2>3. CASE ch \notin x.touched /\ rec.files # {} /\ ch # x.live
    <3>1. s = [t EXCEPT !.stash[ch] = rec.files]
      BY <1>2, <2>3 DEF SeedFiles, Same
    <3> HIDE DEF t
    <3>2. FilesFit([t.stash EXCEPT ![ch] = rec.files])
      BY <1>2, FilesSet DEF Kept, RecFits
    <3>3. s = [t EXCEPT !.stash = [t.stash EXCEPT ![ch] = rec.files]]
      BY <3>1
    <3>4. QED
      BY <1>2, <3>2, <3>3 DEF Kept, Has, CpFields, Same
  <2>4. CASE ch \notin x.touched /\ rec.files # {} /\ ch = x.live /\ x.row = {}
    <3>1. s = [t EXCEPT !.row = rec.files]
      BY <1>2, <2>4 DEF SeedFiles, Same
    <3> HIDE DEF t
    <3>2. RowFits(t.live, rec.files)
      BY <1>2, <2>4, ChatsAssumption DEF RecFits, RowFits, Same
    <3>3. QED
      BY <1>2, <3>1, <3>2 DEF Kept, Has, CpFields, Same
  <2>5. QED
    BY <2>1, <2>2, <2>3, <2>4
<1>4. g = IF s.drafts[ch] # Unset THEN s
          ELSE [s EXCEPT !.drafts[ch] = rec.text,
                         !.box = IF ch = s.live /\ s.box = Blank THEN rec.text ELSE s.box]
  BY DEF SeedComposer
<1> HIDE DEF s
<1>5. CASE s.drafts[ch] # Unset
  BY <1>3, <1>4, <1>5 DEF Same
<1>6. CASE s.drafts[ch] = Unset
  <2> DEFINE box == IF ch = s.live /\ s.box = Blank THEN rec.text ELSE s.box
  <2>1. g = [s EXCEPT !.drafts = [s.drafts EXCEPT ![ch] = rec.text], !.box = box]
    BY <1>3, <1>4, <1>6 DEF Kept, Has, CpFields
  <2>2. DraftsFit([s.drafts EXCEPT ![ch] = rec.text])
    BY <1>3, DraftSet DEF Kept, RecFits
  <2>3. box = s.box \/ (ch = s.live /\ box = rec.text)
    OBVIOUS
  <2> HIDE DEF box
  <2>4. QED
    BY <1>3, <2>1, <2>2, <2>3 DEF Kept, Has, CpFields, Same
<1>7. QED
  BY <1>5, <1>6

\* Another device's draft is adopted for its own chat.
LEMMA AdoptKept ==
  ASSUME NEW x, Kept(x), NEW ch \in Chats, NEW rec, RecFits(ch, rec)
  PROVE  Kept(AdoptRemote(x, ch, rec)) /\ Same(x, AdoptRemote(x, ch, rec))
<1>1. CASE ch = x.live
  BY <1>1 DEF AdoptRemote, Same
<1>2. CASE ch # x.live
  <2> DEFINE touched == x.touched \cup {ch}
  <2>1. Has(x, CpFields)
    BY DEF Kept
  <2>2. AdoptRemote(x, ch, rec)
          = [x EXCEPT !.touched = touched, !.stash = [x.stash EXCEPT ![ch] = rec.files],
                      !.drafts = [x.drafts EXCEPT ![ch] = rec.text]]
    BY <1>2, <2>1 DEF AdoptRemote
  <2> HIDE DEF touched
  <2>3. FilesFit([x.stash EXCEPT ![ch] = rec.files]) /\ DraftsFit([x.drafts EXCEPT ![ch] = rec.text])
    BY DraftSet, FilesSet DEF Kept, RecFits
  <2>4. QED
    BY <2>1, <2>2, <2>3 DEF Kept, Has, CpFields, Same
<1>3. QED
  BY <1>1, <1>2

----------------------------------------------------------------------------
\* The file half.

\* A chat's files wait for a save, or go out at once.
LEMMA PersistKept ==
  ASSUME NEW x, Kept(x), NEW ch \in Chats \cup {NoChat}, NEW files, files \subseteq {ch},
         NEW now \in BOOLEAN
  PROVE  Kept(Persist(x, ch, files, now)) /\ Same(x, Persist(x, ch, files, now))
<1> DEFINE touched == x.touched \cup {ch}
           y == [x EXCEPT !.touched = touched, !.fslot = <<>>]
           z == [x EXCEPT !.touched = touched, !.fslot = <<ch, files>>]
<1>1. Has(x, CpFields)
  BY DEF Kept
<1>2. CASE ch = NoChat
  BY <1>2 DEF Persist, Same
<1>3. CASE ch # NoChat /\ now
  <2>1. Persist(x, ch, files, now) = Queue(y, ch, "files", files)
    BY <1>3 DEF Persist
  <2> HIDE DEF touched
  <2>2. Kept(y) /\ Same(x, y)
    BY <1>1 DEF Kept, Has, CpFields, Same, DueFits
  <2> HIDE DEF y
  <2>3. Kept(Queue(y, ch, "files", files)) /\ Same(y, Queue(y, ch, "files", files))
    BY <1>3, <2>2, QueueKept
  <2>4. QED
    BY <2>1, <2>2, <2>3 DEF Same
<1>4. CASE ch # NoChat /\ ~now
  <2>1. Persist(x, ch, files, now) = z
    BY <1>4 DEF Persist
  <2>2. DueFits(<<ch, files>>)
    BY <1>4 DEF DueFits
  <2> HIDE DEF touched
  <2>3. QED
    BY <1>1, <2>1, <2>2 DEF Kept, Has, CpFields, Same
<1>5. QED
  BY <1>2, <1>3, <1>4

\* The row changes to files of the live chat, and the change waits for a save or goes out.
LEMMA RowKept ==
  ASSUME NEW x, Kept(x), NEW row, RowFits(x.live, row), NEW now \in BOOLEAN
  PROVE  LET g == Persist([x EXCEPT !.row = row], x.live, row, now)
         IN  Kept(g) /\ Same(x, g)
<1> DEFINE y == [x EXCEPT !.row = row]
<1>1. Kept(y) /\ Same(x, y)
  BY DEF Kept, Has, CpFields, Same
<1>2. x.live \in Chats \cup {NoChat} /\ row \subseteq {x.live}
  BY DEF RowFits
<1> HIDE DEF y
<1>3. Kept(Persist(y, x.live, row, now)) /\ Same(y, Persist(y, x.live, row, now))
  BY <1>1, <1>2, PersistKept
<1>4. QED
  BY <1>1, <1>3 DEF Same, y

\* A send's files go back to the chat that sent them.
LEMMA AddFilesKept ==
  ASSUME NEW x, Kept(x), NEW ch \in Chats, NEW files, files \subseteq {ch}, NEW gen
  PROVE  Kept(AddFilesTo(x, ch, files, gen)) /\ Same(x, AddFilesTo(x, ch, files, gen))
<1> DEFINE row == x.row \cup files
           some == x.stash[ch] \cup files
           stash == [x.stash EXCEPT ![ch] = some]
           y == [x EXCEPT !.stash = stash]
<1>1. Has(x, CpFields)
  BY DEF Kept
<1>2. CASE gen # x.gens[ch]
  BY <1>2 DEF AddFilesTo, Same
<1>3. CASE gen = x.gens[ch] /\ ch = x.live
  <2>1. CASE files \subseteq x.row
    BY <1>3, <2>1 DEF AddFilesTo, Same
  <2>2. CASE ~(files \subseteq x.row)
    <3>1. AddFilesTo(x, ch, files, gen) = Persist([x EXCEPT !.row = row], x.live, row, FALSE)
      BY <1>1, <1>3, <2>2 DEF AddFilesTo
    <3>2. RowFits(x.live, row)
      BY <1>3, ChatsAssumption DEF Kept, RowFits
    <3> HIDE DEF row
    <3>3. QED
      BY <3>1, <3>2, RowKept
  <2>3. QED
    BY <2>1, <2>2
<1>4. CASE gen = x.gens[ch] /\ ch # x.live
  <2>1. CASE files \subseteq x.stash[ch]
    BY <1>4, <2>1 DEF AddFilesTo, Same
  <2>2. CASE ~(files \subseteq x.stash[ch])
    <3>1. AddFilesTo(x, ch, files, gen) = Persist(y, ch, some, FALSE)
      BY <1>1, <1>4, <2>2 DEF AddFilesTo
    <3>2. some \subseteq {ch}
      BY DEF Kept, FilesFit
    <3> HIDE DEF some
    <3>3. FilesFit(stash)
      BY <3>2, FilesSet DEF Kept
    <3> HIDE DEF stash
    <3>4. Kept(y) /\ Same(x, y)
      BY <1>1, <3>3 DEF Kept, Has, CpFields, Same
    <3> HIDE DEF y
    <3>5. Kept(Persist(y, ch, some, FALSE)) /\ Same(y, Persist(y, ch, some, FALSE))
      BY <3>2, <3>4, PersistKept
    <3>6. QED
      BY <3>1, <3>4, <3>5 DEF Same
  <2>3. QED
    BY <2>1, <2>2
<1>5. QED
  BY <1>2, <1>3, <1>4

\* A send takes the files of the row.
LEMMA TakeFilesKept ==
  ASSUME NEW x, Kept(x)
  PROVE  Kept(TakeFiles(x)) /\ Same(x, TakeFiles(x))
<1>1. CASE x.row = {}
  BY <1>1 DEF TakeFiles, Same
<1>2. CASE x.row # {}
  <2>1. TakeFiles(x) = Persist([x EXCEPT !.row = {}], x.live, {}, TRUE)
    BY <1>2 DEF TakeFiles
  <2>2. RowFits(x.live, {})
    BY DEF Kept, RowFits
  <2>3. QED
    BY <2>1, <2>2, RowKept
<1>3. QED
  BY <1>1, <1>2

----------------------------------------------------------------------------
\* The send.

\* A send goes out.
LEMMA DispatchKept ==
  ASSUME NEW x, Kept(x), NEW s, SendFits(s)
  PROVE  Kept(Dispatch(x, s)) /\ Same(x, Dispatch(x, s))
<1> DEFINE sends == Append(x.sends, s)
           thinking == IF s.kind = "prompt" THEN x.thinking \cup {s.chat} ELSE x.thinking
<1>1. Has(x, CpFields)
  BY DEF Kept
<1>2. Dispatch(x, s) = [x EXCEPT !.sends = sends, !.thinking = thinking]
  BY <1>1 DEF Dispatch
<1>3. SendsFit(sends)
  BY SendsAppend DEF Kept
<1> HIDE DEF sends, thinking
<1>4. QED
  BY <1>1, <1>2, <1>3 DEF Kept, Has, CpFields, Same

\* A submit sends the active chat's text and the row's files.
LEMMA SubmittedKept ==
  ASSUME NEW x, Kept(x), NEW ch \in Chats, NEW t, OwnText(ch, t), x.live \in {NoChat, ch}
  PROVE  Kept(Submitted(x, ch, t)) /\ Same(x, Submitted(x, ch, t))
<1> DEFINE id == MessageId(x, ch, t)
           taken == TakeFiles(x)
           minted == IF id > taken.minted THEN id ELSE taken.minted
           kind == IF ch \in x.thinking THEN "steer" ELSE "prompt"
           s == [chat |-> ch, text |-> t, files |-> x.row, gen |-> x.gens[ch], id |-> id,
                 kind |-> kind, budget |-> ConvertBudget, res |-> ""]
           y == [taken EXCEPT !.minted = minted]
<1>1. Submitted(x, ch, t) = Dispatch(y, s)
  BY DEF Submitted
<1>2. Kept(taken) /\ Same(x, taken)
  BY TakeFilesKept
<1> HIDE DEF taken, id
<1>3. SendFits(s)
  <2> HIDE DEF kind
  <2>1. x.row \subseteq {ch}
    BY DEF Kept, RowFits
  <2>2. QED
    BY <2>1 DEF SendFits, Has, SendFields, ConvertBudget, Results
<1> HIDE DEF s, minted
<1>4. Kept(y) /\ Same(taken, y)
  BY <1>2 DEF Kept, Has, CpFields, Same
<1> HIDE DEF y
<1>5. QED
  BY <1>1, <1>2, <1>3, <1>4, DispatchKept DEF Same

\* A send that failed hands its text and its files back to its own chat.
LEMMA FailureKept ==
  ASSUME NEW x, Kept(x), NEW s, SendFits(s)
  PROVE  LET g == RecordFailure(x, s)
         IN  /\ Kept(g) /\ g.live = x.live /\ g.active = x.active
             /\ (g.box = x.box \/ (s.chat = x.live /\ g.box = s.text))
<1> DEFINE failed == [chat |-> s.chat, text |-> s.text, id |-> s.id]
           y == [x EXCEPT !.failed = failed]
           z == RestoreFailedSend(y, s.chat, s.text)
           w == AddFilesTo(z, s.chat, s.files, s.gen)
<1>1. RecordFailure(x, s) = IF HasMessage(x, s) THEN y ELSE w
  BY DEF RecordFailure
<1> HIDE DEF failed
<1>2. Kept(y) /\ Same(x, y)
  BY DEF Kept, Has, CpFields, Same
<1> HIDE DEF y
<1>3. s.chat \in Chats /\ OwnText(s.chat, s.text) /\ s.files \subseteq {s.chat}
  BY DEF SendFits
<1>4. /\ Kept(z) /\ z.live = y.live /\ z.active = y.active
      /\ (z.box = y.box \/ (s.chat = y.live /\ z.box = s.text))
  BY <1>2, <1>3, RestoreFailedKept
<1> HIDE DEF z
<1>5. Kept(w) /\ Same(z, w)
  BY <1>3, <1>4, AddFilesKept
<1> HIDE DEF w
<1>6. QED
  BY <1>1, <1>2, <1>4, <1>5 DEF Same

\* A send that goes again is still of its chat's own.
LEMMA AgainFits ==
  ASSUME NEW s, SendFits(s), NEW kind
  PROVE  /\ s.budget = 0 \/ s.budget > 0
         /\ s.budget > 0 => SendFits([s EXCEPT !.kind = kind, !.budget = @ - 1, !.res = ""])
<1>1. s.budget \in Nat
  BY DEF SendFits
<1>2. s.budget = 0 \/ s.budget > 0
  BY <1>1
<1>3. ASSUME s.budget > 0
      PROVE  SendFits([s EXCEPT !.kind = kind, !.budget = @ - 1, !.res = ""])
  <2> DEFINE b == s.budget - 1
  <2>1. b \in Nat
    BY <1>1, <1>3
  <2> HIDE DEF b
  <2>2. SendFits([s EXCEPT !.kind = kind, !.budget = b, !.res = ""])
    BY <2>1 DEF SendFits, Has, SendFields, Results
  <2>3. QED
    BY <2>2 DEF b
<1>4. QED
  BY <1>2, <1>3

\* What a send does with its answer: settle, go again, or fail.
LEMMA AnswerCases ==
  ASSUME NEW x, NEW i, SendFits(x.sends[i]), x.sends[i].res # ""
  PROVE  LET s == x.sends[i]
             y == [x EXCEPT !.sends = RemoveAt(@, i)]
             g == Answered(x, i)
         IN  \/ g = [y EXCEPT !.failed = NoFailure]
             \/ s.budget > 0 /\ \E kind : g = Dispatch(y, [s EXCEPT !.kind = kind, !.budget = @ - 1, !.res = ""])
             \/ g = RecordFailure(y, s)
             \/ g = RecordFailure([y EXCEPT !.thinking = @ \ {s.chat}], s)
<1> DEFINE s == x.sends[i]
           y == [x EXCEPT !.sends = RemoveAt(@, i)]
           quiet == [y EXCEPT !.thinking = @ \ {s.chat}]
           steer == [s EXCEPT !.kind = "steer", !.budget = @ - 1, !.res = ""]
           prompt == [s EXCEPT !.kind = "prompt", !.budget = @ - 1, !.res = ""]
           g == Answered(x, i)
<1>1. s.budget = 0 \/ s.budget > 0
  BY AgainFits
<1>2. s.res \in Results \ {""} /\ s.budget \in Nat
  BY DEF SendFits
<1>4. CASE s.res = "ok"
  BY <1>4 DEF Answered
<1>5. CASE s.res = "queued" /\ s.budget > 0
  <2>1. g = Dispatch(y, steer)
    BY <1>5 DEF Answered
  <2>2. QED
    BY <1>5, <2>1
<1>6. CASE s.res = "queued" /\ s.budget = 0
  <2>1. g = RecordFailure(y, s)
    BY <1>2, <1>6 DEF Answered
  <2>2. QED
    BY <2>1
<1>7. CASE s.res = "no_turn" /\ s.budget > 0
  <2>1. g = Dispatch(y, prompt)
    BY <1>7 DEF Answered
  <2>2. QED
    BY <1>7, <2>1
<1>8. CASE s.res = "no_turn" /\ s.budget = 0
  <2>1. g = RecordFailure(y, s)
    BY <1>2, <1>8 DEF Answered
  <2>2. QED
    BY <2>1
<1>9. CASE s.res \in {"starting", "gone"}
  <2>1. g = RecordFailure(quiet, s)
    BY <1>9 DEF Answered
  <2>2. QED
    BY <2>1
<1>10. CASE s.res = "failed"
  <2>1. g = RecordFailure(quiet, s) \/ g = RecordFailure(y, s)
    BY <1>10 DEF Answered
  <2>2. QED
    BY <2>1
<1>11. QED
  BY <1>1, <1>2, <1>4, <1>5, <1>6, <1>7, <1>8, <1>9, <1>10 DEF Results

\* A failure of one of the sends out, and the box.
LEMMA FailedSendKept ==
  ASSUME NEW x, NEW y, Kept(y), Same(x, y), NEW s, SendFits(s)
  PROVE  LET g == RecordFailure(y, s)
         IN  /\ Kept(g) /\ g.live = x.live /\ g.active = x.active
             /\ (g.box = x.box \/ (x.live # NoChat /\ OwnText(x.live, g.box)))
<1> DEFINE g == RecordFailure(y, s)
<1>1. /\ Kept(g) /\ g.live = y.live /\ g.active = y.active
      /\ (g.box = y.box \/ (s.chat = y.live /\ g.box = s.text))
  BY FailureKept
<1>2. s.chat # NoChat /\ OwnText(s.chat, s.text)
  BY ChatsAssumption DEF SendFits
<1> HIDE DEF g
<1>3. s.chat = x.live /\ g.box = s.text => OwnText(x.live, g.box)
  BY <1>2
<1>4. QED
  BY <1>1, <1>2, <1>3 DEF Same, g

\* What a send does with its answer leaves every text with its chat.
LEMMA AnsweredKept ==
  ASSUME NEW x, Kept(x), NEW i \in DOMAIN x.sends, x.sends[i].res # ""
  PROVE  LET g == Answered(x, i)
         IN  /\ Kept(g) /\ g.live = x.live /\ g.active = x.active
             /\ (g.box = x.box \/ (x.live # NoChat /\ OwnText(x.live, g.box)))
<1> DEFINE s == x.sends[i]
           sends == RemoveAt(x.sends, i)
           y == [x EXCEPT !.sends = sends]
           thinking == y.thinking \ {s.chat}
           quiet == [y EXCEPT !.thinking = thinking]
           g == Answered(x, i)
<1>1. Has(x, CpFields)
  BY DEF Kept
<1>2. SendsFit(sends) /\ SendFits(s)
  BY SendsRemove DEF Kept
<1>3. y = [x EXCEPT !.sends = RemoveAt(@, i)] /\ quiet = [y EXCEPT !.thinking = @ \ {s.chat}]
  BY <1>1
<1>4. \/ g = [y EXCEPT !.failed = NoFailure]
      \/ s.budget > 0 /\ \E kind : g = Dispatch(y, [s EXCEPT !.kind = kind, !.budget = @ - 1, !.res = ""])
      \/ g = RecordFailure(y, s)
      \/ g = RecordFailure(quiet, s)
  BY <1>2, <1>3, AnswerCases
<1> HIDE DEF sends
<1>5. Kept(y) /\ Same(x, y)
  BY <1>1, <1>2 DEF Kept, Has, CpFields, Same
<1> HIDE DEF s, y, thinking
<1>6. Kept(quiet) /\ Same(x, quiet)
  BY <1>5 DEF Kept, Has, CpFields, Same
<1> HIDE DEF quiet
<1>7. CASE g = [y EXCEPT !.failed = NoFailure]
  BY <1>5, <1>7 DEF Kept, Has, CpFields, Same
<1>8. CASE s.budget > 0 /\ \E kind : g = Dispatch(y, [s EXCEPT !.kind = kind, !.budget = @ - 1, !.res = ""])
  <2>1. PICK kind : g = Dispatch(y, [s EXCEPT !.kind = kind, !.budget = @ - 1, !.res = ""])
    BY <1>8
  <2> DEFINE again == [s EXCEPT !.kind = kind, !.budget = @ - 1, !.res = ""]
  <2>2. SendFits(again)
    BY <1>2, <1>8, AgainFits
  <2> HIDE DEF again
  <2>3. Kept(g) /\ Same(y, g)
    BY <1>5, <2>1, <2>2, DispatchKept DEF again
  <2>4. QED
    BY <1>5, <2>3 DEF Same
<1>9. CASE g = RecordFailure(y, s)
  <2> DEFINE h == RecordFailure(y, s)
  <2>1. /\ Kept(h) /\ h.live = x.live /\ h.active = x.active
        /\ (h.box = x.box \/ (x.live # NoChat /\ OwnText(x.live, h.box)))
    BY <1>2, <1>5, FailedSendKept
  <2>2. g = h
    BY <1>9
  <2> HIDE DEF g, h
  <2>3. QED
    BY <2>1, <2>2 DEF g
<1>10. CASE g = RecordFailure(quiet, s)
  <2> DEFINE h == RecordFailure(quiet, s)
  <2>1. /\ Kept(h) /\ h.live = x.live /\ h.active = x.active
        /\ (h.box = x.box \/ (x.live # NoChat /\ OwnText(x.live, h.box)))
    BY <1>2, <1>6, FailedSendKept
  <2>2. g = h
    BY <1>10
  <2> HIDE DEF g, h
  <2>3. QED
    BY <2>1, <2>2 DEF g
<1>11. QED
  BY <1>4, <1>7, <1>8, <1>9, <1>10

----------------------------------------------------------------------------
\* The browsing of past prompts.

\* An input event ends it.
LEMMA EndBrowseKept ==
  ASSUME NEW x, Kept(x)
  PROVE  Kept(EndBrowse(x)) /\ Same(x, EndBrowse(x))
<1> DEFINE browse == [x.browse EXCEPT !.on = FALSE, !.kept = Blank]
<1>1. Has(x, CpFields) /\ BrowseFits(browse)
  BY DEF Kept, BrowseFits, Has
<1>2. EndBrowse(x) = [x EXCEPT !.browse = browse]
  BY <1>1 DEF EndBrowse
<1> HIDE DEF browse
<1>3. QED
  BY <1>1, <1>2 DEF Kept, Has, CpFields, Same

\* So does the first key after another chat became active.
LEMMA KeyedKept ==
  ASSUME NEW x, Kept(x)
  PROVE  LET k == Keyed(x)
         IN  Kept(k) /\ Same(x, k) /\ k.browse.at = x.active /\ k.known = x.known
<1> DEFINE browse == [on |-> FALSE, kept |-> Blank, at |-> x.active]
<1>1. Has(x, CpFields) /\ BrowseFits(browse)
  BY DEF Kept, BrowseFits, Has
<1>2. CASE x.browse.at = x.active
  BY <1>2 DEF Keyed, Same
<1>3. CASE x.browse.at # x.active
  <2>1. Keyed(x) = [x EXCEPT !.browse = browse] /\ browse.at = x.active
    BY <1>3 DEF Keyed
  <2> HIDE DEF browse
  <2>2. QED
    BY <1>1, <2>1 DEF Kept, Has, CpFields, Same
<1>4. QED
  BY <1>2, <1>3

----------------------------------------------------------------------------
\* The invariant.

ServerFits(srv) ==
    /\ Has(srv, {"chats", "draft", "files", "busy", "took"}) /\ srv.chats \subseteq Chats
    /\ DraftsFit(srv.draft) /\ FilesFit(srv.files) /\ KnownFits(srv.took)

FrameFits(f) == f.kind \in {"draft", "gone", "tab"} /\ f.chat \in Chats /\ RecFits(f.chat, f.rec)

\* The frames on their way; a deletion's record is followed by its tab.
FramesFit(net) == \E S : net \in Seq(S) /\ \A f \in S : FrameFits(f)
Paired(net) == \A i \in 1..Len(net) : net[i].kind = "gone" => i < Len(net) /\ net[i + 1].kind = "tab"

\* A chat shown without a composer was put there by a deletion whose tab is the next frame.
Waits(x, net) == x.active # NoChat /\ x.live = NoChat => net # <<>> /\ net[1].kind = "tab"

ComposerInv ==
    /\ Kept(cp) /\ Shown(cp) /\ ServerFits(cpsrv)
    /\ FramesFit(cpnet) /\ Paired(cpnet) /\ Waits(cp, cpnet)

\* A step of the client that leaves the chat shown as it is.
LEMMA ClientStep ==
  ASSUME ComposerInv, Kept(cp'), cp'.live = cp.live, cp'.active = cp.active, UNCHANGED <<cpsrv, cpnet>>,
         cp.active # NoChat => OwnText(cp.active, cp'.box)
  PROVE  ComposerInv'
<1>1. Shown(cp') /\ Waits(cp', cpnet)
  BY DEF ComposerInv, Shown, Waits
<1>2. QED
  BY <1>1 DEF ComposerInv

\* The same, and the box keeps its text.
LEMMA SameStep ==
  ASSUME ComposerInv, Kept(cp'), Same(cp, cp'), UNCHANGED <<cpsrv, cpnet>>
  PROVE  ComposerInv'
<1>1. cp'.live = cp.live /\ cp'.active = cp.active /\ cp'.box = cp.box
  BY DEF Same
<1>2. cp.active # NoChat => OwnText(cp.active, cp'.box)
  BY <1>1 DEF ComposerInv, Shown
<1>3. QED
  BY <1>1, <1>2, ClientStep

\* A step that shows a chat with its composer.
LEMMA ShownStep ==
  ASSUME ComposerInv, Kept(cp'), Shown(cp'), cp'.live = cp'.active, UNCHANGED <<cpsrv, cpnet>>
  PROVE  ComposerInv'
BY DEF ComposerInv, Waits

\* The box takes another text.
LEMMA BoxKept ==
  ASSUME NEW x, Kept(x), NEW t
  PROVE  LET g == [x EXCEPT !.box = t]
         IN  Kept(g) /\ g.live = x.live /\ g.active = x.active /\ g.box = t
BY DEF Kept, Has, CpFields

\* A text of the active chat is typed.
LEMMA TypedKept ==
  ASSUME NEW x, Kept(x), Shown(x), NEW t, x.active # NoChat => OwnText(x.active, t)
  PROVE  LET g == NoteText(EndBrowse([x EXCEPT !.box = t]), t)
         IN  Kept(g) /\ g.live = x.live /\ g.active = x.active /\ g.box = t
<1> DEFINE y == [x EXCEPT !.box = t]
           z == EndBrowse(y)
<1>1. Kept(y) /\ y.live = x.live /\ y.active = x.active /\ y.box = t
  BY BoxKept
<1> HIDE DEF y
<1>2. Kept(z) /\ Same(y, z)
  BY <1>1, EndBrowseKept
<1> HIDE DEF z
<1>3. z.live # NoChat => OwnText(z.live, t)
  BY <1>1, <1>2 DEF Same, Shown
<1>4. Kept(NoteText(z, t)) /\ Same(z, NoteText(z, t))
  BY <1>2, <1>3, NoteTextKept
<1>5. QED
  BY <1>1, <1>2, <1>4 DEF Same, z, y

----------------------------------------------------------------------------
\* The user's steps.

\* A text is typed into the box.
LEMMA TypeStep ==
  ASSUME ComposerInv, Type
  PROVE  ComposerInv'
<1>1. PICK n \in 1..MaxTexts :
        cp' = NoteText(EndBrowse([cp EXCEPT !.box = <<cp.active, n>>]), <<cp.active, n>>)
  BY DEF Type
<1>2. OwnText(cp.active, <<cp.active, n>>)
  BY DEF OwnText
<1>3. UNCHANGED <<cpsrv, cpnet>>
  BY DEF Type
<1>4. Kept(cp') /\ cp'.live = cp.live /\ cp'.active = cp.active /\ cp'.box = <<cp.active, n>>
  BY <1>1, <1>2, TypedKept DEF ComposerInv
<1>5. QED
  BY <1>2, <1>3, <1>4, ClientStep

\* A past prompt of the active chat is shown.
LEMMA RecallStep ==
  ASSUME ComposerInv, Recall
  PROVE  ComposerInv'
<1> DEFINE k == Keyed(cp)
<1>1. PICK m \in cp.known : m.chat = cp.active
                        /\ cp' = [k EXCEPT !.box = m.text, !.browse.on = TRUE,
                                           !.browse.kept = IF k.browse.on THEN @ ELSE k.box]
  BY DEF Recall
<1>2. Kept(k) /\ Same(cp, k) /\ k.browse.at = cp.active
  BY KeyedKept DEF ComposerInv
<1> HIDE DEF k
<1> DEFINE kept == IF k.browse.on THEN k.browse.kept ELSE k.box
           browse == [k.browse EXCEPT !.on = TRUE, !.kept = kept]
<1>3. OwnText(cp.active, m.text)
  BY <1>1 DEF ComposerInv, Kept, KnownFits
<1>4. Has(k, CpFields) /\ Has(k.browse, {"on", "kept", "at"})
  BY <1>2 DEF Kept, BrowseFits
<1>5. cp' = [k EXCEPT !.box = m.text, !.browse = browse]
  BY <1>1, <1>4
<1>6. cp.active # NoChat => OwnText(cp.active, kept)
  <2>1. CASE k.browse.on
    BY <1>2, <2>1 DEF Kept, BrowseFits
  <2>2. CASE ~k.browse.on
    BY <1>2, <2>2 DEF ComposerInv, Shown, Same
  <2>3. QED
    BY <2>1, <2>2
<1> HIDE DEF kept
<1>7. BrowseFits(browse)
  BY <1>2, <1>4, <1>6 DEF BrowseFits, Has
<1> HIDE DEF browse
<1>8. Kept(cp') /\ cp'.live = cp.live /\ cp'.active = cp.active /\ cp'.box = m.text
  BY <1>2, <1>4, <1>5, <1>7 DEF Kept, Has, CpFields, Same
<1>9. UNCHANGED <<cpsrv, cpnet>>
  BY DEF Recall
<1>10. QED
  BY <1>3, <1>8, <1>9, ClientStep

\* The browsing ends and the box has its text again.
LEMMA StopBrowsingStep ==
  ASSUME ComposerInv, StopBrowsing
  PROVE  ComposerInv'
<1> DEFINE k == Keyed(cp)
           y == [k EXCEPT !.box = k.browse.kept]
<1>1. cp' = IF k.browse.on THEN EndBrowse(y) ELSE k
  BY DEF StopBrowsing
<1>2. UNCHANGED <<cpsrv, cpnet>>
  BY DEF StopBrowsing
<1>3. Kept(k) /\ Same(cp, k) /\ k.browse.at = cp.active
  BY KeyedKept DEF ComposerInv
<1> HIDE DEF k
<1>4. CASE ~k.browse.on
  BY <1>1, <1>2, <1>3, <1>4, SameStep
<1>5. CASE k.browse.on
  <2>1. Kept(y) /\ y.live = k.live /\ y.active = k.active /\ y.box = k.browse.kept
    BY <1>3, BoxKept
  <2>2. cp.active # NoChat => OwnText(cp.active, k.browse.kept)
    BY <1>3, <1>5 DEF Kept, BrowseFits
  <2> HIDE DEF y
  <2>3. Kept(cp') /\ Same(y, cp')
    BY <1>1, <1>5, <2>1, EndBrowseKept
  <2>4. cp'.live = cp.live /\ cp'.active = cp.active /\ cp'.box = k.browse.kept
    BY <1>3, <2>1, <2>3 DEF Same
  <2>5. QED
    BY <1>2, <2>2, <2>3, <2>4, ClientStep
<1>6. QED
  BY <1>4, <1>5

\* The text goes to the active chat, and the box empties.
LEMMA SubmitStep ==
  ASSUME ComposerInv, Submit
  PROVE  ComposerInv'
<1> DEFINE x == EndBrowse(cp)
           y == IF x.active = NoChat THEN x ELSE Submitted(x, x.active, x.box)
           z == [y EXCEPT !.box = Blank]
<1>1. cp' = NoteText(z, Blank) /\ UNCHANGED <<cpsrv, cpnet>>
  BY DEF Submit
<1>2. Kept(x) /\ Same(cp, x)
  BY EndBrowseKept DEF ComposerInv
<1> HIDE DEF x
<1>3. x.active # NoChat => /\ x.active \in Chats /\ OwnText(x.active, x.box)
                           /\ x.live \in {NoChat, x.active}
  BY <1>2 DEF ComposerInv, Shown, Same
<1>4. Kept(y) /\ Same(x, y)
  <2>1. CASE x.active = NoChat
    BY <1>2, <2>1 DEF Same
  <2>2. CASE x.active # NoChat
    BY <1>2, <1>3, <2>2, SubmittedKept
  <2>3. QED
    BY <2>1, <2>2
<1> HIDE DEF y
<1>5. Kept(z) /\ z.live = y.live /\ z.active = y.active /\ z.box = Blank
  BY <1>4, BoxKept
<1> HIDE DEF z
<1>6. \A ch : OwnText(ch, Blank)
  BY DEF OwnText
<1>7. Kept(NoteText(z, Blank)) /\ Same(z, NoteText(z, Blank))
  BY <1>5, <1>6, NoteTextKept
<1>8. Kept(cp') /\ cp'.live = cp.live /\ cp'.active = cp.active /\ cp'.box = Blank
  BY <1>1, <1>2, <1>4, <1>5, <1>7 DEF Same
<1>9. QED
  BY <1>1, <1>6, <1>8, ClientStep

\* A file is attached to the live chat.
LEMMA AttachFileStep ==
  ASSUME ComposerInv, AttachFile
  PROVE  ComposerInv'
<1> DEFINE row == cp.row \cup {cp.live}
<1>1. cp.live # NoChat /\ UNCHANGED <<cpsrv, cpnet>>
  BY DEF AttachFile
<1>2. Has(cp, CpFields) /\ RowFits(cp.live, row)
  BY <1>1 DEF ComposerInv, Kept, RowFits
<1>3. cp' = Persist([cp EXCEPT !.row = row], cp.live, row, FALSE)
  BY <1>2 DEF AttachFile
<1> HIDE DEF row
<1>4. Kept(cp') /\ Same(cp, cp')
  BY <1>2, <1>3, RowKept DEF ComposerInv
<1>5. QED
  BY <1>1, <1>4, SameStep

\* A file is taken off the row.
LEMMA RemoveFileStep ==
  ASSUME ComposerInv, RemoveFile
  PROVE  ComposerInv'
<1>1. PICK f \in cp.row : cp' = Persist([cp EXCEPT !.row = @ \ {f}], cp.live, cp.row \ {f}, FALSE)
  BY DEF RemoveFile
<1> DEFINE row == cp.row \ {f}
<1>2. Has(cp, CpFields) /\ RowFits(cp.live, row)
  BY DEF ComposerInv, Kept, RowFits
<1>3. cp' = Persist([cp EXCEPT !.row = row], cp.live, row, FALSE) /\ UNCHANGED <<cpsrv, cpnet>>
  BY <1>1, <1>2 DEF RemoveFile
<1> HIDE DEF row
<1>4. Kept(cp') /\ Same(cp, cp')
  BY <1>2, <1>3, RowKept DEF ComposerInv
<1>5. QED
  BY <1>3, <1>4, SameStep

\* Another chat is shown.
LEMMA ShowChatStep ==
  ASSUME ComposerInv, ShowChat
  PROVE  ComposerInv'
<1>1. PICK ch \in cp.chats : cp' = ActivateChatView(cp, ch)
  BY DEF ShowChat
<1>2. UNCHANGED <<cpsrv, cpnet>>
  BY DEF ShowChat
<1>3. ch \in Chats
  BY DEF ComposerInv, Kept
<1>4. Kept(cp') /\ Shown(cp') /\ cp'.live = cp'.active
  BY <1>1, <1>3, ActivateKept DEF ComposerInv
<1>5. QED
  BY <1>2, <1>4, ShownStep

\* A chat's tab is closed.
LEMMA CloseChatStep ==
  ASSUME ComposerInv, CloseChat
  PROVE  ComposerInv'
<1>1. PICK ch \in cp.chats : cp' = CloseChatTab(cp, ch)
  BY DEF CloseChat
<1>2. UNCHANGED <<cpsrv, cpnet>>
  BY DEF CloseChat
<1>3. ch \in Chats /\ cp.active \in Chats \cup {NoChat}
  BY DEF ComposerInv, Kept, Shown
<1>4. Kept(cp') /\ Shown(cp') /\ cp'.live = cp'.active
  BY <1>1, <1>3, CloseTabKept DEF ComposerInv
<1>5. QED
  BY <1>2, <1>4, ShownStep

\* A steer row is taken back for editing.
LEMMA TakeBackStep ==
  ASSUME ComposerInv, TakeBack
  PROVE  ComposerInv'
<1> DEFINE t == <<cp.active, MaxTexts>>
           e == [chat |-> cp.active, taken |-> t, before |-> DraftOf(cp, cp.active)]
           x == NoteText(EndBrowse([cp EXCEPT !.box = t]), t)
<1>1. cp.active # NoChat /\ cp' = [x EXCEPT !.edit = <<e>>] /\ UNCHANGED <<cpsrv, cpnet>>
  BY DEF TakeBack
<1>2. OwnText(cp.active, t) /\ cp.active \in Chats
  BY <1>1 DEF OwnText, ComposerInv, Shown
<1>3. Kept(x) /\ x.live = cp.live /\ x.active = cp.active /\ x.box = t
  BY <1>2, TypedKept DEF ComposerInv
<1> HIDE DEF x, t
<1>4. EditFits(<<e>>)
  BY <1>2, DraftIsOwn DEF EditFits, ComposerInv, Kept
<1> HIDE DEF e
<1>5. Kept(cp') /\ cp'.live = cp.live /\ cp'.active = cp.active /\ cp'.box = t
  BY <1>1, <1>3, <1>4 DEF Kept, Has, CpFields
<1>6. QED
  BY <1>1, <1>2, <1>5, ClientStep

\* The removal is answered.
LEMMA EditAnsweredStep ==
  ASSUME ComposerInv, EditAnswered
  PROVE  ComposerInv'
<1> DEFINE e == cp.edit[1]
           x == [cp EXCEPT !.edit = <<>>]
<1>1. cp.edit # <<>> /\ (cp' = x \/ cp' = RestoreRefusedEdit(x, e)) /\ UNCHANGED <<cpsrv, cpnet>>
  BY DEF EditAnswered
<1>2. Kept(x) /\ Same(cp, x)
  BY DEF ComposerInv, Kept, Has, CpFields, Same, EditFits
<1>3. e.chat \in Chats /\ OwnText(e.chat, e.before)
  BY <1>1 DEF ComposerInv, Kept, EditFits
<1> HIDE DEF x, e
<1>4. CASE cp' = x
  BY <1>1, <1>2, <1>4, SameStep
<1>5. CASE cp' = RestoreRefusedEdit(x, e)
  <2>1. /\ Kept(cp') /\ cp'.live = x.live /\ cp'.active = x.active
        /\ (cp'.box = x.box \/ (e.chat = x.live /\ cp'.box = e.before))
    BY <1>2, <1>3, <1>5, RestoreEditKept
  <2>2. e.chat = cp.live => e.chat = cp.active
    BY <1>3, ChatsAssumption DEF ComposerInv, Shown
  <2>3. cp.active # NoChat => OwnText(cp.active, cp'.box)
    <3>1. CASE cp'.box = x.box
      BY <1>2, <3>1 DEF ComposerInv, Shown, Same
    <3>2. CASE e.chat = x.live /\ cp'.box = e.before
      BY <1>2, <1>3, <2>2, <3>2 DEF Same
    <3>3. QED
      BY <2>1, <3>1, <3>2
  <2>4. QED
    BY <1>1, <1>2, <2>1, <2>3, ClientStep DEF Same
<1>6. QED
  BY <1>1, <1>4, <1>5

\* The box loses focus.
LEMMA BlurStep ==
  ASSUME ComposerInv, Blur
  PROVE  ComposerInv'
<1> DEFINE x == FlushDraft(cp)
<1>1. cp' = FlushFiles(x) /\ UNCHANGED <<cpsrv, cpnet>>
  BY DEF Blur
<1>2. Kept(x) /\ Same(cp, x)
  BY FlushDraftKept DEF ComposerInv
<1> HIDE DEF x
<1>3. Kept(cp') /\ Same(x, cp')
  BY <1>1, <1>2, FlushFilesKept
<1>4. Same(cp, cp')
  BY <1>2, <1>3 DEF Same
<1>5. QED
  BY <1>1, <1>3, <1>4, SameStep

----------------------------------------------------------------------------
\* The timers, the answers and the frames.

\* The draft that waits goes out for the chat it was written in.
LEMMA DraftSaveStep ==
  ASSUME ComposerInv, DraftSaveFires
  PROVE  ComposerInv'
<1> DEFINE x == [cp EXCEPT !.slot = <<>>]
<1>1. cp.slot # <<>> /\ cp' = Queue(x, cp.slot[1], "draft", cp.slot[2]) /\ UNCHANGED <<cpsrv, cpnet>>
  BY DEF DraftSaveFires
<1>2. cp.slot[1] \in Chats /\ OwnText(cp.slot[1], cp.slot[2])
  BY <1>1 DEF ComposerInv, Kept, SlotFits
<1>3. Kept(x) /\ Same(cp, x)
  BY DEF ComposerInv, Kept, Has, CpFields, Same, SlotFits
<1> HIDE DEF x
<1>4. Kept(cp') /\ Same(x, cp')
  BY <1>1, <1>2, <1>3, QueueKept
<1>5. Same(cp, cp')
  BY <1>3, <1>4 DEF Same
<1>6. QED
  BY <1>1, <1>4, <1>5, SameStep

\* So do the files.
LEMMA FilesSaveStep ==
  ASSUME ComposerInv, FilesSaveFires
  PROVE  ComposerInv'
<1> DEFINE x == [cp EXCEPT !.fslot = <<>>]
<1>1. cp.fslot # <<>> /\ cp' = Queue(x, cp.fslot[1], "files", cp.fslot[2]) /\ UNCHANGED <<cpsrv, cpnet>>
  BY DEF FilesSaveFires
<1>2. cp.fslot[1] \in Chats /\ cp.fslot[2] \subseteq {cp.fslot[1]}
  BY <1>1 DEF ComposerInv, Kept, DueFits
<1>3. Kept(x) /\ Same(cp, x)
  BY DEF ComposerInv, Kept, Has, CpFields, Same, DueFits
<1> HIDE DEF x
<1>4. Kept(cp') /\ Same(x, cp')
  BY <1>1, <1>2, <1>3, QueueKept
<1>5. Same(cp, cp')
  BY <1>3, <1>4 DEF Same
<1>6. QED
  BY <1>1, <1>4, <1>5, SameStep

\* A frame is broadcast, and the deletions in flight stay paired with their tabs.
LEMMA FrameSent ==
  ASSUME NEW net, FramesFit(net), Paired(net), NEW f, FrameFits(f), f.kind # "gone"
  PROVE  LET new == Append(net, f)
         IN  /\ FramesFit(new) /\ Paired(new) /\ new # <<>>
             /\ net # <<>> => new[1] = net[1]
<1> DEFINE new == Append(net, f)
<1>1. PICK S : net \in Seq(S) /\ \A q \in S : FrameFits(q)
  BY DEF FramesFit
<1>2. new \in Seq(S \cup {f})
  BY <1>1
<1>3. Len(net) \in Nat /\ Len(new) = Len(net) + 1 /\ new[Len(net) + 1] = f
  BY <1>1
<1>4. \A i \in 1..Len(net) : new[i] = net[i]
  BY <1>1
<1>5. FramesFit(new)
  BY <1>1, <1>2 DEF FramesFit
<1>6. Paired(new)
  <2> SUFFICES ASSUME NEW i \in 1..Len(new), new[i].kind = "gone"
               PROVE  i < Len(new) /\ new[i + 1].kind = "tab"
    BY DEF Paired
  <2>1. i \in 1..Len(net)
    BY <1>3
  <2>2. i < Len(net) /\ net[i + 1].kind = "tab"
    BY <1>4, <2>1 DEF Paired
  <2>3. i + 1 \in 1..Len(net)
    BY <1>3, <2>1, <2>2
  <2>4. QED
    BY <1>3, <1>4, <2>1, <2>2, <2>3
<1>7. net # <<>> => new[1] = net[1]
  BY <1>1, <1>3, <1>4
<1>8. new # <<>>
  BY <1>2, <1>3
<1>9. QED
  BY <1>5, <1>6, <1>7, <1>8

\* The two frames of a deletion are broadcast.
LEMMA PairSent ==
  ASSUME NEW net, FramesFit(net), Paired(net), NEW f, FrameFits(f), NEW g, FrameFits(g), g.kind = "tab"
  PROVE  LET new == net \o <<f, g>>
         IN  /\ FramesFit(new) /\ Paired(new) /\ new # <<>>
             /\ net # <<>> => new[1] = net[1]
<1> DEFINE new == net \o <<f, g>>
<1>1. PICK S : net \in Seq(S) /\ \A q \in S : FrameFits(q)
  BY DEF FramesFit
<1>2. net \in Seq(S \cup {f, g}) /\ <<f, g>> \in Seq(S \cup {f, g})
  BY <1>1
<1>3. new \in Seq(S \cup {f, g})
  BY <1>2
<1>4. /\ Len(net) \in Nat /\ Len(new) = Len(net) + 2
      /\ new[Len(net) + 1] = f /\ new[Len(net) + 2] = g
  BY <1>1, <1>2
<1>5. \A i \in 1..Len(net) : new[i] = net[i]
  BY <1>1, <1>2
<1> HIDE DEF new
<1>6. FramesFit(new)
  BY <1>1, <1>3 DEF FramesFit
<1>7. Paired(new)
  <2> SUFFICES ASSUME NEW i \in 1..Len(new), new[i].kind = "gone"
               PROVE  i < Len(new) /\ new[i + 1].kind = "tab"
    BY DEF Paired
  <2>1. CASE i \in 1..Len(net)
    <3>1. i < Len(net) /\ net[i + 1].kind = "tab"
      BY <1>5, <2>1 DEF Paired
    <3>2. i + 1 \in 1..Len(net)
      BY <1>4, <2>1, <3>1
    <3>3. QED
      BY <1>4, <1>5, <2>1, <3>1, <3>2
  <2>2. CASE i = Len(net) + 1
    BY <1>4, <2>2
  <2>3. CASE i = Len(net) + 2
    BY <1>4, <2>3
  <2>4. QED
    BY <1>4, <2>1, <2>2, <2>3
<1>8. net # <<>> => new[1] = net[1]
  BY <1>1, <1>4, <1>5
<1>9. new # <<>>
  BY <1>3, <1>4
<1>10. QED
  BY <1>6, <1>7, <1>8, <1>9 DEF new

\* A frame arrives.
LEMMA FrameTaken ==
  ASSUME NEW net, FramesFit(net), Paired(net), net # <<>>
  PROVE  /\ FramesFit(Tail(net)) /\ Paired(Tail(net)) /\ FrameFits(Head(net)) /\ Head(net) = net[1]
         /\ Head(net).kind = "gone" => Tail(net) # <<>> /\ Tail(net)[1].kind = "tab"
<1>1. PICK S : net \in Seq(S) /\ \A q \in S : FrameFits(q)
  BY DEF FramesFit
<1>2. Tail(net) \in Seq(S) /\ Head(net) \in S /\ Head(net) = net[1]
  BY <1>1
<1>3. Len(net) \in Nat \ {0} /\ Len(Tail(net)) = Len(net) - 1
  BY <1>1
<1>4. \A i \in 1..Len(Tail(net)) : Tail(net)[i] = net[i + 1]
  BY <1>1
<1>5. Paired(Tail(net))
  <2> DEFINE new == Tail(net)
  <2> SUFFICES ASSUME NEW i \in 1..Len(new), new[i].kind = "gone"
               PROVE  i < Len(new) /\ new[i + 1].kind = "tab"
    BY DEF Paired
  <2> HIDE DEF new
  <2>1. i + 1 \in 1..Len(net) /\ net[i + 1].kind = "gone"
    BY <1>3, <1>4 DEF new
  <2>2. i + 1 < Len(net) /\ net[i + 2].kind = "tab"
    BY <2>1 DEF Paired
  <2>3. i < Len(new) /\ i + 1 \in 1..Len(new)
    BY <1>3, <2>2 DEF new
  <2>4. QED
    BY <1>4, <2>2, <2>3 DEF new
<1>6. ASSUME Head(net).kind = "gone"
      PROVE  Tail(net) # <<>> /\ Tail(net)[1].kind = "tab"
  <2>1. 1 < Len(net) /\ net[2].kind = "tab"
    BY <1>2, <1>3, <1>6 DEF Paired
  <2>2. 1 \in 1..Len(Tail(net))
    BY <1>3, <2>1
  <2>3. Tail(net)[1].kind = "tab"
    BY <1>4, <2>1, <2>2
  <2>4. Tail(net) # <<>>
    <3>1. Len(Tail(net)) # 0
      BY <1>3, <2>1
    <3>2. Len(<<>>) = 0
      OBVIOUS
    <3>3. QED
      BY <3>1, <3>2
  <2>5. QED
    BY <2>3, <2>4
<1>7. QED
  BY <1>1, <1>2, <1>5, <1>6 DEF FramesFit

\* The record the server has of a chat is the chat's.
LEMMA ServedFits ==
  ASSUME ServerFits(cpsrv), NEW ch \in Chats
  PROVE  RecFits(ch, Served(ch))
BY DEF ServerFits, DraftsFit, FilesFit, RecFits, Served

\* A step of the server broadcasts: what the client shows stays, and the server's part stays fit.
LEMMA SentStep ==
  ASSUME ComposerInv, Kept(cp'), Same(cp, cp'), ServerFits(cpsrv'),
         FramesFit(cpnet'), Paired(cpnet'), cpnet' # <<>>, cpnet # <<>> => cpnet'[1] = cpnet[1]
  PROVE  ComposerInv'
<1>1. Shown(cp')
  BY DEF ComposerInv, Shown, Same
<1>2. Waits(cp', cpnet')
  BY DEF ComposerInv, Waits, Same
<1>3. QED
  BY <1>1, <1>2 DEF ComposerInv

\* A save is written, and what it moved is broadcast.
LEMMA SaveServedStep ==
  ASSUME ComposerInv, SaveServed
  PROVE  ComposerInv'
<1>1. PICK ch \in Chats :
        /\ cp.out[ch] # <<>>
        /\ cp' = [cp EXCEPT !.out[ch] = Tail(@)]
        /\ LET r   == Head(cp.out[ch])
               new == IF r.kind = "draft" THEN [Served(ch) EXCEPT !.text = r.val]
                      ELSE [Served(ch) EXCEPT !.files = r.val]
           IN  IF ch \notin cpsrv.chats \/ new = Served(ch) THEN UNCHANGED <<cpsrv, cpnet>>
               ELSE /\ cpsrv' = [cpsrv EXCEPT !.draft[ch] = new.text, !.files[ch] = new.files]
                    /\ cpnet' = Append(cpnet, Frame("draft", ch, new))
  BY DEF SaveServed
<1> DEFINE r == Head(cp.out[ch])
           new == IF r.kind = "draft" THEN [Served(ch) EXCEPT !.text = r.val]
                  ELSE [Served(ch) EXCEPT !.files = r.val]
           out == [cp.out EXCEPT ![ch] = Tail(@)]
           f == Frame("draft", ch, new)
<1>2. Has(cp, CpFields) /\ OutFits(cp.out)
  BY DEF ComposerInv, Kept
<1>3. OutFits(out) /\ SaveFits(ch, r)
  BY <1>1, <1>2, OutTail
<1>4. cp' = [cp EXCEPT !.out = out]
  BY <1>1, <1>2
<1> HIDE DEF out
<1>5. Kept(cp') /\ Same(cp, cp')
  BY <1>2, <1>3, <1>4 DEF ComposerInv, Kept, Has, CpFields, Same
<1>6. CASE UNCHANGED <<cpsrv, cpnet>>
  BY <1>5, <1>6, SameStep
<1>7. CASE /\ cpsrv' = [cpsrv EXCEPT !.draft[ch] = new.text, !.files[ch] = new.files]
           /\ cpnet' = Append(cpnet, f)
  <2>1. RecFits(ch, Served(ch)) /\ Served(ch) = [text |-> cpsrv.draft[ch], files |-> cpsrv.files[ch]]
    BY ServedFits DEF ComposerInv, Served
  <2>2. RecFits(ch, new)
    BY <1>3, <2>1 DEF RecFits, SaveFits
  <2> HIDE DEF new
  <2>3. FrameFits(f) /\ f.kind = "draft"
    BY <2>2 DEF FrameFits, Frame
  <2> HIDE DEF f
  <2>4. /\ FramesFit(cpnet') /\ Paired(cpnet') /\ cpnet' # <<>>
        /\ cpnet # <<>> => cpnet'[1] = cpnet[1]
    BY <1>7, <2>3, FrameSent DEF ComposerInv
  <2>5. ServerFits(cpsrv) /\ DraftsFit(cpsrv.draft) /\ FilesFit(cpsrv.files)
    BY DEF ComposerInv, ServerFits
  <2>6. DraftsFit([cpsrv.draft EXCEPT ![ch] = new.text]) /\ FilesFit([cpsrv.files EXCEPT ![ch] = new.files])
    BY <2>2, <2>5, DraftSet, FilesSet DEF RecFits
  <2>7. cpsrv' = [cpsrv EXCEPT !.draft = [cpsrv.draft EXCEPT ![ch] = new.text],
                               !.files = [cpsrv.files EXCEPT ![ch] = new.files]]
    BY <1>7, <2>5 DEF ServerFits, Has
  <2>8. ServerFits(cpsrv')
    BY <2>5, <2>6, <2>7 DEF ServerFits, Has
  <2>9. QED
    BY <1>5, <2>4, <2>8, SentStep
<1>8. QED
  BY <1>1, <1>6, <1>7

\* A save is lost.
LEMMA SaveLostStep ==
  ASSUME ComposerInv, SaveLost
  PROVE  ComposerInv'
<1>1. PICK ch \in Chats : cp.out[ch] # <<>> /\ cp' = [cp EXCEPT !.out[ch] = Tail(@)]
  BY DEF SaveLost
<1> DEFINE out == [cp.out EXCEPT ![ch] = Tail(@)]
<1>2. Has(cp, CpFields) /\ OutFits(cp.out)
  BY DEF ComposerInv, Kept
<1>3. OutFits(out)
  BY <1>1, <1>2, OutTail
<1>4. cp' = [cp EXCEPT !.out = out] /\ UNCHANGED <<cpsrv, cpnet>>
  BY <1>1, <1>2 DEF SaveLost
<1> HIDE DEF out
<1>5. Kept(cp') /\ Same(cp, cp')
  BY <1>2, <1>3, <1>4 DEF ComposerInv, Kept, Has, CpFields, Same
<1>6. QED
  BY <1>4, <1>5, SameStep

\* Another device writes a draft.
LEMMA RemoteDraftStep ==
  ASSUME ComposerInv, RemoteDraft
  PROVE  ComposerInv'
<1>1. PICK ch \in cpsrv.chats :
        /\ cpsrv' = [cpsrv EXCEPT !.draft[ch] = <<ch, RemoteText>>]
        /\ cpnet' = Append(cpnet, Frame("draft", ch, [Served(ch) EXCEPT !.text = <<ch, RemoteText>>]))
  BY DEF RemoteDraft
<1> DEFINE t == <<ch, RemoteText>>
           new == [Served(ch) EXCEPT !.text = t]
           f == Frame("draft", ch, new)
<1>2. ServerFits(cpsrv) /\ ch \in Chats /\ OwnText(ch, t)
  BY DEF ComposerInv, ServerFits, OwnText
<1> HIDE DEF t
<1>3. FrameFits(f) /\ f.kind = "draft"
  BY <1>2, ServedFits DEF FrameFits, Frame, RecFits, Served
<1> HIDE DEF f
<1>4. /\ FramesFit(cpnet') /\ Paired(cpnet') /\ cpnet' # <<>>
      /\ cpnet # <<>> => cpnet'[1] = cpnet[1]
  BY <1>1, <1>3, FrameSent DEF ComposerInv, f, t
<1>5. DraftsFit([cpsrv.draft EXCEPT ![ch] = t])
  BY <1>2, DraftSet DEF ServerFits
<1>6. cpsrv' = [cpsrv EXCEPT !.draft = [cpsrv.draft EXCEPT ![ch] = t]]
  BY <1>1, <1>2 DEF ServerFits, Has, t
<1>7. ServerFits(cpsrv')
  BY <1>2, <1>5, <1>6 DEF ServerFits, Has
<1>8. Kept(cp') /\ Same(cp, cp')
  BY DEF ComposerInv, RemoteDraft, Same
<1>9. QED
  BY <1>4, <1>7, <1>8, SentStep

\* Another device deletes a chat.
LEMMA RemoteDeleteStep ==
  ASSUME ComposerInv, RemoteDelete
  PROVE  ComposerInv'
<1>1. PICK ch \in cpsrv.chats :
        /\ cpsrv' = [cpsrv EXCEPT !.chats = @ \ {ch}, !.busy = @ \ {ch}]
        /\ cpnet' = cpnet \o <<Frame("gone", ch, Served(ch)), Frame("tab", ch, Served(ch))>>
  BY DEF RemoteDelete
<1> DEFINE f == Frame("gone", ch, Served(ch))
           g == Frame("tab", ch, Served(ch))
           left == cpsrv.chats \ {ch}
           busy == cpsrv.busy \ {ch}
<1>2. ServerFits(cpsrv) /\ ch \in Chats
  BY DEF ComposerInv, ServerFits
<1>3. FrameFits(f) /\ FrameFits(g) /\ g.kind = "tab"
  BY <1>2, ServedFits DEF FrameFits, Frame
<1> HIDE DEF f, g
<1>4. /\ FramesFit(cpnet') /\ Paired(cpnet') /\ cpnet' # <<>>
      /\ cpnet # <<>> => cpnet'[1] = cpnet[1]
  BY <1>1, <1>3, PairSent DEF ComposerInv, f, g
<1>5. cpsrv' = [cpsrv EXCEPT !.chats = left, !.busy = busy] /\ left \subseteq Chats
  BY <1>1, <1>2 DEF ServerFits, Has
<1> HIDE DEF left, busy
<1>6. ServerFits(cpsrv')
  BY <1>2, <1>5 DEF ServerFits, Has
<1>7. Kept(cp') /\ Same(cp, cp')
  BY DEF ComposerInv, RemoteDelete, Same
<1>8. QED
  BY <1>4, <1>6, <1>7, SentStep

\* A frame arrives: a draft, a chat's record gone, or its tab.
LEMMA FrameArrivesStep ==
  ASSUME ComposerInv, FrameArrives
  PROVE  ComposerInv'
<1> DEFINE f == Head(cpnet)
           y == CloseChatTab(cp, f.chat)
           rest == Tail(cpnet)
<1>1. /\ cpnet # <<>> /\ cpnet' = rest /\ UNCHANGED cpsrv
      /\ \/ f.kind = "draft" /\ cp' = AdoptRemote(cp, f.chat, f.rec)
         \/ f.kind = "gone" /\ cp' = RemoveSession(DropComposer(cp, f.chat), f.chat)
         \/ f.kind = "tab" /\ cp' = y
         \/ f.kind = "tab" /\ \E ch \in y.chats : cp' = ActivateChatView(y, ch)
  BY DEF FrameArrives
<1>2. /\ FramesFit(rest) /\ Paired(rest) /\ FrameFits(f) /\ f = cpnet[1]
      /\ f.kind = "gone" => rest # <<>> /\ rest[1].kind = "tab"
  BY <1>1, FrameTaken DEF ComposerInv
<1> HIDE DEF f, rest
<1>3. /\ Kept(cp) /\ Shown(cp) /\ cp.active \in Chats \cup {NoChat}
      /\ f.chat \in Chats /\ RecFits(f.chat, f.rec)
  BY <1>2 DEF ComposerInv, Shown, FrameFits
<1>4. ASSUME Kept(cp'), Shown(cp'), Waits(cp', rest)
      PROVE  ComposerInv'
  BY <1>1, <1>2, <1>4 DEF ComposerInv
<1>5. CASE f.kind = "draft" /\ cp' = AdoptRemote(cp, f.chat, f.rec)
  <2>1. Kept(cp') /\ Same(cp, cp')
    BY <1>3, <1>5, AdoptKept
  <2>2. Shown(cp')
    BY <1>3, <2>1 DEF Shown, Same
  <2>3. Waits(cp', rest)
    BY <1>2, <1>5, <2>1 DEF ComposerInv, Waits, Same
  <2>4. QED
    BY <1>4, <2>1, <2>2, <2>3
<1>6. CASE f.kind = "gone" /\ cp' = RemoveSession(DropComposer(cp, f.chat), f.chat)
  <2> DEFINE d == DropComposer(cp, f.chat)
  <2>1. /\ Kept(d) /\ d.active = cp.active
        /\ IF f.chat = cp.live THEN d.live = NoChat /\ d.box = Blank
           ELSE d.live = cp.live /\ d.box = cp.box
    BY <1>3, DropKept
  <2> HIDE DEF d
  <2>2. /\ Kept(cp') /\ cp'.live = d.live /\ cp'.box = d.box /\ cp'.active \in Chats \cup {NoChat}
        /\ d.active # f.chat => cp'.active = d.active
    BY <1>3, <1>6, <2>1, RemoveSessionKept DEF d
  <2>3. Waits(cp', rest)
    BY <1>2, <1>6 DEF Waits
  <2>4. \A ch : OwnText(ch, Blank)
    BY DEF OwnText
  <2>5. f.chat # NoChat
    BY <1>3, ChatsAssumption
  <2>6. CASE f.chat = cp.live
    <3>1. cp'.live = NoChat /\ OwnText(cp'.active, cp'.box)
      BY <2>1, <2>2, <2>4, <2>6
    <3>2. Shown(cp')
      BY <2>2, <3>1 DEF Shown
    <3>3. QED
      BY <1>4, <2>2, <2>3, <3>2
  <2>7. CASE f.chat # cp.live /\ cp.active # f.chat
    <3>1. cp'.live = cp.live /\ cp'.active = cp.active /\ cp'.box = cp.box
      BY <2>1, <2>2, <2>7
    <3>2. Shown(cp')
      BY <1>3, <3>1 DEF Shown
    <3>3. QED
      BY <1>4, <2>2, <2>3, <3>2
  <2>8. CASE f.chat # cp.live /\ cp.active = f.chat
    <3>1. cp.live = NoChat /\ cp.active # NoChat
      BY <1>3, <2>5, <2>8 DEF Shown
    <3>2. cpnet[1].kind = "tab"
      BY <3>1 DEF ComposerInv, Waits
    <3>3. QED
      BY <1>2, <1>6, <3>2
  <2>9. QED
    BY <1>4, <2>2, <2>3, <2>6, <2>7, <2>8
<1>7. Kept(y) /\ Shown(y) /\ y.live = y.active
  BY <1>3, CloseTabKept
<1> HIDE DEF y
<1>8. CASE cp' = y
  <2>1. Waits(cp', rest)
    BY <1>7, <1>8 DEF Waits
  <2>2. QED
    BY <1>4, <1>7, <1>8, <2>1
<1>9. CASE \E ch \in y.chats : cp' = ActivateChatView(y, ch)
  <2>1. PICK ch \in y.chats : cp' = ActivateChatView(y, ch)
    BY <1>9
  <2>2. ch \in Chats
    BY <1>7 DEF Kept
  <2>3. Kept(cp') /\ Shown(cp') /\ cp'.live = ch /\ cp'.active = ch
    BY <1>7, <2>1, <2>2, ActivateKept
  <2>4. Waits(cp', rest)
    BY <2>3 DEF Waits
  <2>5. QED
    BY <1>4, <2>3, <2>4
<1>10. QED
  BY <1>1, <1>5, <1>6, <1>8, <1>9

\* A chat's record is read.
LEMMA LoadServedStep ==
  ASSUME ComposerInv, LoadServed
  PROVE  ComposerInv'
<1> DEFINE load == Append(cp.load, Served(cp.load[1]))
<1>1. Has(cp, CpFields) /\ LoadFits(cp.load) /\ ServerFits(cpsrv)
  BY DEF ComposerInv, Kept
<1>2. cp' = [cp EXCEPT !.load = load] /\ Len(cp.load) = 1 /\ UNCHANGED <<cpsrv, cpnet>>
  BY <1>1 DEF LoadServed
<1>3. PICK ch \in Chats : cp.load = <<ch>>
  BY <1>1, <1>2 DEF LoadFits
<1>4. load = <<ch, Served(ch)>>
  <2>1. cp.load[1] = ch
    BY <1>3
  <2> DEFINE rec == Served(ch)
             S == {ch, rec}
  <2> HIDE DEF rec
  <2>2. /\ Append(<<ch>>, rec) \in Seq(S) /\ Len(Append(<<ch>>, rec)) = 2
        /\ Append(<<ch>>, rec)[1] = ch /\ Append(<<ch>>, rec)[2] = rec
    OBVIOUS
  <2>3. <<ch, rec>> \in Seq(S) /\ Len(<<ch, rec>>) = 2
    OBVIOUS
  <2>4. \A i \in 1..2 : Append(<<ch>>, rec)[i] = <<ch, rec>>[i]
    BY <2>2
  <2>5. Append(<<ch>>, rec) = <<ch, rec>>
    <3> DEFINE s == Append(<<ch>>, rec)
               t == <<ch, rec>>
    <3>1. s \in Seq(S) /\ t \in Seq(S) /\ Len(s) = Len(t) /\ \A i \in 1..Len(s) : s[i] = t[i]
      BY <2>2, <2>3, <2>4
    <3> HIDE DEF s, t, S
    <3>2. s = t
      BY <3>1, SeqEqual
    <3>3. QED
      BY <3>2 DEF s, t
  <2>6. QED
    BY <1>3, <2>1, <2>5 DEF rec
<1>5. LoadFits(load)
  BY <1>1, <1>4, ServedFits DEF LoadFits
<1> HIDE DEF load
<1>6. Kept(cp') /\ Same(cp, cp')
  BY <1>1, <1>2, <1>5 DEF ComposerInv, Kept, Has, CpFields, Same
<1>7. QED
  BY <1>2, <1>6, SameStep

\* The read lands in the activation that asked for it, or nowhere.
LEMMA LoadLandsStep ==
  ASSUME ComposerInv, LoadLands
  PROVE  ComposerInv'
<1> DEFINE ch == cp.load[1]
           rec == cp.load[2]
           x == [cp EXCEPT !.load = <<>>]
           y == SeedComposer(x, ch, rec)
           loaded == y.loaded \cup {ch}
<1>1. Len(cp.load) = 2 /\ UNCHANGED <<cpsrv, cpnet>>
  BY DEF LoadLands
<1>2. ch \in Chats /\ RecFits(ch, rec)
  <2>1. LoadFits(cp.load)
    BY DEF ComposerInv, Kept
  <2>2. PICK c \in Chats : \E q : cp.load = <<c, q>> /\ RecFits(c, q)
    BY <1>1, <2>1 DEF LoadFits
  <2>3. PICK q : cp.load = <<c, q>> /\ RecFits(c, q)
    BY <2>2
  <2>4. QED
    BY <2>3
<1>3. cp' = IF cp.active # ch THEN x ELSE [y EXCEPT !.loaded = loaded]
  BY DEF LoadLands
<1>4. Kept(x) /\ Same(cp, x)
  BY DEF ComposerInv, Kept, Has, CpFields, Same, LoadFits
<1> HIDE DEF x, ch, rec
<1>5. CASE cp.active # ch
  BY <1>1, <1>3, <1>4, <1>5, SameStep
<1>6. CASE cp.active = ch
  <2>1. Kept(y) /\ y.live = x.live /\ y.active = x.active /\ (y.box = x.box \/ (ch = x.live /\ y.box = rec.text))
    BY <1>2, <1>4, SeedKept
  <2> HIDE DEF y, loaded
  <2>2. Kept(cp') /\ cp'.live = y.live /\ cp'.active = y.active /\ cp'.box = y.box
    BY <1>3, <1>6, <2>1 DEF Kept, Has, CpFields
  <2>3. OwnText(cp.active, y.box)
    <3>1. CASE y.box = x.box
      <4>1. cp.active # NoChat /\ x.box = cp.box
        BY <1>2, <1>4, <1>6, ChatsAssumption DEF Same
      <4>2. QED
        BY <3>1, <4>1 DEF ComposerInv, Shown
    <3>2. CASE y.box = rec.text
      BY <1>2, <1>6, <3>2 DEF RecFits
    <3>3. QED
      BY <2>1, <3>1, <3>2
  <2>4. QED
    BY <1>1, <1>4, <2>1, <2>2, <2>3, ClientStep DEF Same
<1>7. QED
  BY <1>5, <1>6

\* A step of the client and the server with no frame.
LEMMA ServerStep ==
  ASSUME ComposerInv, Kept(cp'), Same(cp, cp'), ServerFits(cpsrv'), UNCHANGED cpnet
  PROVE  ComposerInv'
<1>1. Shown(cp') /\ Waits(cp', cpnet)
  BY DEF ComposerInv, Shown, Waits, Same
<1>2. QED
  BY <1>1 DEF ComposerInv

\* The server answers a send, and may have taken it.
LEMMA SendServedStep ==
  ASSUME ComposerInv, SendServed
  PROVE  ComposerInv'
<1>1. PICK i \in DOMAIN cp.sends, r \in Results :
        /\ cp' = [cp EXCEPT !.sends[i].res = r]
        /\ \/ UNCHANGED cpsrv
           \/ cpsrv' = [cpsrv EXCEPT !.took = @ \cup Took(cp.sends[i]), !.busy = @ \cup {cp.sends[i].chat}]
  BY DEF SendServed, Results
<1> DEFINE s == cp.sends[i]
           sends == [cp.sends EXCEPT ![i].res = r]
           took == cpsrv.took \cup Took(s)
           busy == cpsrv.busy \cup {s.chat}
<1>2. Has(cp, CpFields) /\ SendsFit(cp.sends) /\ ServerFits(cpsrv)
  BY DEF ComposerInv, Kept
<1>3. SendsFit(sends) /\ SendFits(s)
  BY <1>2, SendsServed, SendsRemove
<1>4. cp' = [cp EXCEPT !.sends = sends]
  BY <1>1, <1>2
<1> HIDE DEF s, sends
<1>5. Kept(cp') /\ Same(cp, cp')
  BY <1>2, <1>3, <1>4 DEF ComposerInv, Kept, Has, CpFields, Same
<1>6. KnownFits(took)
  BY <1>2, <1>3 DEF ServerFits, KnownFits, Took, SendFits
<1>7. ServerFits(cpsrv')
  <2>1. CASE UNCHANGED cpsrv
    BY <1>2, <2>1
  <2>2. CASE cpsrv' = [cpsrv EXCEPT !.took = took, !.busy = busy]
    <3> HIDE DEF took, busy
    <3>1. QED
      BY <1>2, <1>6, <2>2 DEF ServerFits, Has
  <2>3. QED
    BY <1>1, <1>2, <2>1, <2>2 DEF ServerFits, Has, s
<1>8. UNCHANGED cpnet
  BY DEF SendServed
<1>9. QED
  BY <1>5, <1>7, <1>8, ServerStep

\* A send takes its answer.
LEMMA SendAnsweredStep ==
  ASSUME ComposerInv, SendAnswered
  PROVE  ComposerInv'
<1>1. PICK i \in DOMAIN cp.sends : cp.sends[i].res # "" /\ cp' = Answered(cp, i)
  BY DEF SendAnswered
<1>2. /\ Kept(cp') /\ cp'.live = cp.live /\ cp'.active = cp.active
      /\ (cp'.box = cp.box \/ (cp.live # NoChat /\ OwnText(cp.live, cp'.box)))
  BY <1>1, AnsweredKept DEF ComposerInv
<1>3. UNCHANGED <<cpsrv, cpnet>>
  BY DEF SendAnswered
<1>4. cp.active # NoChat => OwnText(cp.active, cp'.box)
  <2>1. CASE cp'.box = cp.box
    BY <2>1 DEF ComposerInv, Shown
  <2>2. CASE cp.live # NoChat /\ OwnText(cp.live, cp'.box)
    BY <2>2 DEF ComposerInv, Shown
  <2>3. QED
    BY <1>2, <2>1, <2>2
<1>5. QED
  BY <1>2, <1>3, <1>4, ClientStep

\* A prompt the server took is drawn.
LEMMA EchoStep ==
  ASSUME ComposerInv, EchoArrives
  PROVE  ComposerInv'
<1>1. PICK m \in cpsrv.took : cp' = [cp EXCEPT !.known = @ \cup {m}, !.thinking = @ \cup {m.chat}]
  BY DEF EchoArrives
<1> DEFINE known == cp.known \cup {m}
           thinking == cp.thinking \cup {m.chat}
<1>2. Has(cp, CpFields) /\ KnownFits(known)
  BY DEF ComposerInv, Kept, ServerFits, KnownFits
<1>3. cp' = [cp EXCEPT !.known = known, !.thinking = thinking] /\ UNCHANGED <<cpsrv, cpnet>>
  BY <1>1, <1>2 DEF EchoArrives
<1> HIDE DEF known, thinking
<1>4. Kept(cp') /\ Same(cp, cp')
  BY <1>2, <1>3 DEF ComposerInv, Kept, Has, CpFields, Same
<1>5. QED
  BY <1>3, <1>4, SameStep

\* A turn ends.
LEMMA TurnEndsStep ==
  ASSUME ComposerInv, TurnEnds
  PROVE  ComposerInv'
<1>1. PICK ch \in cpsrv.busy : /\ cpsrv' = [cpsrv EXCEPT !.busy = @ \ {ch}]
                               /\ cp' = [cp EXCEPT !.thinking = @ \ {ch}]
  BY DEF TurnEnds
<1> DEFINE busy == cpsrv.busy \ {ch}
           thinking == cp.thinking \ {ch}
<1>2. Has(cp, CpFields) /\ ServerFits(cpsrv)
  BY DEF ComposerInv, Kept
<1>3. /\ cpsrv' = [cpsrv EXCEPT !.busy = busy] /\ cp' = [cp EXCEPT !.thinking = thinking]
      /\ UNCHANGED cpnet
  BY <1>1, <1>2 DEF TurnEnds
<1> HIDE DEF busy, thinking
<1>4. Kept(cp') /\ Same(cp, cp')
  BY <1>2, <1>3 DEF ComposerInv, Kept, Has, CpFields, Same
<1>5. ServerFits(cpsrv')
  BY <1>2, <1>3 DEF ServerFits, Has
<1>6. QED
  BY <1>3, <1>4, <1>5, ServerStep

----------------------------------------------------------------------------
\* The theorem.

\* A chat is shown, its draft empty.
LEMMA ComposerInitHolds == ComposerInit => ComposerInv
<1> SUFFICES ASSUME ComposerInit PROVE ComposerInv
  OBVIOUS
<1>1. PICK first \in Chats :
        cp = [live |-> first, active |-> first, box |-> Blank, chats |-> Chats,
              drafts |-> [ch \in Chats |-> IF ch = first THEN Blank ELSE Unset], slot |-> <<>>,
              row |-> {}, stash |-> [ch \in Chats |-> {}], touched |-> {first},
              gens |-> [ch \in Chats |-> 0], fslot |-> <<>>,
              out |-> [ch \in Chats |-> <<>>], load |-> <<>>, loaded |-> {first},
              thinking |-> {}, sends |-> <<>>, failed |-> NoFailure, minted |-> 0,
              known |-> Past, browse |-> [on |-> FALSE, kept |-> Blank, at |-> NoChat],
              edit |-> <<>>]
  BY DEF ComposerInit
<1>2. DraftsFit([ch \in Chats |-> IF ch = first THEN Blank ELSE Unset])
  BY DEF DraftsFit, OnChats, OwnText
<1>3. FilesFit([ch \in Chats |-> {}]) /\ DraftsFit([ch \in Chats |-> Blank])
  BY DEF FilesFit, DraftsFit, OnChats, OwnText
<1>4. OutFits([ch \in Chats |-> <<>>])
  <2> DEFINE none == {}
  <2>1. <<>> \in Seq(none) /\ \A ch \in Chats : \A r \in none : SaveFits(ch, r)
    OBVIOUS
  <2> HIDE DEF none
  <2>2. QED
    BY <2>1 DEF OutFits, OnChats
<1>5. SendsFit(<<>>)
  <2> DEFINE none == {}
  <2>1. <<>> \in Seq(none) /\ \A s \in none : SendFits(s)
    OBVIOUS
  <2> HIDE DEF none
  <2>2. QED
    BY <2>1 DEF SendsFit
<1>6. BrowseFits([on |-> FALSE, kept |-> Blank, at |-> NoChat])
  BY DEF BrowseFits, Has
<1>7. Kept(cp)
  <2>1. Has(cp, CpFields)
    BY <1>1 DEF Has, CpFields
  <2>2. KnownFits(Past)
    BY DEF KnownFits, Past, OwnText, Blank, Unset
  <2>3. KnownFits(cp.known)
    BY <1>1, <2>2
  <2>4. QED
    BY <1>1, <1>2, <1>3, <1>4, <1>5, <1>6, <2>1, <2>3
    DEF Kept, SlotFits, DueFits, LoadFits, EditFits, RowFits
<1>8. Shown(cp)
  BY <1>1 DEF Shown, OwnText
<1>9. ServerFits(cpsrv)
  BY <1>3 DEF ComposerInit, ServerFits, Has, KnownFits
<1>10. FramesFit(cpnet) /\ Paired(cpnet)
  <2>1. cpnet = <<>> /\ <<>> \in Seq({}) /\ \A f \in {} : FrameFits(f)
    BY DEF ComposerInit
  <2>2. QED
    BY <2>1 DEF FramesFit, Paired
<1>11. Waits(cp, cpnet)
  BY <1>1 DEF Waits
<1>12. QED
  BY <1>7, <1>8, <1>9, <1>10, <1>11 DEF ComposerInv

\* Every step keeps the invariant.
LEMMA ComposerNextHolds == ComposerInv /\ [ComposerNext]_cpvars => ComposerInv'
<1> SUFFICES ASSUME ComposerInv, [ComposerNext]_cpvars PROVE ComposerInv'
  OBVIOUS
<1>1. CASE UNCHANGED cpvars
  BY <1>1 DEF cpvars, ComposerInv
<1>2. CASE Type \/ Recall \/ StopBrowsing \/ Submit \/ AttachFile \/ RemoveFile
  BY <1>2, TypeStep, RecallStep, StopBrowsingStep, SubmitStep, AttachFileStep, RemoveFileStep
<1>3. CASE ShowChat \/ CloseChat \/ TakeBack \/ EditAnswered \/ Blur
  BY <1>3, ShowChatStep, CloseChatStep, TakeBackStep, EditAnsweredStep, BlurStep
<1>4. CASE DraftSaveFires \/ FilesSaveFires \/ SaveServed \/ SaveLost
  BY <1>4, DraftSaveStep, FilesSaveStep, SaveServedStep, SaveLostStep
<1>5. CASE RemoteDraft \/ RemoteDelete \/ FrameArrives \/ LoadServed \/ LoadLands
  BY <1>5, RemoteDraftStep, RemoteDeleteStep, FrameArrivesStep, LoadServedStep, LoadLandsStep
<1>6. CASE SendServed \/ SendAnswered \/ EchoArrives \/ TurnEnds
  BY <1>6, SendServedStep, SendAnsweredStep, EchoStep, TurnEndsStep
<1>7. QED
  BY <1>1, <1>2, <1>3, <1>4, <1>5, <1>6 DEF ComposerNext

\* The invariant says more than NoBleed.
LEMMA InvNoBleed == ComposerInv => NoBleed
<1> SUFFICES ASSUME ComposerInv PROVE NoBleed
  OBVIOUS
<1>1. Kept(cp) /\ Shown(cp) /\ ServerFits(cpsrv)
  BY DEF ComposerInv
<1>2. cp.live # NoChat => OwnText(cp.live, cp.box) /\ cp.row \subseteq {cp.live}
  BY <1>1 DEF Kept, Shown, RowFits
<1>3. \A m \in cpsrv.took : OwnText(m.chat, m.text)
  BY <1>1 DEF ServerFits, KnownFits
<1>4. ASSUME NEW ch \in Chats
      PROVE  /\ OwnText(ch, cp.drafts[ch]) /\ OwnText(ch, cpsrv.draft[ch])
             /\ cp.stash[ch] \subseteq {ch} /\ cpsrv.files[ch] \subseteq {ch}
  BY <1>1 DEF Kept, ServerFits, DraftsFit, FilesFit
<1>5. ASSUME NEW ch \in Chats, NEW r \in Range(cp.out[ch])
      PROVE  IF r.kind = "draft" THEN OwnText(ch, r.val) ELSE r.val \subseteq {ch}
  <2>1. PICK S : cp.out[ch] \in Seq(S) /\ \A q \in S : SaveFits(ch, q)
    BY <1>1 DEF Kept, OutFits
  <2>2. r \in S
    BY <2>1 DEF Range
  <2>3. QED
    BY <2>1, <2>2 DEF SaveFits
<1>6. QED
  BY <1>2, <1>3, <1>4, <1>5 DEF NoBleed

(***************************************************************************)
(* NothingBleeds: of any number of chats, however the user switches,       *)
(* closes, browses and sends while saves, sends and deletions are under    *)
(* way, no chat's words or files end up in another chat.                   *)
(***************************************************************************)
THEOREM NothingBleeds == ComposerSpec => []NoBleed
<1>1. ComposerInit => ComposerInv
  BY ComposerInitHolds
<1>2. ComposerInv /\ [ComposerNext]_cpvars => ComposerInv'
  BY ComposerNextHolds
<1>3. ComposerInv => NoBleed
  BY InvNoBleed
<1>4. QED
  BY <1>1, <1>2, <1>3, PTL DEF ComposerSpec

----------------------------------------------------------------------------
(* The dock.                                                               *)

Row == [id : Nat, kas : Nat, pending : BOOLEAN, compacted : BOOLEAN, unsent : BOOLEAN]

Call == [kind : {"steer", "clear", "remove"}, id : Nat, removed : Seq(Row), res : {"", "ok", "error"}]

DockFrame == [kind : {"row", "entry", "batch", "compaction"}, id : Nat,
          state : {"", "queued", "unsent", "removed"}, keys : SUBSET Nat]

Dock == [rows : Seq(Row), entries : SUBSET Nat, calls : Seq(Call), restored : SUBSET Nat]

\* A row no rollback put back is under no id that was read, once it is confirmed.
RowHolds(x, r) ==
    \/ r.id \in x.restored
    \/ /\ r.kas # NoKas => r.kas \notin x.entries
       /\ ~r.pending => r.id \notin x.entries

RowsHold(x) == \A r \in ToSet(x.rows) : RowHolds(x, r)

Good(x) == x \in Dock /\ RowsHold(x)

SrvTyped ==
    /\ sdsrv \in [held : SUBSET Nat, batch : SUBSET Nat, live : BOOLEAN, minted : Nat]
    /\ IsFiniteSet(sdsrv.held) /\ IsFiniteSet(sdsrv.batch)

SteersInv == Good(sd) /\ SrvTyped /\ sdnet \in Seq(DockFrame)

----------------------------------------------------------------------------
\* The rows, one operation at a time.

\* The elements of a sequence, and of one changed in place.
LEMMA Elements ==
  ASSUME NEW X, NEW s \in Seq(X)
  PROVE  /\ ToSet(s) = {s[i] : i \in 1..Len(s)} /\ ToSet(s) \subseteq X
         /\ \A f \in [DOMAIN s -> X] : f \in Seq(X) /\ ToSet(f) = {f[i] : i \in DOMAIN s}
<1>1. DOMAIN s = 1..Len(s) /\ Len(s) \in Nat
  BY LenProperties
<1>2. \A i \in 1..Len(s) : s[i] \in X
  BY ElementOfSeq
<1>3. ASSUME NEW f \in [DOMAIN s -> X]
      PROVE  f \in Seq(X) /\ ToSet(f) = {f[i] : i \in DOMAIN s}
  <2>1. f \in [1..Len(s) -> X] /\ DOMAIN f = DOMAIN s
    BY <1>1, <1>3
  <2>2. f \in Seq(X)
    BY <1>1, <2>1, IsASeq
  <2>3. QED
    BY <2>1, <2>2 DEF ToSet
<1>4. QED
  BY <1>1, <1>2, <1>3 DEF ToSet

\* Rows taken out leave rows that hold.
LEMMA FewerRows ==
  ASSUME NEW x, Good(x), NEW I
  PROVE  /\ Pick(x.rows, I) \in Seq(Row)
         /\ ToSet(Pick(x.rows, I)) \subseteq ToSet(x.rows)
         /\ Good([x EXCEPT !.rows = Pick(@, I)])
<1>1. x \in Dock /\ x.rows \in Seq(Row)
  BY DEF Good, Dock
<1>2. /\ Pick(x.rows, I) \in Seq(Row)
      /\ ToSet(Pick(x.rows, I)) = {x.rows[i] : i \in {j \in 1..Len(x.rows) : j \in I}}
  BY <1>1, PickElements
<1>3. ToSet(x.rows) = {x.rows[i] : i \in 1..Len(x.rows)}
  BY <1>1, Elements
<1>4. ToSet(Pick(x.rows, I)) \subseteq ToSet(x.rows)
  BY <1>2, <1>3
<1> DEFINE y == [x EXCEPT !.rows = Pick(@, I)]
<1>5. y \in Dock /\ y.rows = Pick(x.rows, I) /\ y.entries = x.entries /\ y.restored = x.restored
  BY <1>1, <1>2 DEF Dock
<1> HIDE DEF y
<1>6. Good(y)
  BY <1>4, <1>5 DEF Good, RowsHold, RowHolds
<1>7. QED
  BY <1>2, <1>4, <1>6 DEF y

\* Rows changed in place hold when each of them does.
LEMMA ChangedRows ==
  ASSUME NEW x, Good(x), NEW f \in [DOMAIN x.rows -> Row],
         \A i \in DOMAIN x.rows : RowHolds(x, f[i])
  PROVE  Good([x EXCEPT !.rows = f])
<1>1. x \in Dock /\ x.rows \in Seq(Row)
  BY DEF Good, Dock
<1>2. f \in Seq(Row) /\ ToSet(f) = {f[i] : i \in DOMAIN x.rows}
  BY <1>1, Elements
<1> DEFINE y == [x EXCEPT !.rows = f]
<1>3. y \in Dock /\ y.rows = f /\ y.entries = x.entries /\ y.restored = x.restored
  BY <1>1, <1>2 DEF Dock
<1> HIDE DEF y
<1>4. Good(y)
  BY <1>2, <1>3 DEF Good, RowsHold, RowHolds
<1>5. QED
  BY <1>4 DEF y

\* A row that holds may be added.
LEMMA OneMoreRow ==
  ASSUME NEW x, Good(x), NEW r \in Row, RowHolds(x, r)
  PROVE  Good([x EXCEPT !.rows = Append(@, r)])
<1>1. x \in Dock /\ x.rows \in Seq(Row)
  BY DEF Good, Dock
<1>2. Append(x.rows, r) \in Seq(Row) /\ ToSet(Append(x.rows, r)) = ToSet(x.rows) \cup {r}
  BY <1>1, ToSetAppend, AppendProperties
<1> DEFINE y == [x EXCEPT !.rows = Append(@, r)]
<1>3. y \in Dock /\ y.rows = Append(x.rows, r) /\ y.entries = x.entries /\ y.restored = x.restored
  BY <1>1, <1>2 DEF Dock
<1> HIDE DEF y
<1>4. Good(y)
  BY <1>2, <1>3 DEF Good, RowsHold, RowHolds
<1>5. QED
  BY <1>4 DEF y

\* Each row at its place is a row that holds.
LEMMA EachRow ==
  ASSUME NEW x, Good(x), NEW i \in DOMAIN x.rows
  PROVE  x.rows[i] \in Row /\ RowHolds(x, x.rows[i])
<1>1. x.rows \in Seq(Row)
  BY DEF Good, Dock
<1>2. x.rows[i] \in ToSet(x.rows) /\ x.rows[i] \in Row
  BY <1>1, ElementOfSeq, LenProperties DEF ToSet
<1>3. QED
  BY <1>2 DEF Good, RowsHold

----------------------------------------------------------------------------
\* The operations of store.ts, each over rows that hold.

\* A row taken out by its id, or one of several.
LEMMA ForgetGood ==
  ASSUME NEW x, Good(x), NEW ids, NEW id
  PROVE  Good([x EXCEPT !.rows = Without(@, ids)]) /\ Good(ForgetSteer(x, id))
BY FewerRows DEF Without, ForgetSteer

\* The optimistic row of a steer being sent.
LEMMA SentGood ==
  ASSUME NEW x, Good(x), NEW id \in Nat
  PROVE  Good(RecordSent(x, id))
<1> DEFINE row == [id |-> id, kas |-> NoKas, pending |-> TRUE, compacted |-> FALSE, unsent |-> FALSE]
<1>1. row \in Row /\ RowHolds(x, row)
  BY DEF Row, RowHolds, NoKas
<1> HIDE DEF row
<1> DEFINE f == [i \in DOMAIN x.rows |-> IF x.rows[i].id = id THEN row ELSE x.rows[i]]
<1>2. f \in [DOMAIN x.rows -> Row]
  BY <1>1, EachRow
<1>3. \A i \in DOMAIN x.rows : RowHolds(x, f[i])
  BY <1>1, EachRow
<1>4. Good([x EXCEPT !.rows = f])
  <2> HIDE DEF f
  <2> QED
    BY <1>2, <1>3, ChangedRows
<1>5. Good([x EXCEPT !.rows = Append(@, row)])
  BY <1>1, OneMoreRow
<1>6. RecordSent(x, id) = IF id \in RowIds(x.rows) THEN [x EXCEPT !.rows = f]
                          ELSE [x EXCEPT !.rows = Append(@, row)]
  BY DEF RecordSent, row
<1>7. QED
  BY <1>4, <1>5, <1>6

\* A row frame, or a steer's answer: the transcript was asked first.
LEMMA QueuedGood ==
  ASSUME NEW x, Good(x), NEW id \in Nat, NEW state
  PROVE  Good(RecordQueued(x, id, state))
<1> DEFINE unsent == state = "unsent"
           new == [id |-> id, kas |-> NoKas, pending |-> FALSE, compacted |-> FALSE, unsent |-> unsent]
           f == [i \in DOMAIN x.rows |->
                   IF x.rows[i].id = id
                   THEN [x.rows[i] EXCEPT !.pending = FALSE, !.unsent = unsent] ELSE x.rows[i]]
<1>1. CASE state = "removed" \/ id \in x.entries
  BY <1>1, ForgetGood DEF RecordQueued
<1>2. CASE state # "removed" /\ id \notin x.entries /\ id \in RowIds(x.rows)
  <2>1. \A i \in DOMAIN x.rows : x.rows[i] \in Row /\ RowHolds(x, x.rows[i])
    BY EachRow
  <2>2. ASSUME NEW i \in DOMAIN x.rows PROVE f[i] \in Row /\ RowHolds(x, f[i])
    <3>1. CASE x.rows[i].id = id
      <4> DEFINE r == x.rows[i]
                 s == [r EXCEPT !.pending = FALSE, !.unsent = unsent]
      <4>1. r \in Row /\ RowHolds(x, r) /\ r.id = id
        BY <2>1, <3>1
      <4>2. unsent \in BOOLEAN
        OBVIOUS
      <4>3. s \in Row /\ s.id = id /\ s.kas = r.kas /\ s.pending = FALSE
        <5> HIDE DEF r, unsent
        <5> QED
          BY <4>1, <4>2 DEF Row
      <4>4. RowHolds(x, s)
        BY <1>2, <4>1, <4>3 DEF RowHolds
      <4>5. QED
        BY <3>1, <4>3, <4>4
    <3>2. CASE x.rows[i].id # id
      BY <2>1, <3>2
    <3>3. QED
      BY <3>1, <3>2
  <2> HIDE DEF f
  <2>3. f \in [DOMAIN x.rows -> Row]
    <3>1. f = [i \in DOMAIN x.rows |-> f[i]]
      BY DEF f
    <3>2. QED
      BY <2>2, <3>1
  <2>4. Good([x EXCEPT !.rows = f])
    BY <2>2, <2>3, ChangedRows
  <2>5. RecordQueued(x, id, state) = [x EXCEPT !.rows = f]
    BY <1>2 DEF RecordQueued, f
  <2>6. QED
    BY <2>4, <2>5
<1>3. CASE state # "removed" /\ id \notin x.entries /\ id \notin RowIds(x.rows)
  <2>1. new \in Row /\ RowHolds(x, new)
    <3>1. unsent \in BOOLEAN
      OBVIOUS
    <3> HIDE DEF unsent
    <3>2. QED
      BY <1>3, <3>1 DEF Row, RowHolds, NoKas
  <2> HIDE DEF new
  <2>2. Good([x EXCEPT !.rows = Append(@, new)])
    BY <2>1, OneMoreRow
  <2>3. RecordQueued(x, id, state) = [x EXCEPT !.rows = Append(@, new)]
    BY <1>3 DEF RecordQueued, new
  <2>4. QED
    BY <2>2, <2>3
<1>4. QED
  BY <1>1, <1>2, <1>3

\* A batch: rows go under its id while it is unread, and go away once it was read.
LEMMA BatchGood ==
  ASSUME NEW x, Good(x), NEW batch \in Nat, NEW keys
  PROVE  Good(AdoptBatch(x, batch, keys))
<1>1. CASE batch \in x.entries
  BY <1>1, ForgetGood DEF AdoptBatch
<1>2. CASE batch \notin x.entries
  <2> DEFINE f == [i \in DOMAIN x.rows |-> IF x.rows[i].id \in keys
                     THEN [x.rows[i] EXCEPT !.kas = batch] ELSE x.rows[i]]
  <2>1. ASSUME NEW i \in DOMAIN x.rows PROVE f[i] \in Row /\ RowHolds(x, f[i])
    <3> DEFINE r == x.rows[i]
               s == [r EXCEPT !.kas = batch]
    <3>1. r \in Row /\ RowHolds(x, r)
      BY EachRow
    <3>2. s \in Row /\ s.id = r.id /\ s.kas = batch /\ s.pending = r.pending
      <4> HIDE DEF r
      <4> QED
        BY <3>1 DEF Row
    <3>3. RowHolds(x, s)
      BY <1>2, <3>1, <3>2 DEF RowHolds
    <3>4. QED
      BY <3>1, <3>2, <3>3
  <2> HIDE DEF f
  <2>2. f \in [DOMAIN x.rows -> Row]
    <3>1. f = [i \in DOMAIN x.rows |-> f[i]]
      BY DEF f
    <3>2. QED
      BY <2>1, <3>1
  <2>3. Good([x EXCEPT !.rows = f])
    BY <2>1, <2>2, ChangedRows
  <2>4. AdoptBatch(x, batch, keys) = [x EXCEPT !.rows = f]
    BY <1>2 DEF AdoptBatch, f
  <2>5. QED
    BY <2>3, <2>4
<1>3. QED
  BY <1>1, <1>2

\* A read: its id joins the transcript as the rows under it go.
LEMMA ReadGood ==
  ASSUME NEW x, Good(x), NEW id \in Nat
  PROVE  Good(RetireRows(x, id))
<1> DEFINE I == {i \in DOMAIN x.rows : ~Settles(id, x.rows[i])}
           y == RetireRows(x, id)
<1>1. x \in Dock /\ x.rows \in Seq(Row) /\ x.entries \subseteq Nat
  BY DEF Good, Dock
<1>2. /\ Pick(x.rows, I) \in Seq(Row)
      /\ ToSet(Pick(x.rows, I)) = {x.rows[i] : i \in {j \in 1..Len(x.rows) : j \in I}}
  BY <1>1, PickElements
<1>3. /\ y \in Dock /\ y.rows = Pick(x.rows, I)
      /\ y.entries = x.entries \cup {id} /\ y.restored = x.restored
  <2>1. y = [x EXCEPT !.entries = x.entries \cup {id}, !.rows = Pick(x.rows, I)]
    BY DEF RetireRows
  <2> HIDE DEF y, I
  <2>2. QED
    BY <1>1, <1>2, <2>1 DEF Dock
<1> HIDE DEF y
<1>4. ASSUME NEW r \in ToSet(Pick(x.rows, I)) PROVE RowHolds(y, r)
  <2>1. PICK i \in DOMAIN x.rows : r = x.rows[i] /\ ~Settles(id, r)
    BY <1>2, <1>4
  <2>2. RowHolds(x, r) /\ r \in Row
    BY <2>1, EachRow
  <2>3. QED
    BY <1>3, <2>1, <2>2 DEF RowHolds, Settles, Row
<1>5. Good(y)
  BY <1>3, <1>4 DEF Good, RowsHold
<1>6. QED
  BY <1>5 DEF y

\* A compaction marks rows, and changes nothing they are read under.
LEMMA CompactedGood ==
  ASSUME NEW x, Good(x)
  PROVE  Good(MarkCompacted(x))
<1> DEFINE f == [i \in DOMAIN x.rows |-> [x.rows[i] EXCEPT !.compacted = TRUE]]
<1>1. ASSUME NEW i \in DOMAIN x.rows PROVE f[i] \in Row /\ RowHolds(x, f[i])
  <2> DEFINE r == x.rows[i]
             s == [r EXCEPT !.compacted = TRUE]
  <2>1. r \in Row /\ RowHolds(x, r)
    BY EachRow
  <2>2. s \in Row /\ s.id = r.id /\ s.kas = r.kas /\ s.pending = r.pending
    <3> HIDE DEF r
    <3> QED
      BY <2>1 DEF Row
  <2>3. QED
    BY <2>1, <2>2 DEF RowHolds
<1> HIDE DEF f
<1>2. f \in [DOMAIN x.rows -> Row]
  <2>1. f = [i \in DOMAIN x.rows |-> f[i]]
    BY DEF f
  <2>2. QED
    BY <1>1, <2>1
<1>3. Good([x EXCEPT !.rows = f])
  BY <1>1, <1>2, ChangedRows
<1>4. QED
  BY <1>3 DEF MarkCompacted, f

----------------------------------------------------------------------------
\* Frames, one by one and a snapshot's worth of them.

\* Any frame, through its handler.
LEMMA FrameGood ==
  ASSUME NEW x, Good(x), NEW f \in DockFrame
  PROVE  Good(FrameReaches(x, f))
<1>1. f.id \in Nat /\ f.kind \in {"row", "entry", "batch", "compaction"}
  BY DEF DockFrame
<1>2. CASE f.kind = "row"
  BY <1>1, <1>2, QueuedGood DEF FrameReaches
<1>3. CASE f.kind = "batch"
  BY <1>1, <1>3, BatchGood DEF FrameReaches
<1>4. CASE f.kind = "entry"
  BY <1>1, <1>4, ReadGood DEF FrameReaches
<1>5. CASE f.kind = "compaction"
  BY <1>1, <1>5, CompactedGood DEF FrameReaches
<1>6. QED
  BY <1>1, <1>2, <1>3, <1>4, <1>5

\* One step of the recursion of AllReach.
Reaching(x, fs, g, n) ==
    g = [k \in 0..n |-> IF k = 0 THEN x ELSE FrameReaches(g[k - 1], fs[k])]

\* The recursion has a solution, however many frames there are.
LEMMA ReachingExists ==
  ASSUME NEW x, NEW fs, NEW n \in Nat
  PROVE  \E g : Reaching(x, fs, g, n)
<1> DEFINE T == {k \in Nat : \E g : Reaching(x, fs, g, k)}
<1>1. 0 \in T
  <2>1. Reaching(x, fs, [k \in 0..0 |-> x], 0)
    BY DEF Reaching
  <2>2. QED
    BY <2>1
<1>2. ASSUME NEW k \in T, k \in Nat PROVE k + 1 \in T
  <2>1. PICK g : Reaching(x, fs, g, k)
    OBVIOUS
  <2> DEFINE h == [i \in 0..(k + 1) |-> IF i <= k THEN g[i] ELSE FrameReaches(g[i - 1], fs[i])]
  <2>2. \A i \in 0..(k + 1) : h[i] = IF i = 0 THEN x ELSE FrameReaches(h[i - 1], fs[i])
    <3> TAKE i \in 0..(k + 1)
    <3>1. CASE i = 0
      BY <1>2, <2>1, <3>1 DEF Reaching
    <3>2. CASE i \in 1..k
      <4>1. h[i] = g[i] /\ h[i - 1] = g[i - 1] /\ i \in 0..k /\ i # 0
        BY <1>2, <3>2
      <4>2. g[i] = FrameReaches(g[i - 1], fs[i])
        BY <2>1, <4>1 DEF Reaching
      <4>3. QED
        BY <4>1, <4>2
    <3>3. CASE i = k + 1
      <4>1. h[i - 1] = g[i - 1] /\ h[i] = FrameReaches(g[i - 1], fs[i]) /\ i # 0
        BY <1>2, <3>3
      <4>2. QED
        BY <4>1
    <3>4. QED
      BY <1>2, <3>1, <3>2, <3>3
  <2>3. Reaching(x, fs, h, k + 1)
    BY <2>2 DEF Reaching
  <2>4. QED
    BY <1>2, <2>3
<1> HIDE DEF T
<1>3. Nat \subseteq T
  BY <1>1, <1>2, NatInduct
<1>4. QED
  BY <1>3 DEF T

\* Any frames, in any number.
LEMMA AllReachGood ==
  ASSUME NEW x, Good(x), NEW fs \in Seq(DockFrame)
  PROVE  Good(AllReach(x, fs))
<1> DEFINE G == CHOOSE g : Reaching(x, fs, g, Len(fs))
<1>1. Len(fs) \in Nat /\ \A k \in 1..Len(fs) : fs[k] \in DockFrame
  BY LenProperties, ElementOfSeq
<1>2. Reaching(x, fs, G, Len(fs))
  BY <1>1, ReachingExists
<1>3. AllReach(x, fs) = G[Len(fs)]
  BY DEF AllReach, Reaching
<1> HIDE DEF G
<1> DEFINE T == {k \in Nat : k <= Len(fs) => Good(G[k])}
<1>4. 0 \in T
  BY <1>1, <1>2 DEF Reaching
<1>5. ASSUME NEW k \in T, k \in Nat PROVE k + 1 \in T
  <2>1. SUFFICES ASSUME k + 1 <= Len(fs) PROVE Good(G[k + 1])
    BY <1>5
  <2>2. Good(G[k]) /\ k + 1 \in 1..Len(fs) /\ k + 1 \in 0..Len(fs) /\ k + 1 # 0 /\ (k + 1) - 1 = k
    BY <1>1, <1>5, <2>1
  <2>3. G[k + 1] = FrameReaches(G[k], fs[k + 1])
    BY <1>2, <2>2 DEF Reaching
  <2>4. QED
    BY <1>1, <2>2, <2>3, FrameGood
<1> HIDE DEF T
<1>6. Nat \subseteq T
  BY <1>4, <1>5, NatInduct
<1>7. Len(fs) \in T
  BY <1>1, <1>6
<1>8. QED
  BY <1>1, <1>3, <1>7 DEF T

----------------------------------------------------------------------------
\* The frames and the requests there are.

\* The elements of a finite set, in some order.
LEMMA SetToSeqIs ==
  ASSUME NEW X, NEW S \in SUBSET X, IsFiniteSet(S)
  PROVE  SetToSeq(S) \in Seq(X)
<1>1. Cardinality(S) \in Nat
  BY FS_CardinalityType
<1>2. PICK f : f \in Bijection(1..Cardinality(S), S)
  BY FS_CardinalityType DEF ExistsBijection
<1>3. f \in [1..Cardinality(S) -> S] /\ IsInjective(f)
  BY <1>2 DEF Bijection, Injection, IsInjective
<1>4. SetToSeq(S) \in [1..Cardinality(S) -> S]
  BY <1>3 DEF SetToSeq
<1>5. QED
  BY <1>1, <1>4, IsASeq

\* Row frames for every id of a finite set, whatever state they name.
LEMMA RowFrames ==
  ASSUME NEW S \in SUBSET Nat, IsFiniteSet(S), NEW state \in {"queued", "unsent", "removed"}
  PROVE  [i \in DOMAIN SetToSeq(S) |-> RowFrame(SetToSeq(S)[i], state)] \in Seq(DockFrame)
<1> DEFINE s == SetToSeq(S)
<1>1. s \in Seq(Nat)
  BY SetToSeqIs
<1> HIDE DEF s
<1>2. DOMAIN s = 1..Len(s) /\ Len(s) \in Nat /\ \A i \in 1..Len(s) : s[i] \in Nat
  BY <1>1, LenProperties, ElementOfSeq
<1>3. \A i \in 1..Len(s) : RowFrame(s[i], state) \in DockFrame
  BY <1>2 DEF RowFrame, DockFrame
<1>4. [i \in 1..Len(s) |-> RowFrame(s[i], state)] \in [1..Len(s) -> DockFrame]
  BY <1>3
<1>5. [i \in 1..Len(s) |-> RowFrame(s[i], state)] \in Seq(DockFrame)
  BY <1>2, <1>4, IsASeq
<1>6. QED
  BY <1>2, <1>5 DEF s

\* The other frames.
LEMMA OtherFrames ==
  ASSUME NEW id \in Nat, NEW keys \in SUBSET Nat, MaxSteers \in Nat
  PROVE  /\ EntryFrame(id) \in DockFrame /\ RowFrame(id, "queued") \in DockFrame
         /\ RowFrame(id, "removed") \in DockFrame
         /\ BatchFrame(keys) \in DockFrame /\ Batch \in Nat
         /\ [kind |-> "compaction", id |-> NoKas, state |-> "", keys |-> {}] \in DockFrame
<1>1. Batch \in Nat
  BY DEF Batch
<1>2. QED
  BY <1>1 DEF EntryFrame, RowFrame, BatchFrame, DockFrame, NoKas

\* What pending_snapshot says.
LEMMA SnapshotFrames ==
  ASSUME SrvTyped, MaxSteers \in Nat
  PROVE  Snapshot \in Seq(DockFrame)
<1> DEFINE state == IF sdsrv.live THEN "queued" ELSE "unsent"
           ids == SetToSeq(sdsrv.held)
           rows == [i \in DOMAIN ids |-> RowFrame(ids[i], state)]
           rest == IF sdsrv.batch = {} THEN <<>> ELSE <<BatchFrame(sdsrv.batch)>>
<1>1. sdsrv.held \in SUBSET Nat /\ IsFiniteSet(sdsrv.held) /\ sdsrv.batch \in SUBSET Nat
  BY DEF SrvTyped
<1>2. rows \in Seq(DockFrame)
  <2>1. state \in {"queued", "unsent", "removed"}
    OBVIOUS
  <2> HIDE DEF state
  <2>2. QED
    BY <1>1, <2>1, RowFrames
<1>3. rest \in Seq(DockFrame)
  <2>1. BatchFrame(sdsrv.batch) \in DockFrame
    BY <1>1, OtherFrames
  <2>2. QED
    BY <2>1
<1>4. Snapshot = rows \o rest
  BY DEF Snapshot
<1> HIDE DEF rows, rest
<1>5. QED
  BY <1>2, <1>3, <1>4, ConcatProperties

----------------------------------------------------------------------------
\* The steps.

\* Requests come and go beside the rows.
LEMMA CallsGood ==
  ASSUME NEW x, Good(x), NEW c \in Seq(Call)
  PROVE  Good([x EXCEPT !.calls = c])
<1> DEFINE y == [x EXCEPT !.calls = c]
<1>1. y \in Dock /\ y.rows = x.rows /\ y.entries = x.entries /\ y.restored = x.restored
  BY DEF Good, Dock
<1> HIDE DEF y
<1>2. Good(y)
  BY <1>1 DEF Good, RowsHold, RowHolds
<1>3. QED
  BY <1>2 DEF y

\* A request queued behind the chat's earlier ones.
LEMMA AskGood ==
  ASSUME NEW x, Good(x), NEW kind \in {"steer", "clear", "remove"}, NEW id \in Nat,
         NEW removed \in Seq(Row)
  PROVE  Good(Ask(x, kind, id, removed))
<1> DEFINE q == [kind |-> kind, id |-> id, removed |-> removed, res |-> ""]
<1>1. q \in Call
  BY DEF Call
<1> HIDE DEF q
<1>2. x.calls \in Seq(Call)
  BY DEF Good, Dock
<1>3. Append(x.calls, q) \in Seq(Call)
  BY <1>1, <1>2, AppendProperties
<1>4. Good([x EXCEPT !.calls = Append(x.calls, q)])
  BY <1>3, CallsGood
<1>5. QED
  BY <1>4 DEF Ask, q

\* More rows let off leave the others as they are.
LEMMA RestoredGood ==
  ASSUME NEW x, Good(x), NEW ids \in SUBSET Nat
  PROVE  Good([x EXCEPT !.restored = @ \cup ids])
<1> DEFINE y == [x EXCEPT !.restored = @ \cup ids]
<1>1. y \in Dock /\ y.rows = x.rows /\ y.entries = x.entries /\ y.restored = x.restored \cup ids
  BY DEF Good, Dock
<1> HIDE DEF y
<1>2. Good(y)
  BY <1>1 DEF Good, RowsHold, RowHolds
<1>3. QED
  BY <1>2 DEF y

\* A refused discard puts rows back, all of them let off.
LEMMA RestoreGood ==
  ASSUME NEW x, Good(x), NEW prev \in Seq(Row)
  PROVE  Good(RestoreSteers(x, prev))
<1> DEFINE y == [x EXCEPT !.rows = prev, !.restored = @ \cup RowIds(prev) \cup RowIds(x.rows)]
<1>1. x \in Dock /\ x.rows \in Seq(Row)
  BY DEF Good, Dock
<1>2. \A s \in Seq(Row) : RowIds(s) \subseteq Nat /\ \A r \in ToSet(s) : r.id \in RowIds(s)
  <2> TAKE s \in Seq(Row)
  <2>1. DOMAIN s = 1..Len(s) /\ \A i \in 1..Len(s) : s[i] \in Row
    BY LenProperties, ElementOfSeq
  <2>2. QED
    BY <2>1 DEF RowIds, Row, ToSet
<1>3. /\ y \in Dock /\ y.rows = prev
      /\ y.restored = x.restored \cup RowIds(prev) \cup RowIds(x.rows)
  BY <1>1, <1>2 DEF Dock
<1> HIDE DEF y
<1>4. Good(y)
  BY <1>2, <1>3 DEF Good, RowsHold, RowHolds
<1>5. QED
  BY <1>4 DEF RestoreSteers, y

\* SendSteer and RemoveSteer and DiscardSteers: an optimistic half and a request.
LEMMA GesturesKeep ==
  ASSUME SteersInv, MaxSteers \in Nat, SendSteer \/ DiscardSteers \/ RemoveSteer
  PROVE  SteersInv'
<1>1. /\ Good(sd) /\ sd.rows \in Seq(Row) /\ <<>> \in Seq(Row) /\ NoKas \in Nat
      /\ sdsrv.minted \in Nat
  BY DEF SteersInv, SrvTyped, Good, Dock, NoKas
<1>2. CASE SendSteer
  <2> DEFINE id == sdsrv.minted + 1
  <2>1. id \in Nat
    BY <1>1
  <2>2. sd' = Ask(RecordSent(sd, id), "steer", id, <<>>) /\ sdsrv' = [sdsrv EXCEPT !.minted = id]
        /\ sdnet' = sdnet
    BY <1>2 DEF SendSteer
  <2> HIDE DEF id
  <2>3. Good(RecordSent(sd, id))
    BY <1>1, <2>1, SentGood
  <2>4. \A x : Good(x) => Good(Ask(x, "steer", id, <<>>))
    BY <1>1, <2>1, AskGood
  <2>5. QED
    BY <2>1, <2>2, <2>3, <2>4 DEF SteersInv, SrvTyped
<1>3. CASE DiscardSteers
  <2>1. sd' = Ask(DropConfirmed(sd), "clear", NoKas, Removed(sd)) /\ sdsrv' = sdsrv /\ sdnet' = sdnet
    BY <1>3 DEF DiscardSteers
  <2>2. Good(DropConfirmed(sd)) /\ Removed(sd) \in Seq(Row)
    BY <1>1, FewerRows DEF DropConfirmed, Removed
  <2>3. \A x, m : Good(x) /\ m \in Seq(Row) => Good(Ask(x, "clear", NoKas, m))
    BY <1>1, AskGood
  <2>4. QED
    BY <2>1, <2>2, <2>3 DEF SteersInv, SrvTyped
<1>4. CASE RemoveSteer
  <2>1. PICK i \in DOMAIN sd.rows : sd' = Ask(sd, "remove", sd.rows[i].id, <<>>)
    BY <1>4 DEF RemoveSteer
  <2>2. sd.rows[i].id \in Nat
    BY <1>1, EachRow DEF Row
  <2>3. Good(Ask(sd, "remove", sd.rows[i].id, <<>>))
    BY <1>1, <2>2, AskGood
  <2>4. QED
    BY <1>4, <2>1, <2>3 DEF SteersInv, SrvTyped, RemoveSteer
<1>5. QED
  BY <1>2, <1>3, <1>4

\* CallServed: the answer is written on the request, and the rows stay.
LEMMA ServedKeeps ==
  ASSUME SteersInv, MaxSteers \in Nat, CallServed
  PROVE  SteersInv'
<1> DEFINE q == Head(sd.calls)
           held == sdsrv.held
<1>1. /\ sd \in Dock /\ Good(sd) /\ sd.calls \in Seq(Call) /\ sd.calls # <<>>
      /\ sdnet \in Seq(DockFrame)
      /\ held \in SUBSET Nat /\ IsFiniteSet(held) /\ SrvTyped
  BY DEF SteersInv, SrvTyped, Good, Dock, CallServed
<1>2. q \in Call /\ q.id \in Nat /\ 1 \in DOMAIN sd.calls /\ sd.calls[1] \in Call
  <2>1. q \in Call /\ 1 \in DOMAIN sd.calls /\ sd.calls[1] \in Call
    BY <1>1, HeadTailProperties, ElementOfSeq, LenProperties, EmptySeq
  <2> HIDE DEF q
  <2>2. QED
    BY <2>1 DEF Call
<1>3. ASSUME NEW r \in {"ok", "error"}, sd' = [sd EXCEPT !.calls[1].res = r]
      PROVE  Good(sd')
  <2>1. sd' = [sd EXCEPT !.calls = [sd.calls EXCEPT ![1] = [sd.calls[1] EXCEPT !.res = r]]]
    BY <1>3, <1>1, <1>2 DEF Dock
  <2>2. [sd.calls[1] EXCEPT !.res = r] \in Call
    BY <1>2 DEF Call
  <2>3. [sd.calls EXCEPT ![1] = [sd.calls[1] EXCEPT !.res = r]] \in Seq(Call)
    BY <1>1, <1>2, <2>2, ExceptSeq
  <2>4. QED
    BY <1>1, <2>1, <2>3, CallsGood
<1>4. Good(sd')
  BY <1>3 DEF CallServed
<1>5. /\ sdsrv' \in [held : SUBSET Nat, batch : SUBSET Nat, live : BOOLEAN, minted : Nat]
      /\ IsFiniteSet(sdsrv'.held) /\ IsFiniteSet(sdsrv'.batch)
      /\ sdnet' \in Seq(DockFrame)
  <2>1. CASE sdsrv' = sdsrv /\ sdnet' = sdnet
    BY <1>1, <2>1 DEF SrvTyped
  <2>2. CASE /\ sdsrv' = [sdsrv EXCEPT !.held = @ \cup {q.id}]
             /\ sdnet' = Append(sdnet, RowFrame(q.id, "queued"))
    <3>1. RowFrame(q.id, "queued") \in DockFrame
      BY <1>2, OtherFrames
    <3>2. IsFiniteSet(held \cup {q.id})
      BY <1>1, FS_AddElement
    <3> HIDE DEF q
    <3>3. QED
      BY <1>1, <1>2, <2>2, <3>1, <3>2, AppendProperties DEF SrvTyped
  <2>3. CASE /\ sdsrv' = [sdsrv EXCEPT !.held = {}, !.batch = {}]
             /\ sdnet' = sdnet \o RemovedFrames(held)
    <3>1. RemovedFrames(held) \in Seq(DockFrame)
      BY <1>1, RowFrames DEF RemovedFrames
    <3>2. QED
      BY <1>1, <2>3, <3>1, FS_EmptySet, ConcatProperties DEF SrvTyped
  <2>4. CASE \E kept \in SUBSET Nat :
               /\ kept = held \ {q.id}
               /\ sdsrv' = [sdsrv EXCEPT !.held = kept,
                                         !.batch = IF Cardinality(kept) > 1 THEN kept ELSE {}]
               /\ sdnet' = Append(sdnet, RowFrame(q.id, "removed"))
                           \o (IF Cardinality(kept) > 1 THEN <<BatchFrame(kept)>> ELSE <<>>)
    <3>1. PICK kept \in SUBSET Nat :
               /\ kept = held \ {q.id}
               /\ sdsrv' = [sdsrv EXCEPT !.held = kept,
                                         !.batch = IF Cardinality(kept) > 1 THEN kept ELSE {}]
               /\ sdnet' = Append(sdnet, RowFrame(q.id, "removed"))
                           \o (IF Cardinality(kept) > 1 THEN <<BatchFrame(kept)>> ELSE <<>>)
      BY <2>4
    <3>2. IsFiniteSet(kept)
      BY <1>1, <3>1, FS_RemoveElement
    <3>3. RowFrame(q.id, "removed") \in DockFrame /\ BatchFrame(kept) \in DockFrame
      BY <1>2, OtherFrames
    <3> DEFINE rest == IF Cardinality(kept) > 1 THEN <<BatchFrame(kept)>> ELSE <<>>
    <3>4. Append(sdnet, RowFrame(q.id, "removed")) \in Seq(DockFrame) /\ rest \in Seq(DockFrame)
      BY <1>1, <3>3, AppendProperties
    <3>5. sdnet' \in Seq(DockFrame)
      <4> HIDE DEF rest, q
      <4>1. sdnet' = Append(sdnet, RowFrame(q.id, "removed")) \o rest
        BY <3>1 DEF rest
      <4>2. QED
        BY <3>4, <4>1, ConcatProperties
    <3> HIDE DEF q
    <3>6. QED
      BY <1>1, <3>1, <3>2, <3>5, FS_EmptySet DEF SrvTyped
  <2>5. held \ {q.id} \in SUBSET Nat
    BY <1>1
  <2>6. QED
    BY <2>1, <2>2, <2>3, <2>4, <2>5 DEF CallServed
<1>6. QED
  BY <1>4, <1>5 DEF SteersInv, SrvTyped

\* AgentReads, OtherSteers, Compacted and TurnOver: the server and its frames alone.
LEMMA ServerKeeps ==
  ASSUME SteersInv, MaxSteers \in Nat, AgentReads \/ OtherSteers \/ Compacted \/ TurnOver
  PROVE  SteersInv'
<1>1. /\ Good(sd) /\ SrvTyped /\ sdnet \in Seq(DockFrame)
      /\ sdsrv.held \in SUBSET Nat /\ IsFiniteSet(sdsrv.held) /\ sdsrv.minted + 1 \in Nat
      /\ sdsrv.batch \in SUBSET Nat
  BY DEF SteersInv, SrvTyped
<1>2. \A id \in Nat : /\ EntryFrame(id) \in DockFrame /\ RowFrame(id, "queued") \in DockFrame
                      /\ Batch \in Nat
  BY OtherFrames
<1>3. CASE AgentReads
  <2>1. CASE /\ sdsrv' = [sdsrv EXCEPT !.held = @ \ sdsrv.batch, !.batch = {}]
             /\ sdnet' = Append(sdnet, EntryFrame(Batch))
    <3>1. IsFiniteSet(sdsrv.held \ sdsrv.batch)
      BY <1>1, FS_Difference
    <3>2. EntryFrame(Batch) \in DockFrame
      BY <1>2 DEF Batch
    <3>3. QED
      BY <1>1, <1>3, <2>1, <3>1, <3>2, FS_EmptySet, AppendProperties
         DEF AgentReads, SteersInv, SrvTyped
  <2>2. CASE \E id \in sdsrv.held \ sdsrv.batch :
               /\ sdsrv' = [sdsrv EXCEPT !.held = @ \ {id}]
               /\ sdnet' = Append(sdnet, EntryFrame(id))
    <3>1. PICK id \in sdsrv.held : /\ sdsrv' = [sdsrv EXCEPT !.held = @ \ {id}]
                                   /\ sdnet' = Append(sdnet, EntryFrame(id))
      BY <2>2
    <3>2. IsFiniteSet(sdsrv.held \ {id}) /\ EntryFrame(id) \in DockFrame
      BY <1>1, <1>2, FS_RemoveElement
    <3>3. QED
      BY <1>1, <1>3, <3>1, <3>2, AppendProperties DEF AgentReads, SteersInv, SrvTyped
  <2>3. QED
    BY <1>3, <2>1, <2>2 DEF AgentReads
<1>4. CASE OtherSteers
  <2> DEFINE id == sdsrv.minted + 1
  <2>1. IsFiniteSet(sdsrv.held \cup {id}) /\ RowFrame(id, "queued") \in DockFrame /\ id \in Nat
    BY <1>1, <1>2, FS_AddElement
  <2>2. /\ sdsrv' = [sdsrv EXCEPT !.minted = id, !.held = @ \cup {id}]
        /\ sdnet' = Append(sdnet, RowFrame(id, "queued")) /\ sd' = sd
    BY <1>4 DEF OtherSteers
  <2> HIDE DEF id
  <2>3. QED
    BY <1>1, <2>1, <2>2, AppendProperties DEF SteersInv, SrvTyped
<1>5. CASE Compacted
  <2> DEFINE f == [kind |-> "compaction", id |-> NoKas, state |-> "", keys |-> {}]
  <2>1. f \in DockFrame
    BY DEF DockFrame, NoKas
  <2>2. sdnet' = Append(sdnet, f) /\ sd' = sd /\ sdsrv' = sdsrv
    BY <1>5 DEF Compacted
  <2> HIDE DEF f
  <2>3. QED
    BY <1>1, <2>1, <2>2, AppendProperties DEF SteersInv, SrvTyped
<1>6. CASE TurnOver
  <2> DEFINE fs == [i \in DOMAIN SetToSeq(sdsrv.held) |-> RowFrame(SetToSeq(sdsrv.held)[i], "unsent")]
  <2>1. fs \in Seq(DockFrame)
    BY <1>1, RowFrames
  <2>2. sdnet' = sdnet \o fs /\ sd' = sd /\ sdsrv' = [sdsrv EXCEPT !.live = FALSE, !.batch = {}]
    BY <1>6 DEF TurnOver
  <2> HIDE DEF fs
  <2>3. QED
    BY <1>1, <2>1, <2>2, ConcatProperties, FS_EmptySet DEF SteersInv, SrvTyped
<1>7. QED
  BY <1>3, <1>4, <1>5, <1>6

\* CallAnswered: the optimistic row is confirmed, taken back, or put back.
LEMMA AnsweredKeeps ==
  ASSUME SteersInv, CallAnswered
  PROVE  SteersInv'
<1> DEFINE q == Head(sd.calls)
           x == [sd EXCEPT !.calls = Tail(@)]
<1>1. Good(sd) /\ sd.calls \in Seq(Call) /\ sd.calls # <<>>
  BY DEF SteersInv, Good, Dock, CallAnswered
<1>2. q \in Call /\ Tail(sd.calls) \in Seq(Call)
  BY <1>1, HeadTailProperties
<1>3. q.id \in Nat /\ q.removed \in Seq(Row)
  <2> HIDE DEF q
  <2> QED
    BY <1>2 DEF Call
<1>4. Good(x)
  BY <1>1, <1>2, CallsGood
<1>5. /\ sd' = CASE q.kind = "steer" /\ q.res = "ok" -> RecordQueued(x, q.id, "queued")
                 [] q.kind = "steer" /\ q.res = "error" ->
                        [ForgetSteer(x, q.id) EXCEPT !.restored = @ \cup {q.id}]
                 [] q.kind = "clear" /\ q.res = "error" -> RestoreSteers(x, q.removed)
                 [] OTHER -> x
      /\ sdsrv' = sdsrv /\ sdnet' = sdnet
  BY DEF CallAnswered
<1> HIDE DEF q, x
<1>6. Good(RecordQueued(x, q.id, "queued"))
  BY <1>3, <1>4, QueuedGood
<1>7. Good([ForgetSteer(x, q.id) EXCEPT !.restored = @ \cup {q.id}])
  <2>1. Good(ForgetSteer(x, q.id)) /\ {q.id} \in SUBSET Nat
    BY <1>3, <1>4, ForgetGood
  <2>2. QED
    BY <2>1, RestoredGood
<1>8. Good(RestoreSteers(x, q.removed))
  BY <1>3, <1>4, RestoreGood
<1>9. Good(sd')
  BY <1>4, <1>5, <1>6, <1>7, <1>8
<1>10. QED
  BY <1>5, <1>9 DEF SteersInv, SrvTyped

\* SteerFrame and Reconnects: what the stream brings.
LEMMA StreamKeeps ==
  ASSUME SteersInv, MaxSteers \in Nat, SteerFrame \/ Reconnects
  PROVE  SteersInv'
<1>1. Good(sd) /\ sd \in Dock /\ sdnet \in Seq(DockFrame) /\ SrvTyped
  BY DEF SteersInv, Good
<1>2. CASE SteerFrame
  <2>1. /\ sd' = FrameReaches(sd, Head(sdnet)) /\ sdnet' = Tail(sdnet) /\ sdsrv' = sdsrv
        /\ sdnet # <<>>
    BY <1>2 DEF SteerFrame
  <2>2. Head(sdnet) \in DockFrame /\ Tail(sdnet) \in Seq(DockFrame)
    BY <1>1, <2>1, HeadTailProperties
  <2>3. Good(sd')
    BY <1>1, <2>1, <2>2, FrameGood
  <2>4. QED
    BY <1>1, <2>1, <2>2, <2>3 DEF SteersInv, SrvTyped
<1>3. CASE Reconnects
  <2> DEFINE read == {sdnet[i].id : i \in {j \in DOMAIN sdnet : sdnet[j].kind = "entry"}}
             x == ForgetSteers([sd EXCEPT !.entries = @ \cup read])
  <2>1. sd' = AllReach(x, Snapshot) /\ sdnet' = <<>> /\ sdsrv' = sdsrv
    BY <1>3 DEF Reconnects
  <2>2. read \in SUBSET Nat
    <3>1. DOMAIN sdnet = 1..Len(sdnet) /\ \A i \in 1..Len(sdnet) : sdnet[i] \in DockFrame
      BY <1>1, LenProperties, ElementOfSeq
    <3>2. \A f \in DockFrame : f.id \in Nat
      BY DEF DockFrame
    <3>3. QED
      BY <3>1, <3>2
  <2> HIDE DEF read
  <2>3. x \in Dock /\ x.rows = <<>>
    <3> DEFINE y == [sd EXCEPT !.entries = @ \cup read]
    <3>1. y \in Dock
      BY <1>1, <2>2 DEF Dock
    <3>2. x = [y EXCEPT !.rows = <<>>, !.restored = {}] /\ <<>> \in Seq(Row)
      BY DEF ForgetSteers
    <3> HIDE DEF y, x
    <3>3. QED
      BY <3>1, <3>2 DEF Dock
  <2>4. ToSet(<<>>) = {}
    BY DEF ToSet
  <2>5. Good(x)
    <3> HIDE DEF x
    <3> QED
      BY <2>3, <2>4 DEF Good, RowsHold
  <2>6. Snapshot \in Seq(DockFrame)
    BY <1>1, SnapshotFrames
  <2>7. Good(sd')
    <3> HIDE DEF x
    <3> QED
      BY <2>1, <2>5, <2>6, AllReachGood
  <2>8. <<>> \in Seq(DockFrame)
    OBVIOUS
  <2>9. QED
    BY <1>1, <2>1, <2>7, <2>8 DEF SteersInv, SrvTyped
<1>4. QED
  BY <1>2, <1>3

\* A message the transcript shows as read is never back in the dock, in any order of its
\* frame, its answer, its batch and a reconnect's replay (store.ts, steerEntrySettles and
\* the three writers that ask the transcript first).
THEOREM ReadRowsStayOut ==
  ASSUME MaxSteers \in Nat
  PROVE  SteersSpec => []ReadStaysRead
<1>1. SteersInit => SteersInv
  <2>1. SUFFICES ASSUME SteersInit PROVE SteersInv
    OBVIOUS
  <2>2. sd \in Dock /\ sd.rows = <<>> /\ <<>> \in Seq(DockFrame)
    BY <2>1 DEF SteersInit, Dock
  <2>3. ToSet(<<>>) = {}
    BY DEF ToSet
  <2>4. Good(sd)
    BY <2>2, <2>3 DEF Good, RowsHold
  <2>5. SrvTyped
    BY <2>1, FS_EmptySet DEF SteersInit, SrvTyped
  <2>6. QED
    BY <2>1, <2>2, <2>4, <2>5 DEF SteersInit, SteersInv
<1>2. SteersInv /\ [SteersNext]_sdvars => SteersInv'
  <2>1. SUFFICES ASSUME SteersInv, [SteersNext]_sdvars PROVE SteersInv'
    OBVIOUS
  <2>2. CASE UNCHANGED sdvars
    BY <2>1, <2>2 DEF sdvars, SteersInv, SrvTyped
  <2>3. CASE SteersNext
    BY <2>1, <2>3, GesturesKeep, ServedKeeps, ServerKeeps, AnsweredKeeps, StreamKeeps
       DEF SteersNext
  <2>4. QED
    BY <2>1, <2>2, <2>3
<1>3. SteersInv => ReadStaysRead
  <2>1. SUFFICES ASSUME SteersInv, NEW i \in DOMAIN sd.rows
                 PROVE  LET r == sd.rows[i]
                        IN  r.pending \/ r.id \in sd.restored \/ \A id \in sd.entries : ~Settles(id, r)
    BY DEF ReadStaysRead
  <2>2. sd.rows[i] \in Row /\ RowHolds(sd, sd.rows[i])
    BY <2>1, EachRow DEF SteersInv
  <2>3. QED
    BY <2>2 DEF RowHolds, Settles
<1>4. QED
  BY <1>1, <1>2, <1>3, PTL DEF SteersSpec

----------------------------------------------------------------------------
(* A live run.                                                             *)

RnFields == {"cell", "read", "stale", "answered", "retry", "overtaken", "blind", "gaveUp", "ctl",
             "live", "list", "raced", "rowBlind", "gaps", "stamp", "held", "log", "open", "hole",
             "range", "step", "shown"}

CtlFields == {"val", "read", "stale", "lost", "late", "crossed"}
StateFields == {"nodes", "shape", "status"}
RowSays == {"no", "executing", "parked"}

FrameKinds == {"started", "progress", "paused", "input", "finished", "connected", "turn", "entry",
               "opened", "delta", "seal"}

RunFrames == [kind : FrameKinds, node : RunNodes \cup {"none"}, stage : Nat, shape : Nat, seq : Nat,
              row : RowSays]

RunServer == [nodes : [RunNodes -> Nat], shape : Nat, status : {"running", "parked", "done"},
              len : Nat, open : BOOLEAN, stream : BOOLEAN, leases : Nat]

\* What asks for a read is asked for under a cause of an outage there was, or under none.
Cause(s, n) == s = Nil \/ \E c \in 0 .. n : s = <<c>>
ReadOf(s, n) ==
    Cause(s, n) \/ \E c \in 0 .. n : \E ans : s = <<c, ans>> /\ ans.kind \in {"state", "gone", "failed"}
ListOf(s, n) == Cause(s, n) \/ \E c \in 0 .. n : \E row \in RowSays : s = <<c, row>>

RunFits(x) ==
    /\ Has(x, RnFields) /\ x.gaps \in Nat /\ x.answered \in 0 .. x.gaps
    /\ ReadOf(x.read, x.gaps) /\ Cause(x.stale, x.gaps)
    /\ Has(x.retry, {"due", "attempts"}) /\ Cause(x.retry.due, x.gaps) /\ ListOf(x.list, x.gaps)
    /\ x.read = Nil => x.stale = Nil
    /\ x.read = Nil /\ x.retry.due # Nil => x.retry.due[1] = Uncaused \/ x.answered = Uncaused

\* The last frame about a node on the stream says how far the node is.
NodesTold(net, s) ==
    \A i \in 1 .. Len(net) : net[i].node # "none" =>
        /\ net[i].kind = "progress"
        /\ net[i].stage = s.nodes[net[i].node] \/ \E k \in i + 1 .. Len(net) : net[k].node = net[i].node

\* A frame on its way will have the run read, whatever its cell holds.
WillAsk(f) == f.kind \in {"started", "paused", "finished"} \/ (f.kind = "progress" /\ f.node = "none")
Asking(net) == \E i \in 1 .. Len(net) : WillAsk(net[i])

\* A state that is the run's, but for the nodes that frames on their way are about.
Current(c, net, s) ==
    /\ Has(c, StateFields) /\ Has(c.nodes, RunNodes) /\ c.shape = s.shape /\ c.status = s.status
    /\ \A n \in RunNodes : c.nodes[n] = s.nodes[n] \/ \E i \in 1 .. Len(net) : net[i].node = n

Owed(x) == x.read # Nil \/ x.retry.due # Nil \/ x.gaveUp

CellHolds(x, net, s) ==
    /\ x.cell # Nil /\ ~x.blind => Current(x.cell, net, s) \/ Asking(net) \/ Owed(x)
    /\ Len(x.read) = 2 /\ x.read[2].kind = "state" /\ ~x.overtaken /\ x.stale = Nil
         => Current(x.read[2].state, net, s) \/ Asking(net)

\* What the last frame on the stream that speaks of the row says is so.
Tells(f) == f.kind \in {"started", "progress", "paused", "input", "finished", "connected"}
Told(f) ==
    IF f.kind = "connected" THEN f.row
    ELSE IF f.kind = "finished" THEN "no"
    ELSE IF f.kind \in {"paused", "input"} THEN "parked" ELSE "executing"

RowTold(net, s) ==
    \A i \in 1 .. Len(net) : Tells(net[i]) =>
        Told(net[i]) = Live(s) \/ \E k \in i + 1 .. Len(net) : Tells(net[k])

RowHeld(x, net, s) ==
    /\ x.rowBlind \/ x.live = Live(s) \/ \E i \in 1 .. Len(net) : Tells(net[i])
    /\ Len(x.list) = 2 /\ ~x.raced =>
         x.list[2] = Live(s) \/ \E i \in 1 .. Len(net) : Tells(net[i]) /\ net[i].kind # "connected"

\* The verbs of a run that has ended are an ended run's, or a read of them will say so.
VerbsFit(c) ==
    /\ Has(c, CtlFields)
    /\ c.read = Nil => ~c.stale
    /\ c.late # {} => c.crossed
    /\ c.read = Nil \/ Len(c.read) \in {1, 2}

VerbsHold(x, net, s) ==
    x.gaps = 0 /\ s.status = "done" /\ ~x.ctl.crossed =>
      \/ \E i \in 1 .. Len(net) : net[i].kind = "finished"
      \/ x.ctl.lost /\ x.ctl.read = Nil
      \/ x.ctl.val \in {"", "done"} /\ x.ctl.read = Nil
      \/ /\ x.ctl.read # Nil
         /\ x.ctl.stale \/ Len(x.ctl.read) = 1 \/ x.ctl.read[1] = "failed" \/ x.ctl.read[2] = "done"

\* What holds of a client and a stream that reaches it.
Holds(x, net, s) ==
    /\ NodesTold(net, s) /\ CellHolds(x, net, s) /\ RowTold(net, s) /\ RowHeld(x, net, s)
    /\ VerbsHold(x, net, s)

RunsInv ==
    /\ RunFits(rn) /\ VerbsFit(rn.ctl) /\ rnsrv \in RunServer /\ rnnet \in Seq(RunFrames)
    /\ rnsrv.stream => Holds(rn, rnnet, rnsrv)

----------------------------------------------------------------------------
(* Frames sent.                                                            *)

\* A stream with a frame more.
LEMMA StreamLonger ==
  ASSUME NEW net \in Seq(RunFrames), NEW f \in RunFrames
  PROVE  /\ Append(net, f) \in Seq(RunFrames) /\ Len(net) \in Nat /\ Len(Append(net, f)) = Len(net) + 1
         /\ Append(net, f)[Len(net) + 1] = f
         /\ \A i \in 1 .. Len(net) : Append(net, f)[i] = net[i]
OBVIOUS

\* A stream whose first frame has been taken.
LEMMA StreamShorter ==
  ASSUME NEW net \in Seq(RunFrames), net # <<>>
  PROVE  /\ Tail(net) \in Seq(RunFrames) /\ Head(net) = net[1] /\ Head(net) \in RunFrames
         /\ Len(net) \in Nat \ {0} /\ Len(Tail(net)) = Len(net) - 1
         /\ \A i \in 1 .. Len(net) - 1 : Tail(net)[i] = net[i + 1]
<1>1. Len(net) \in Nat \ {0}
  OBVIOUS
<1>2. QED
  BY <1>1

\* A frame that moves a node, and one about none.
Moves(f, s, t) ==
    \/ f.node = "none" /\ t.nodes = s.nodes
    \/ /\ f.node \in RunNodes /\ f.kind = "progress" /\ f.stage = t.nodes[f.node]
       /\ \A n \in RunNodes \ {f.node} : t.nodes[n] = s.nodes[n]

\* The last frame about a node still says where it is, with the frame that moves one.
LEMMA NodesSent ==
  ASSUME NEW net \in Seq(RunFrames), NEW f \in RunFrames, NEW s, NEW t, Moves(f, s, t), NodesTold(net, s)
  PROVE  NodesTold(Append(net, f), t)
<1> DEFINE g == Append(net, f)
<1>1. /\ g \in Seq(RunFrames) /\ Len(net) \in Nat /\ Len(g) = Len(net) + 1 /\ g[Len(net) + 1] = f
      /\ \A i \in 1 .. Len(net) : g[i] = net[i]
  BY StreamLonger
<1> HIDE DEF g
<1>2. SUFFICES ASSUME NEW i \in 1 .. Len(g), g[i].node # "none"
               PROVE  /\ g[i].kind = "progress"
                      /\ g[i].stage = t.nodes[g[i].node] \/ \E k \in i + 1 .. Len(g) : g[k].node = g[i].node
  BY DEF NodesTold, g
<1>3. CASE i = Len(net) + 1
  BY <1>1, <1>2, <1>3 DEF Moves
<1>4. CASE i \in 1 .. Len(net)
  <2>1. /\ net[i].kind = "progress" /\ g[i] = net[i]
        /\ net[i].stage = s.nodes[net[i].node] \/ \E k \in i + 1 .. Len(net) : net[k].node = net[i].node
    BY <1>1, <1>2, <1>4 DEF NodesTold
  <2>2. CASE \E k \in i + 1 .. Len(net) : net[k].node = net[i].node
    <3>1. PICK k \in i + 1 .. Len(net) : net[k].node = net[i].node
      BY <2>2
    <3>2. k \in i + 1 .. Len(g) /\ g[k].node = g[i].node
      BY <1>1, <1>4, <2>1, <3>1
    <3>3. QED
      BY <2>1, <3>2
  <2>3. CASE net[i].stage = s.nodes[net[i].node]
    <3>1. CASE f.node = net[i].node
      <4>1. Len(g) \in i + 1 .. Len(g) /\ g[Len(g)].node = g[i].node
        BY <1>1, <1>4, <2>1, <3>1
      <4>2. QED
        BY <2>1, <4>1
    <3>2. CASE f.node # net[i].node
      <4>1. net[i].node \in RunNodes
        <5>1. net[i] \in RunFrames
          BY <1>4
        <5>2. QED
          BY <1>2, <2>1, <5>1 DEF RunFrames
      <4>2. t.nodes[net[i].node] = s.nodes[net[i].node]
        BY <3>2, <4>1 DEF Moves
      <4>3. QED
        BY <2>1, <2>3, <4>2
    <3>3. QED
      BY <3>1, <3>2
  <2>4. QED
    BY <2>1, <2>2, <2>3
<1>5. QED
  BY <1>1, <1>3, <1>4

\* What a stream is going to ask for, it is still with a frame more.
LEMMA AskingSent ==
  ASSUME NEW net \in Seq(RunFrames), NEW f \in RunFrames, Asking(net) \/ WillAsk(f)
  PROVE  Asking(Append(net, f))
<1> DEFINE g == Append(net, f)
<1>1. /\ Len(net) \in Nat /\ Len(g) = Len(net) + 1 /\ g[Len(net) + 1] = f
      /\ \A i \in 1 .. Len(net) : g[i] = net[i]
  BY StreamLonger
<1> HIDE DEF g
<1>2. Asking(g)
  <2>1. CASE Asking(net)
    <3>1. PICK i \in 1 .. Len(net) : WillAsk(net[i])
      BY <2>1 DEF Asking
    <3>2. i \in 1 .. Len(g) /\ WillAsk(g[i])
      BY <1>1, <3>1
    <3>3. QED
      BY <3>2 DEF Asking
  <2>2. CASE WillAsk(f)
    <3>1. Len(g) \in 1 .. Len(g) /\ WillAsk(g[Len(g)])
      BY <1>1, <2>2
    <3>2. QED
      BY <3>1 DEF Asking
  <2>3. QED
    BY <2>1, <2>2
<1>3. QED
  BY <1>2 DEF g

\* A state as good as the stream says is as good with a frame that says what changed.
LEMMA CurrentSent ==
  ASSUME NEW net \in Seq(RunFrames), NEW f \in RunFrames, NEW s, NEW t, NEW c,
         Moves(f, s, t), t.shape = s.shape, t.status = s.status, Current(c, net, s)
  PROVE  Current(c, Append(net, f), t)
<1> DEFINE g == Append(net, f)
<1>1. /\ Len(net) \in Nat /\ Len(g) = Len(net) + 1 /\ g[Len(net) + 1] = f
      /\ \A i \in 1 .. Len(net) : g[i] = net[i]
  BY StreamLonger
<1> HIDE DEF g
<1>2. ASSUME NEW n \in RunNodes
      PROVE  c.nodes[n] = t.nodes[n] \/ \E i \in 1 .. Len(g) : g[i].node = n
  <2>1. CASE c.nodes[n] = s.nodes[n]
    <3>1. CASE f.node = n
      <4>1. Len(g) \in 1 .. Len(g) /\ g[Len(g)].node = n
        BY <1>1, <3>1
      <4>2. QED
        BY <4>1
    <3>2. CASE f.node # n
      BY <2>1, <3>2 DEF Moves
    <3>3. QED
      BY <3>1, <3>2
  <2>2. CASE \E i \in 1 .. Len(net) : net[i].node = n
    <3>1. PICK i \in 1 .. Len(net) : net[i].node = n
      BY <2>2
    <3>2. i \in 1 .. Len(g) /\ g[i].node = n
      BY <1>1, <3>1
    <3>3. QED
      BY <3>2
  <2>3. QED
    BY <2>1, <2>2 DEF Current
<1>3. QED
  BY <1>2 DEF Current, g

\* What holds of the cached state, with a frame sent.
LEMMA CellSent ==
  ASSUME NEW net \in Seq(RunFrames), NEW f \in RunFrames, NEW s, NEW t, NEW x,
         WillAsk(f) \/ (Moves(f, s, t) /\ t.shape = s.shape /\ t.status = s.status),
         CellHolds(x, net, s)
  PROVE  CellHolds(x, Append(net, f), t)
<1>1. Asking(net) \/ WillAsk(f) => Asking(Append(net, f))
  BY AskingSent
<1>2. ~WillAsk(f) => \A c : Current(c, net, s) => Current(c, Append(net, f), t)
  BY CurrentSent
<1>3. QED
  BY <1>1, <1>2 DEF CellHolds

\* A frame that speaks of the row, and says so; and one that does not.
Speaks(f, s, t) ==
    \/ Tells(f) /\ f.kind # "connected" /\ Told(f) = Live(t)
    \/ ~Tells(f) /\ Live(t) = Live(s)

\* What holds of the row, with a frame sent.
LEMMA RowSent ==
  ASSUME NEW net \in Seq(RunFrames), NEW f \in RunFrames, NEW s, NEW t, NEW x, Speaks(f, s, t),
         RowTold(net, s), RowHeld(x, net, s)
  PROVE  RowTold(Append(net, f), t) /\ RowHeld(x, Append(net, f), t)
<1> DEFINE g == Append(net, f)
<1>1. /\ Len(net) \in Nat /\ Len(g) = Len(net) + 1 /\ g[Len(net) + 1] = f
      /\ \A i \in 1 .. Len(net) : g[i] = net[i]
  BY StreamLonger
<1> HIDE DEF g
<1>2. CASE Tells(f)
  <2>1. Len(g) \in 1 .. Len(g) /\ Tells(g[Len(g)]) /\ g[Len(g)].kind # "connected" /\ Told(g[Len(g)]) = Live(t)
    BY <1>1, <1>2 DEF Speaks
  <2>2. RowHeld(x, g, t)
    BY <2>1 DEF RowHeld
  <2>3. ASSUME NEW i \in 1 .. Len(g), Tells(g[i])
        PROVE  Told(g[i]) = Live(t) \/ \E k \in i + 1 .. Len(g) : Tells(g[k])
    <3>1. CASE i = Len(g)
      BY <2>1, <3>1
    <3>2. CASE i # Len(g)
      <4>1. Len(g) \in i + 1 .. Len(g)
        BY <1>1, <3>2
      <4>2. QED
        BY <2>1, <4>1
    <3>3. QED
      BY <3>1, <3>2
  <2>4. QED
    BY <2>2, <2>3 DEF RowTold, g
<1>3. CASE ~Tells(f)
  <2>1. Live(t) = Live(s)
    BY <1>3 DEF Speaks
  <2>2. \A i \in 1 .. Len(net) : i \in 1 .. Len(g) /\ g[i] = net[i]
    BY <1>1
  <2>3. RowHeld(x, g, t)
    BY <2>1, <2>2 DEF RowHeld
  <2>4. ASSUME NEW i \in 1 .. Len(g), Tells(g[i])
        PROVE  Told(g[i]) = Live(t) \/ \E k \in i + 1 .. Len(g) : Tells(g[k])
    <3>1. i \in 1 .. Len(net)
      BY <1>1, <1>3, <2>4
    <3>2. CASE \E k \in i + 1 .. Len(net) : Tells(net[k])
      <4>1. PICK k \in i + 1 .. Len(net) : Tells(net[k])
        BY <3>2
      <4>2. k \in i + 1 .. Len(g) /\ g[k] = net[k]
        BY <1>1, <3>1, <4>1
      <4>3. QED
        BY <4>1, <4>2
    <3>3. CASE Told(net[i]) = Live(s)
      BY <2>1, <2>2, <3>1, <3>3
    <3>4. QED
      BY <2>2, <2>4, <3>1, <3>2, <3>3 DEF RowTold
  <2>5. QED
    BY <2>3, <2>4 DEF RowTold, g
<1>4. QED
  BY <1>2, <1>3

\* What holds of the verbs, with a frame sent.
LEMMA VerbsSent ==
  ASSUME NEW net \in Seq(RunFrames), NEW f \in RunFrames, NEW s, NEW t, NEW x,
         t.status = "done" => s.status = "done" \/ f.kind = "finished", VerbsHold(x, net, s)
  PROVE  VerbsHold(x, Append(net, f), t)
<1> DEFINE g == Append(net, f)
<1>1. /\ Len(net) \in Nat /\ Len(g) = Len(net) + 1 /\ g[Len(net) + 1] = f
      /\ \A i \in 1 .. Len(net) : g[i] = net[i]
  BY StreamLonger
<1> HIDE DEF g
<1>2. (\E i \in 1 .. Len(net) : net[i].kind = "finished") \/ f.kind = "finished"
        => \E i \in 1 .. Len(g) : g[i].kind = "finished"
  <2>1. ASSUME NEW i \in 1 .. Len(net), net[i].kind = "finished"
        PROVE  i \in 1 .. Len(g) /\ g[i].kind = "finished"
    BY <1>1, <2>1
  <2>2. f.kind = "finished" => Len(g) \in 1 .. Len(g) /\ g[Len(g)].kind = "finished"
    BY <1>1
  <2>3. QED
    BY <2>1, <2>2
<1>3. VerbsHold(x, g, t)
  BY <1>2 DEF VerbsHold
<1>4. QED
  BY <1>3 DEF g

\* A frame sent with the change it tells of keeps what holds.
LEMMA SentHolds ==
  ASSUME NEW net \in Seq(RunFrames), NEW f \in RunFrames, NEW s, NEW t, NEW x, Holds(x, net, s),
         Moves(f, s, t), Speaks(f, s, t), WillAsk(f) \/ (t.shape = s.shape /\ t.status = s.status),
         t.status = "done" => s.status = "done" \/ f.kind = "finished"
  PROVE  Holds(x, Append(net, f), t)
<1>1. NodesTold(Append(net, f), t)
  BY NodesSent DEF Holds
<1>2. CellHolds(x, Append(net, f), t)
  BY CellSent DEF Holds
<1>3. RowTold(Append(net, f), t) /\ RowHeld(x, Append(net, f), t)
  BY RowSent DEF Holds
<1>4. VerbsHold(x, Append(net, f), t)
  BY VerbsSent DEF Holds
<1>5. QED
  BY <1>1, <1>2, <1>3, <1>4 DEF Holds

\* A change that no frame tells of, and that nothing shown is about.
LEMMA QuietHolds ==
  ASSUME NEW net, NEW s, NEW t, NEW x, Holds(x, net, s), t.nodes = s.nodes, t.shape = s.shape,
         t.status = s.status
  PROVE  Holds(x, net, t)
<1>1. Live(t) = Live(s)
  BY DEF Live
<1>2. NodesTold(net, t)
  BY DEF Holds, NodesTold
<1>3. \A c : Current(c, net, s) => Current(c, net, t)
  BY DEF Current
<1>4. CellHolds(x, net, t)
  BY <1>3 DEF Holds, CellHolds
<1>5. RowTold(net, t) /\ RowHeld(x, net, t)
  BY <1>1 DEF Holds, RowTold, RowHeld
<1>6. VerbsHold(x, net, t)
  BY DEF Holds, VerbsHold
<1>7. QED
  BY <1>2, <1>4, <1>5, <1>6 DEF Holds

----------------------------------------------------------------------------
(* What the server does.                                                   *)

RunsKept == rn' = rn /\ RunsInv'

\* A frame about no node.
LEMMA PlainFrame ==
  ASSUME NEW k \in FrameKinds
  PROVE  /\ RunFrame(k) \in RunFrames /\ RunFrame(k).node = "none" /\ RunFrame(k).kind = k
         /\ \A n \in Nat : /\ [RunFrame(k) EXCEPT !.seq = n] \in RunFrames
                           /\ [RunFrame(k) EXCEPT !.seq = n].node = "none"
                           /\ [RunFrame(k) EXCEPT !.seq = n].kind = k
BY DEF RunFrame, RunFrames, RowSays

\* A step of the server that sends one frame, or would if the stream were up.
LEMMA ServerSends ==
  ASSUME RunsInv, NEW t \in RunServer, rnsrv' = t, t.stream = rnsrv.stream, rn' = rn,
         NEW f \in RunFrames, rnnet' = (IF rnsrv.stream THEN Append(rnnet, f) ELSE rnnet),
         Moves(f, rnsrv, t), Speaks(f, rnsrv, t),
         WillAsk(f) \/ (t.shape = rnsrv.shape /\ t.status = rnsrv.status),
         t.status = "done" => rnsrv.status = "done" \/ f.kind = "finished"
  PROVE  RunsInv'
<1>1. RunFits(rn') /\ VerbsFit(rn'.ctl) /\ rnsrv' \in RunServer
  BY DEF RunsInv
<1>2. CASE rnsrv.stream
  <2>1. rnnet' = Append(rnnet, f) /\ rnnet \in Seq(RunFrames) /\ Holds(rn, rnnet, rnsrv)
    BY <1>2 DEF RunsInv
  <2>2. Append(rnnet, f) \in Seq(RunFrames)
    BY <2>1, StreamLonger
  <2>3. Holds(rn, Append(rnnet, f), t)
    BY <2>1, SentHolds
  <2>4. QED
    BY <1>1, <2>1, <2>2, <2>3 DEF RunsInv
<1>3. CASE ~rnsrv.stream
  BY <1>1, <1>3 DEF RunsInv
<1>4. QED
  BY <1>2, <1>3

\* The server's record of the run, by its fields.
LEMMA ServerFields ==
  ASSUME rnsrv \in RunServer
  PROVE  /\ DOMAIN rnsrv = {"nodes", "shape", "status", "len", "open", "stream", "leases"}
         /\ rnsrv.nodes \in [RunNodes -> Nat] /\ rnsrv.shape \in Nat /\ rnsrv.len \in Nat
         /\ rnsrv.status \in {"running", "parked", "done"} /\ rnsrv.stream \in BOOLEAN
BY DEF RunServer

\* A node that moves is told of by the frame that is sent.
LEMMA NodeMovesKeeps ==
  ASSUME RunsInv, NodeMoves
  PROVE  RunsInv'
<1>1. PICK n \in RunNodes :
        /\ rnsrv' = [rnsrv EXCEPT !.nodes[n] = @ + 1]
        /\ Sends([RunFrame("progress") EXCEPT !.node = n, !.stage = rnsrv.nodes[n] + 1,
                                              !.shape = rnsrv.shape])
  BY DEF NodeMoves
<1> DEFINE nodes == [rnsrv.nodes EXCEPT ![n] = @ + 1]
           t == [rnsrv EXCEPT !.nodes = nodes]
           f == [RunFrame("progress") EXCEPT !.node = n, !.stage = rnsrv.nodes[n] + 1, !.shape = rnsrv.shape]
<1>2. rnsrv' = t
  BY <1>1, Zenon
<1>3. rnnet' = IF rnsrv.stream THEN Append(rnnet, f) ELSE rnnet
  BY <1>1 DEF Sends
<1>4. rnsrv \in RunServer /\ rn' = rn /\ rnsrv.status = "running"
  BY DEF RunsInv, NodeMoves
<1>5. nodes \in [RunNodes -> Nat] /\ nodes[n] = rnsrv.nodes[n] + 1
      /\ \A m \in RunNodes \ {n} : nodes[m] = rnsrv.nodes[m]
  BY <1>4, ServerFields
<1> HIDE DEF nodes
<1>6. t \in RunServer /\ t.nodes = nodes /\ t.shape = rnsrv.shape /\ t.status = rnsrv.status
      /\ t.stream = rnsrv.stream
  BY <1>4, <1>5 DEF RunServer
<1> HIDE DEF t
<1>7. f \in RunFrames /\ f.node = n /\ f.kind = "progress" /\ f.stage = nodes[n]
  BY <1>4, <1>5, ServerFields DEF RunFrame, RunFrames, FrameKinds, RowSays
<1> HIDE DEF f
<1>8. Moves(f, rnsrv, t)
  BY <1>5, <1>6, <1>7 DEF Moves
<1>9. Speaks(f, rnsrv, t)
  BY <1>4, <1>6, <1>7 DEF Speaks, Tells, Told, Live
<1>10. t.status # "done"
  BY <1>4, <1>6
<1>11. QED
  BY <1>2, <1>3, <1>4, <1>6, <1>7, <1>8, <1>9, <1>10, ServerSends

\* A tree that grows has the run read again.
LEMMA TreeGrowsKeeps ==
  ASSUME RunsInv, TreeGrows
  PROVE  RunsInv'
<1> DEFINE t == [rnsrv EXCEPT !.shape = @ + 1]
           f == RunFrame("progress")
<1>1. rnsrv' = t /\ rnsrv.status = "running" /\ rn' = rn /\ rnsrv \in RunServer
      /\ rnnet' = IF rnsrv.stream THEN Append(rnnet, f) ELSE rnnet
  BY DEF TreeGrows, Sends, RunsInv
<1>2. t \in RunServer /\ t.nodes = rnsrv.nodes /\ t.status = rnsrv.status /\ t.stream = rnsrv.stream
  BY <1>1 DEF RunServer
<1> HIDE DEF t
<1>3. f \in RunFrames /\ f.node = "none" /\ f.kind = "progress"
  BY PlainFrame DEF FrameKinds
<1> HIDE DEF f
<1>4. Moves(f, rnsrv, t) /\ WillAsk(f)
  BY <1>2, <1>3 DEF Moves, WillAsk
<1>5. Speaks(f, rnsrv, t)
  BY <1>1, <1>2, <1>3 DEF Speaks, Tells, Told, Live
<1>6. QED
  BY <1>1, <1>2, <1>3, <1>4, <1>5, ServerSends

\* A run whose status moves, its lease with it.
LEMMA StatusMoves ==
  ASSUME rnsrv \in RunServer, NEW status \in {"running", "parked", "done"}
  PROVE  LET t == [rnsrv EXCEPT !.status = status, !.leases = @ + 1]
         IN  t \in RunServer /\ t.nodes = rnsrv.nodes /\ t.status = status /\ t.stream = rnsrv.stream
<1> DEFINE n == rnsrv.leases + 1
           t == [rnsrv EXCEPT !.status = status, !.leases = n]
<1>1. n \in Nat
  BY DEF RunServer
<1> HIDE DEF n
<1>2. t \in RunServer /\ t.nodes = rnsrv.nodes /\ t.status = status /\ t.stream = rnsrv.stream
  BY <1>1 DEF RunServer
<1>3. QED
  BY <1>2 DEF n

\* A run that resumes says so, and is read again.
LEMMA RunResumesKeeps ==
  ASSUME RunsInv, RunResumes
  PROVE  RunsInv'
<1> DEFINE t == [rnsrv EXCEPT !.status = "running", !.leases = @ + 1]
           f == RunFrame("started")
<1>1. rnsrv' = t /\ rn' = rn /\ rnsrv \in RunServer
      /\ rnnet' = IF rnsrv.stream THEN Append(rnnet, f) ELSE rnnet
  BY DEF RunResumes, Sends, RunsInv
<1>2. t \in RunServer /\ t.nodes = rnsrv.nodes /\ t.status = "running" /\ t.stream = rnsrv.stream
  BY <1>1, StatusMoves
<1> HIDE DEF t
<1>3. f \in RunFrames /\ f.node = "none" /\ f.kind = "started"
  BY PlainFrame DEF FrameKinds
<1> HIDE DEF f
<1>4. Moves(f, rnsrv, t) /\ WillAsk(f)
  BY <1>2, <1>3 DEF Moves, WillAsk
<1>5. Speaks(f, rnsrv, t)
  BY <1>2, <1>3 DEF Speaks, Tells, Told, Live
<1>6. QED
  BY <1>1, <1>2, <1>3, <1>4, <1>5, ServerSends

\* A run that ends says so, and is read again with its verbs.
LEMMA RunEndsKeeps ==
  ASSUME RunsInv, RunEnds
  PROVE  RunsInv'
<1> DEFINE t == [rnsrv EXCEPT !.status = "done", !.leases = @ + 1]
           f == RunFrame("finished")
<1>1. rnsrv' = t /\ rn' = rn /\ rnsrv \in RunServer
      /\ rnnet' = IF rnsrv.stream THEN Append(rnnet, f) ELSE rnnet
  BY DEF RunEnds, Sends, RunsInv
<1>2. t \in RunServer /\ t.nodes = rnsrv.nodes /\ t.status = "done" /\ t.stream = rnsrv.stream
  BY <1>1, StatusMoves
<1> HIDE DEF t
<1>3. f \in RunFrames /\ f.node = "none" /\ f.kind = "finished"
  BY PlainFrame DEF FrameKinds
<1> HIDE DEF f
<1>4. Moves(f, rnsrv, t) /\ WillAsk(f)
  BY <1>2, <1>3 DEF Moves, WillAsk
<1>5. Speaks(f, rnsrv, t)
  BY <1>2, <1>3 DEF Speaks, Tells, Told, Live
<1>6. QED
  BY <1>1, <1>2, <1>3, <1>4, <1>5, ServerSends

\* A run that parks says so twice, and is read again.
LEMMA RunParksKeeps ==
  ASSUME RunsInv, RunParks
  PROVE  RunsInv'
<1> DEFINE t == [rnsrv EXCEPT !.status = "parked", !.leases = @ + 1]
           f == RunFrame("paused")
           g == RunFrame("input")
<1>1. rnsrv' = t /\ rn' = rn /\ rnsrv \in RunServer /\ RunFits(rn) /\ VerbsFit(rn.ctl)
      /\ rnnet \in Seq(RunFrames) /\ rnnet' = IF rnsrv.stream THEN rnnet \o <<f, g>> ELSE rnnet
  BY DEF RunParks, RunsInv
<1>2. t \in RunServer /\ t.nodes = rnsrv.nodes /\ t.status = "parked" /\ t.stream = rnsrv.stream
  BY <1>1, StatusMoves
<1> HIDE DEF t
<1>3. /\ f \in RunFrames /\ f.node = "none" /\ f.kind = "paused"
      /\ g \in RunFrames /\ g.node = "none" /\ g.kind = "input"
  BY PlainFrame DEF FrameKinds
<1> HIDE DEF f, g
<1>4. Append(rnnet, f) \in Seq(RunFrames) /\ rnnet \o <<f, g>> = Append(Append(rnnet, f), g)
      /\ Append(Append(rnnet, f), g) \in Seq(RunFrames)
  BY <1>1, <1>3
<1>5. CASE rnsrv.stream
  <2>1. Moves(f, rnsrv, t) /\ WillAsk(f) /\ Speaks(f, rnsrv, t) /\ t.status # "done"
    BY <1>2, <1>3 DEF Moves, WillAsk, Speaks, Tells, Told, Live
  <2>2. Holds(rn, Append(rnnet, f), t)
    BY <1>1, <1>3, <1>5, <2>1, SentHolds DEF RunsInv
  <2>3. Moves(g, t, t) /\ Speaks(g, t, t)
    BY <1>2, <1>3 DEF Moves, Speaks, Tells, Told, Live
  <2>4. Holds(rn, Append(Append(rnnet, f), g), t)
    BY <1>3, <1>4, <2>1, <2>2, <2>3, SentHolds
  <2>5. QED
    BY <1>1, <1>2, <1>4, <1>5, <2>4 DEF RunsInv
<1>6. CASE ~rnsrv.stream
  BY <1>1, <1>2, <1>6 DEF RunsInv
<1>7. QED
  BY <1>5, <1>6

\* What the step writes is of its turn alone.
LEMMA StepWritesKeeps ==
  ASSUME RunsInv, StepWrites
  PROVE  RunsInv'
<1>1. rn' = rn /\ rnsrv \in RunServer
  BY DEF StepWrites, RunsInv
<1>2. ASSUME NEW f \in RunFrames, f.node = "none", f.kind \in {"turn", "entry", "opened"}, Sends(f),
             NEW t \in RunServer, rnsrv' = t, t.nodes = rnsrv.nodes, t.shape = rnsrv.shape,
             t.status = rnsrv.status, t.stream = rnsrv.stream
      PROVE  RunsInv'
  <2>1. Moves(f, rnsrv, t) /\ Speaks(f, rnsrv, t)
    BY <1>2 DEF Moves, Speaks, Tells, Live
  <2>2. rnnet' = IF rnsrv.stream THEN Append(rnnet, f) ELSE rnnet
    BY <1>2 DEF Sends
  <2>3. QED
    BY <1>1, <1>2, <2>1, <2>2, ServerSends
<1>3. CASE /\ rnsrv' = [rnsrv EXCEPT !.len = @ + 1]
           /\ Sends([RunFrame(IF rnsrv.len = 0 THEN "turn" ELSE "entry") EXCEPT !.seq = rnsrv.len])
  <2> DEFINE t == [rnsrv EXCEPT !.len = @ + 1]
             k == IF rnsrv.len = 0 THEN "turn" ELSE "entry"
             f == [RunFrame(k) EXCEPT !.seq = rnsrv.len]
  <2>1. rnsrv' = t /\ Sends(f)
    BY <1>3
  <2>2. t \in RunServer /\ t.nodes = rnsrv.nodes /\ t.shape = rnsrv.shape /\ t.status = rnsrv.status
        /\ t.stream = rnsrv.stream /\ rnsrv.len \in Nat
    BY <1>1 DEF RunServer
  <2> HIDE DEF t
  <2>3. k \in FrameKinds /\ k \in {"turn", "entry", "opened"}
    BY DEF FrameKinds
  <2> HIDE DEF k
  <2>4. f \in RunFrames /\ f.node = "none" /\ f.kind = k
    BY <2>2, <2>3, PlainFrame
  <2> HIDE DEF f
  <2>5. QED
    BY <1>2, <2>1, <2>2, <2>3, <2>4
<1>4. CASE rnsrv' = [rnsrv EXCEPT !.open = TRUE] /\ Sends(RunFrame("opened"))
  <2> DEFINE t == [rnsrv EXCEPT !.open = TRUE]
             f == RunFrame("opened")
  <2>1. rnsrv' = t /\ Sends(f)
    BY <1>4
  <2>2. t \in RunServer /\ t.nodes = rnsrv.nodes /\ t.shape = rnsrv.shape /\ t.status = rnsrv.status
        /\ t.stream = rnsrv.stream
    BY <1>1 DEF RunServer
  <2> HIDE DEF t
  <2>3. f \in RunFrames /\ f.node = "none" /\ f.kind = "opened"
    BY PlainFrame DEF FrameKinds
  <2> HIDE DEF f
  <2>4. QED
    BY <1>2, <2>1, <2>2, <2>3
<1>5. QED
  BY <1>3, <1>4 DEF StepWrites

\* So is the text it seals.
LEMMA StepSealsKeeps ==
  ASSUME RunsInv, StepSeals
  PROVE  RunsInv'
<1> DEFINE len == rnsrv.len + 1
           t == [rnsrv EXCEPT !.open = FALSE, !.len = len]
           f == RunFrame("delta")
           g == [RunFrame("seal") EXCEPT !.seq = rnsrv.len]
<1>1. rnsrv' = t /\ rn' = rn /\ rnsrv \in RunServer /\ RunFits(rn) /\ VerbsFit(rn.ctl)
      /\ rnnet \in Seq(RunFrames) /\ rnnet' = IF rnsrv.stream THEN rnnet \o <<f, g>> ELSE rnnet
  BY DEF StepSeals, RunsInv
<1>2. rnsrv.len \in Nat /\ len \in Nat
  BY <1>1, ServerFields
<1> HIDE DEF len
<1>3. t \in RunServer /\ t.nodes = rnsrv.nodes /\ t.shape = rnsrv.shape /\ t.status = rnsrv.status
      /\ t.stream = rnsrv.stream /\ rnsrv.len \in Nat
  BY <1>1, <1>2 DEF RunServer
<1> HIDE DEF t
<1>4. /\ f \in RunFrames /\ f.node = "none" /\ f.kind = "delta"
      /\ g \in RunFrames /\ g.node = "none" /\ g.kind = "seal"
  BY <1>3, PlainFrame DEF FrameKinds
<1> HIDE DEF f, g
<1>5. Append(rnnet, f) \in Seq(RunFrames) /\ rnnet \o <<f, g>> = Append(Append(rnnet, f), g)
      /\ Append(Append(rnnet, f), g) \in Seq(RunFrames)
  BY <1>1, <1>4
<1>6. CASE rnsrv.stream
  <2>1. /\ Moves(f, rnsrv, t) /\ Speaks(f, rnsrv, t)
        /\ Moves(g, t, t) /\ Speaks(g, t, t)
    BY <1>3, <1>4 DEF Moves, Speaks, Tells, Live
  <2>2. Holds(rn, Append(rnnet, f), t)
    BY <1>1, <1>3, <1>4, <1>6, <2>1, SentHolds DEF RunsInv
  <2>3. Holds(rn, Append(Append(rnnet, f), g), t)
    BY <1>4, <1>5, <2>1, <2>2, SentHolds
  <2>4. QED
    BY <1>1, <1>3, <1>5, <1>6, <2>3 DEF RunsInv
<1>7. CASE ~rnsrv.stream
  BY <1>1, <1>3, <1>7 DEF RunsInv
<1>8. QED
  BY <1>6, <1>7

\* While the stream is down nothing is claimed.
LEMMA StreamDropsKeeps ==
  ASSUME RunsInv, StreamDrops
  PROVE  RunsInv'
<1> DEFINE t == [rnsrv EXCEPT !.stream = FALSE]
<1>1. rnsrv' = t /\ rn' = rn /\ rnnet' = <<>> /\ rnsrv \in RunServer
  BY DEF StreamDrops, RunsInv
<1>2. t \in RunServer /\ ~t.stream
  BY <1>1 DEF RunServer
<1> HIDE DEF t
<1>3. QED
  BY <1>1, <1>2 DEF RunsInv

----------------------------------------------------------------------------
(* What a client's step does to its run.                                   *)

\* All but the log of the step's turn stays as it is.
ButLog(x, y) ==
    /\ Has(y, RnFields)
    /\ y.cell = x.cell /\ y.read = x.read /\ y.stale = x.stale /\ y.answered = x.answered
    /\ y.retry = x.retry /\ y.overtaken = x.overtaken /\ y.blind = x.blind /\ y.gaveUp = x.gaveUp
    /\ y.ctl = x.ctl /\ y.live = x.live /\ y.list = x.list /\ y.raced = x.raced
    /\ y.rowBlind = x.rowBlind /\ y.gaps = x.gaps /\ y.shown = x.shown

\* What is known of the run's state, of the row, of the verbs.
SameCell(x, y) ==
    /\ y.cell = x.cell /\ y.read = x.read /\ y.stale = x.stale /\ y.answered = x.answered
    /\ y.retry = x.retry /\ y.overtaken = x.overtaken /\ y.blind = x.blind /\ y.gaveUp = x.gaveUp
SameRow(x, y) == y.live = x.live /\ y.list = x.list /\ y.raced = x.raced /\ y.rowBlind = x.rowBlind

\* Two steps on the log of the turn are one.
LEMMA ButLogSteps ==
  ASSUME NEW x, NEW y, NEW z, ButLog(x, y), ButLog(y, z)
  PROVE  ButLog(x, z)
BY DEF ButLog

\* A gap met in the log changes the log alone,
LEMMA MarkRunHoleKeeps ==
  ASSUME NEW x, Has(x, RnFields)
  PROVE  ButLog(x, MarkRunHole(x))
<1> DEFINE range == IF x.range = Nil THEN <<IF x.log = Nil THEN 0 ELSE Len(x.log)>> ELSE x.range
<1>1. MarkRunHole(x) = [x EXCEPT !.hole = TRUE, !.range = range]
  BY Zenon DEF MarkRunHole
<1> HIDE DEF range
<1>2. QED
  BY <1>1 DEF ButLog, Has, RnFields

\* as does a turn that opens,
LEMMA OpenRunTurnKeeps ==
  ASSUME NEW x, Has(x, RnFields)
  PROVE  ButLog(x, OpenRunTurn(x))
BY DEF OpenRunTurn, ButLog, Has, RnFields

\* an entry appended,
LEMMA AppendRunEntryKeeps ==
  ASSUME NEW x, Has(x, RnFields), NEW seq
  PROVE  ButLog(x, AppendRunEntry(x, seq))
<1> DEFINE y == [x EXCEPT !.log = Append(@, seq)]
<1>1. AppendRunEntry(x, seq) \in {x, y, MarkRunHole(x)}
  BY Zenon DEF AppendRunEntry
<1>2. ButLog(x, x) /\ ButLog(x, y)
  BY DEF ButLog, Has, RnFields
<1> HIDE DEF y
<1>3. QED
  BY <1>1, <1>2, MarkRunHoleKeeps

\* the entries of an answer,
LEMMA SeatKeeps ==
  ASSUME NEW x, Has(x, RnFields), NEW from, NEW len
  PROVE  ButLog(x, Seat(x, from, len))
<1> DEFINE y == IF from = 0 THEN OpenRunTurn(x) ELSE x
           held == IF y.log = Nil THEN 0 ELSE Len(y.log)
           log == y.log \o [i \in 1 .. (len - held) |-> held + i - 1]
           z == [y EXCEPT !.log = log]
<1>1. Seat(x, from, len) \in {x, MarkRunHole(y), z}
  BY Zenon DEF Seat
<1>2. ButLog(x, x) /\ ButLog(x, y)
  BY OpenRunTurnKeeps DEF ButLog
<1> HIDE DEF y, log
<1>3. ButLog(y, z) /\ ButLog(y, MarkRunHole(y))
  BY <1>2, MarkRunHoleKeeps DEF ButLog, Has, RnFields
<1> HIDE DEF z
<1>4. QED
  BY <1>1, <1>2, <1>3, ButLogSteps

\* and what else lands of the step's turn.
LEMMA LogKeeps ==
  ASSUME NEW x, Has(x, RnFields)
  PROVE  /\ ButLog(x, OpenRunEntry(x)) /\ ButLog(x, ApplyRunDelta(x))
         /\ \A seq : ButLog(x, SealRunEntry(x, seq))
         /\ \A ans : ButLog(x, AdoptStep(x, ans))
         /\ \A from, ans : ButLog(x, AdoptRange(x, from, ans))
<1>1. ButLog(x, MarkRunHole(x)) /\ ButLog(x, x)
  BY MarkRunHoleKeeps DEF ButLog
<1>2. ButLog(x, OpenRunEntry(x))
  BY <1>1 DEF OpenRunEntry, ButLog, Has, RnFields
<1>3. ButLog(x, ApplyRunDelta(x))
  BY <1>1 DEF ApplyRunDelta
<1>4. ASSUME NEW seq
      PROVE  ButLog(x, SealRunEntry(x, seq))
  <2> DEFINE y == [x EXCEPT !.open = FALSE]
  <2>1. SealRunEntry(x, seq) \in {MarkRunHole(x), AppendRunEntry(y, seq)}
    BY Zenon DEF SealRunEntry
  <2>2. ButLog(x, y)
    BY DEF ButLog, Has, RnFields
  <2> HIDE DEF y
  <2>3. ButLog(y, AppendRunEntry(y, seq))
    BY <2>2, AppendRunEntryKeeps DEF ButLog
  <2>4. QED
    BY <1>1, <2>1, <2>2, <2>3, ButLogSteps
<1>5. ASSUME NEW ans
      PROVE  ButLog(x, AdoptStep(x, ans))
  <2> DEFINE y == Seat(x, 0, ans.len)
             z == [y EXCEPT !.open = ans.open, !.hole = FALSE]
  <2>1. AdoptStep(x, ans) \in {x, z}
    BY Zenon DEF AdoptStep
  <2>2. ButLog(x, y)
    BY SeatKeeps
  <2> HIDE DEF y
  <2>3. ButLog(y, z)
    BY <2>2 DEF ButLog, Has, RnFields
  <2> HIDE DEF z
  <2>4. QED
    BY <1>1, <2>1, <2>2, <2>3, ButLogSteps
<1>6. ASSUME NEW from, NEW ans
      PROVE  ButLog(x, AdoptRange(x, from, ans))
  <2> DEFINE y == Seat(x, from, ans.len)
             hole == y.hole /\ from < ans.len /\ Len(y.log) < ans.len
             z == [y EXCEPT !.open = ans.open, !.hole = hole]
  <2>1. AdoptRange(x, from, ans) \in {y, z}
    BY Zenon DEF AdoptRange
  <2>2. ButLog(x, y)
    BY SeatKeeps
  <2> HIDE DEF y, hole
  <2>3. ButLog(y, z)
    BY <2>2 DEF ButLog, Has, RnFields
  <2> HIDE DEF z
  <2>4. QED
    BY <2>1, <2>2, <2>3, ButLogSteps
<1>7. QED
  BY <1>2, <1>3, <1>4, <1>5, <1>6

\* A read is out that what changed meanwhile has made stale, or that nothing has answered yet.
Asked(x) == x.read # Nil /\ (Len(x.read) = 2 => x.stale # Nil)

\* While such a read is out nothing is claimed of the cached state.
LEMMA AskedHolds ==
  ASSUME NEW x, NEW net, NEW s, Asked(x)
  PROVE  CellHolds(x, net, s)
BY DEF Asked, CellHolds, Owed

\* All but the read of the run's state stays as it is.
Rest(x, y) ==
    /\ y.cell = x.cell /\ y.retry = x.retry /\ y.blind = x.blind /\ y.gaveUp = x.gaveUp /\ y.ctl = x.ctl
    /\ y.gaps = x.gaps /\ y.shown = x.shown /\ SameRow(x, y)

\* A read that goes out.
LEMMA StartReadIs ==
  ASSUME NEW x, Has(x, RnFields), NEW c
  PROVE  /\ Has(StartRead(x, c), RnFields) /\ StartRead(x, c).read = <<c>> /\ Rest(x, StartRead(x, c))
         /\ StartRead(x, c).stale = x.stale
         /\ StartRead(x, c).answered = IF c = Uncaused THEN x.answered ELSE c
<1> DEFINE answered == IF c = Uncaused THEN x.answered ELSE c
<1>1. StartRead(x, c) = [x EXCEPT !.read = <<c>>, !.overtaken = FALSE, !.answered = answered]
  BY Zenon DEF StartRead
<1> HIDE DEF answered
<1>2. /\ Has(StartRead(x, c), RnFields) /\ StartRead(x, c).read = <<c>> /\ Rest(x, StartRead(x, c))
      /\ StartRead(x, c).stale = x.stale /\ StartRead(x, c).answered = answered
  BY <1>1 DEF Rest, SameRow, Has, RnFields
<1>3. QED
  BY <1>2 DEF answered

\* A run invalidated is being read, unless the cause was answered before.
LEMMA InvalidateIs ==
  ASSUME NEW x, RunFits(x), NEW c \in 0 .. x.gaps
  PROVE  /\ RunFits(Invalidate(x, c)) /\ Rest(x, Invalidate(x, c))
         /\ \/ Asked(Invalidate(x, c))
            \/ Invalidate(x, c) = x /\ c # Uncaused /\ x.answered = c
<1>1. CASE c # Uncaused /\ x.answered = c
  BY <1>1 DEF Invalidate, Rest, SameRow
<1>2. CASE ~(c # Uncaused /\ x.answered = c) /\ x.read # Nil
  <2>1. Invalidate(x, c) = [x EXCEPT !.stale = <<c>>]
    BY <1>2 DEF Invalidate
  <2>2. /\ Has(Invalidate(x, c), RnFields) /\ Rest(x, Invalidate(x, c)) /\ Invalidate(x, c).read = x.read
        /\ Invalidate(x, c).stale = <<c>> /\ Invalidate(x, c).answered = x.answered
    BY <2>1 DEF RunFits, Rest, SameRow, Has, RnFields
  <2>3. Asked(Invalidate(x, c))
    BY <1>2, <2>2 DEF Asked, Nil
  <2>4. RunFits(Invalidate(x, c))
    BY <1>2, <2>2 DEF RunFits, Rest, SameRow, Cause
  <2>5. QED
    BY <2>2, <2>3, <2>4
<1>3. CASE ~(c # Uncaused /\ x.answered = c) /\ x.read = Nil
  <2>1. Invalidate(x, c) = StartRead(x, c)
    BY <1>3 DEF Invalidate
  <2>2. Has(x, RnFields)
    BY DEF RunFits
  <2>3. /\ Has(Invalidate(x, c), RnFields) /\ Rest(x, Invalidate(x, c)) /\ Invalidate(x, c).read = <<c>>
        /\ Invalidate(x, c).stale = x.stale
        /\ Invalidate(x, c).answered = IF c = Uncaused THEN x.answered ELSE c
    BY <2>1, <2>2, StartReadIs
  <2>4. Asked(Invalidate(x, c))
    BY <2>3 DEF Asked, Nil
  <2>5. RunFits(Invalidate(x, c))
    BY <2>3, <2>4 DEF RunFits, Rest, SameRow, Cause, ReadOf, Asked
  <2>6. QED
    BY <2>3, <2>4, <2>5
<1>4. QED
  BY <1>1, <1>2, <1>3

\* A read that is asked for takes nothing from what holds of the cell.
LEMMA InvalidateHolds ==
  ASSUME NEW x, RunFits(x), NEW c \in 0 .. x.gaps, NEW net, NEW s, CellHolds(x, net, s)
  PROVE  CellHolds(Invalidate(x, c), net, s)
BY InvalidateIs, AskedHolds

\* What is known of the verbs, but whether a read of them is out.
LEMMA AskControlsIs ==
  ASSUME NEW c, Has(c, CtlFields)
  PROVE  /\ Has(AskControls(c), CtlFields) /\ AskControls(c).read = <<"asked">>
         /\ AskControls(c).stale = c.stale /\ AskControls(c).late = c.late
         /\ IF c.late = {} THEN ~AskControls(c).crossed ELSE AskControls(c).crossed
BY DEF AskControls, Has, CtlFields

\* The verbs invalidated are being read, and what is out is known to be late.
LEMMA InvalidateControlsIs ==
  ASSUME NEW x, Has(x, RnFields), VerbsFit(x.ctl)
  PROVE  /\ Has(InvalidateControls(x), RnFields) /\ SameCell(x, InvalidateControls(x))
         /\ SameRow(x, InvalidateControls(x)) /\ InvalidateControls(x).gaps = x.gaps
         /\ VerbsFit(InvalidateControls(x).ctl)
         /\ InvalidateControls(x).ctl.read # Nil
         /\ InvalidateControls(x).ctl.stale \/ Len(InvalidateControls(x).ctl.read) = 1
<1> DEFINE old == x.ctl
           ctl == IF old.read # Nil THEN [old EXCEPT !.stale = TRUE] ELSE AskControls(old)
           y == [x EXCEPT !.ctl = ctl]
<1>1. InvalidateControls(x) = y
  BY Zenon DEF InvalidateControls
<1>2. Has(old, CtlFields)
  BY DEF VerbsFit
<1>3. VerbsFit(ctl) /\ ctl.read # Nil /\ (ctl.stale \/ Len(ctl.read) = 1)
  <2>1. CASE old.read # Nil
    <3>1. ctl = [old EXCEPT !.stale = TRUE]
      BY <2>1
    <3> HIDE DEF ctl
    <3>2. Has(ctl, CtlFields) /\ ctl.stale /\ ctl.read = old.read /\ ctl.late = old.late
          /\ ctl.crossed = old.crossed
      BY <1>2, <3>1 DEF Has, CtlFields
    <3>3. QED
      BY <2>1, <3>2 DEF VerbsFit
  <2>2. CASE old.read = Nil
    <3>1. ctl = AskControls(old)
      BY <2>2
    <3> HIDE DEF ctl
    <3>2. /\ Has(ctl, CtlFields) /\ ctl.read = <<"asked">> /\ ctl.stale = old.stale /\ ctl.late = old.late
          /\ ctl.late # {} => ctl.crossed
      BY <1>2, <3>1, AskControlsIs
    <3>3. QED
      BY <2>2, <3>2 DEF VerbsFit, Nil
  <2> HIDE DEF ctl
  <2>3. QED
    BY <2>1, <2>2
<1> HIDE DEF ctl
<1>4. Has(y, RnFields) /\ SameCell(x, y) /\ SameRow(x, y) /\ y.gaps = x.gaps /\ y.ctl = ctl
  BY DEF SameCell, SameRow, Has, RnFields
<1> HIDE DEF y
<1>5. QED
  BY <1>1, <1>3, <1>4

\* The row as a frame of the run leaves it.
LEMMA NotedIs ==
  ASSUME NEW x, RunFits(x), NEW row
  PROVE  LET y == [x EXCEPT !.live = row]
         IN  /\ RunFits(y) /\ SameCell(x, y) /\ y.ctl = x.ctl /\ y.gaps = x.gaps
             /\ y.list = x.list /\ y.raced = x.raced /\ y.rowBlind = x.rowBlind /\ y.live = row
<1> DEFINE y == [x EXCEPT !.live = row]
<1>1. /\ Has(y, RnFields) /\ SameCell(x, y) /\ y.ctl = x.ctl /\ y.gaps = x.gaps
      /\ y.list = x.list /\ y.raced = x.raced /\ y.rowBlind = x.rowBlind /\ y.live = row
  BY DEF RunFits, Has, RnFields, SameCell
<1> HIDE DEF y
<1>2. RunFits(y)
  BY <1>1 DEF RunFits, SameCell
<1>3. QED
  BY <1>1, <1>2 DEF y

----------------------------------------------------------------------------
(* What holds, from what a step leaves as it is.                           *)

\* What holds of the cached state speaks of the reads of it alone,
LEMMA CellCarried ==
  ASSUME NEW x, NEW y, NEW net, NEW s, SameCell(x, y), CellHolds(x, net, s)
  PROVE  CellHolds(y, net, s)
BY DEF SameCell, CellHolds, Owed

\* that of the row of the row,
LEMMA RowCarried ==
  ASSUME NEW x, NEW y, NEW net, NEW s, SameRow(x, y), RowHeld(x, net, s)
  PROVE  RowHeld(y, net, s)
BY DEF SameRow, RowHeld

\* that of the verbs of the verbs,
LEMMA VerbsCarried ==
  ASSUME NEW x, NEW y, NEW net, NEW s, y.ctl = x.ctl, y.gaps = x.gaps, VerbsHold(x, net, s)
  PROVE  VerbsHold(y, net, s)
BY DEF VerbsHold

\* and the shape of the run of neither the row nor the log.
LEMMA FitsCarried ==
  ASSUME NEW x, NEW y, Has(y, RnFields), SameCell(x, y), y.list = x.list, y.gaps = x.gaps, RunFits(x)
  PROVE  RunFits(y)
BY DEF RunFits, SameCell

\* A step that asks for the run's state, and for nothing else.
LEMMA AskedKeeps ==
  ASSUME NEW x, NEW y, NEW net, NEW s, Holds(x, net, s), Rest(x, y), Asked(y)
  PROVE  Holds(y, net, s)
BY AskedHolds, RowCarried, VerbsCarried DEF Holds, Rest

\* A read asked for takes nothing from what holds of the run.
LEMMA InvalidateHoldsAll ==
  ASSUME NEW x, RunFits(x), NEW c \in 0 .. x.gaps, NEW net, NEW s, Holds(x, net, s)
  PROVE  Holds(Invalidate(x, c), net, s)
<1>1. Rest(x, Invalidate(x, c)) /\ (Asked(Invalidate(x, c)) \/ Invalidate(x, c) = x)
  BY InvalidateIs
<1>2. QED
  BY <1>1, AskedKeeps

----------------------------------------------------------------------------
(* The frames that land.                                                   *)

\* A state as good as the stream says, once its first frame is taken: the frame says
\* where the node it is about is, unless a later one does.
LEMMA CurrentTaken ==
  ASSUME NEW net \in Seq(RunFrames), net # <<>>, NEW s \in RunServer, NodesTold(net, s),
         NEW c, Current(c, net, s), NEW d, Has(d, StateFields), d.shape = c.shape, d.status = c.status,
         \/ Head(net).node = "none" /\ d.nodes = c.nodes
         \/ d.nodes = [c.nodes EXCEPT ![Head(net).node] = Head(net).stage]
  PROVE  Current(d, Tail(net), s)
<1> DEFINE h == Head(net)
           g == Tail(net)
<1>1. /\ h = net[1] /\ h \in RunFrames /\ Len(net) \in Nat \ {0} /\ Len(g) = Len(net) - 1
      /\ \A i \in 1 .. Len(net) - 1 : g[i] = net[i + 1]
  BY StreamShorter
<1> HIDE DEF h, g
<1>2. \A n \in RunNodes : \A i \in 2 .. Len(net) : net[i].node = n => \E k \in 1 .. Len(g) : g[k].node = n
  <2>1. SUFFICES ASSUME NEW n \in RunNodes, NEW i \in 2 .. Len(net), net[i].node = n
                 PROVE  \E k \in 1 .. Len(g) : g[k].node = n
    OBVIOUS
  <2>2. i - 1 \in 1 .. Len(g) /\ g[i - 1] = net[i]
    BY <1>1
  <2>3. QED
    BY <2>1, <2>2
<1>3. ASSUME NEW n \in RunNodes, n # h.node
      PROVE  c.nodes[n] = s.nodes[n] \/ \E k \in 1 .. Len(g) : g[k].node = n
  <2>1. CASE \E i \in 1 .. Len(net) : net[i].node = n
    <3>1. PICK i \in 1 .. Len(net) : net[i].node = n
      BY <2>1
    <3>2. i \in 2 .. Len(net)
      BY <1>1, <1>3, <3>1
    <3>3. QED
      BY <1>2, <3>1, <3>2
  <2>2. QED
    BY <2>1 DEF Current
<1>4. CASE h.node = "none" /\ d.nodes = c.nodes
  <2>1. \A n \in RunNodes : n # h.node
    BY <1>4, NodesAssumption
  <2>2. QED
    BY <1>3, <1>4, <2>1 DEF Current, g
<1>5. CASE h.node # "none" /\ d.nodes = [c.nodes EXCEPT ![h.node] = h.stage]
  <2>1. h.node \in RunNodes /\ Has(c.nodes, RunNodes)
    BY <1>1, <1>5 DEF RunFrames, Current
  <2>2. Has(d.nodes, RunNodes) /\ d.nodes[h.node] = h.stage
        /\ \A n \in RunNodes : n # h.node => d.nodes[n] = c.nodes[n]
    BY <1>5, <2>1 DEF Has
  <2>3. h.stage = s.nodes[h.node] \/ \E k \in 2 .. Len(net) : net[k].node = h.node
    <3>1. 1 \in 1 .. Len(net)
      BY <1>1
    <3>2. QED
      BY <1>1, <1>5, <3>1 DEF NodesTold
  <2>4. h.stage = s.nodes[h.node] \/ \E k \in 1 .. Len(g) : g[k].node = h.node
    BY <1>2, <2>1, <2>3
  <2>5. QED
    BY <1>3, <2>2, <2>4 DEF Current, g
<1>6. CASE h.node = "none" /\ d.nodes = [c.nodes EXCEPT ![h.node] = h.stage]
  <2>1. Has(c.nodes, RunNodes) /\ h.node \notin RunNodes
    BY <1>6, NodesAssumption DEF Current
  <2>2. Has(d.nodes, RunNodes) /\ \A n \in RunNodes : d.nodes[n] = c.nodes[n] /\ n # h.node
    BY <1>6, <2>1 DEF Has
  <2>3. QED
    BY <1>3, <2>2 DEF Current, g
<1>7. QED
  BY <1>4, <1>5, <1>6 DEF h

\* What the stream will ask for is asked for by a frame after the first, if not by that.
LEMMA AskingTaken ==
  ASSUME NEW net \in Seq(RunFrames), net # <<>>, Asking(net), ~WillAsk(Head(net))
  PROVE  Asking(Tail(net))
<1> DEFINE h == Head(net)
           g == Tail(net)
<1>1. /\ h = net[1] /\ Len(net) \in Nat \ {0} /\ Len(g) = Len(net) - 1
      /\ \A i \in 1 .. Len(net) - 1 : g[i] = net[i + 1]
  BY StreamShorter
<1>2. PICK i \in 1 .. Len(net) : WillAsk(net[i])
  BY DEF Asking
<1> HIDE DEF h, g
<1>3. i # 1
  BY <1>1, <1>2 DEF h
<1>4. i - 1 \in 1 .. Len(g) /\ WillAsk(g[i - 1])
  BY <1>1, <1>2, <1>3
<1>5. QED
  BY <1>4 DEF Asking, g

\* The last frame about a node is not the first, if there are others after it.
LEMMA NodesTaken ==
  ASSUME NEW net \in Seq(RunFrames), net # <<>>, NEW s, NodesTold(net, s)
  PROVE  NodesTold(Tail(net), s)
<1> DEFINE g == Tail(net)
<1>1. /\ Len(net) \in Nat \ {0} /\ Len(g) = Len(net) - 1
      /\ \A i \in 1 .. Len(net) - 1 : g[i] = net[i + 1]
  BY StreamShorter
<1> HIDE DEF g
<1>2. ASSUME NEW i \in 1 .. Len(g), g[i].node # "none"
      PROVE  /\ g[i].kind = "progress"
             /\ g[i].stage = s.nodes[g[i].node] \/ \E k \in i + 1 .. Len(g) : g[k].node = g[i].node
  <2>1. i + 1 \in 1 .. Len(net) /\ net[i + 1] = g[i]
    BY <1>1
  <2>2. /\ g[i].kind = "progress"
        /\ g[i].stage = s.nodes[g[i].node] \/ \E k \in i + 2 .. Len(net) : net[k].node = g[i].node
    BY <1>2, <2>1 DEF NodesTold
  <2>3. ASSUME NEW k \in i + 2 .. Len(net), net[k].node = g[i].node
        PROVE  k - 1 \in i + 1 .. Len(g) /\ g[k - 1].node = g[i].node
    BY <1>1, <2>3
  <2>4. QED
    BY <2>2, <2>3
<1>3. QED
  BY <1>2 DEF NodesTold, g

\* The row, once what the first frame says of it is taken.
LEMMA RowTaken ==
  ASSUME NEW net \in Seq(RunFrames), net # <<>>, NEW s, RowTold(net, s), NEW x, RowHeld(x, net, s),
         NEW y, y.rowBlind = x.rowBlind, y.list = x.list,
         y.live = (IF Tells(Head(net)) THEN Told(Head(net)) ELSE x.live),
         y.raced = (x.raced \/ (x.list # Nil /\ Head(net).kind # "connected"))
  PROVE  RowTold(Tail(net), s) /\ RowHeld(y, Tail(net), s)
<1> DEFINE h == Head(net)
           g == Tail(net)
<1>1. /\ h = net[1] /\ Len(net) \in Nat \ {0} /\ Len(g) = Len(net) - 1
      /\ \A i \in 1 .. Len(net) - 1 : g[i] = net[i + 1]
  BY StreamShorter
<1>2. /\ y.live = (IF Tells(h) THEN Told(h) ELSE x.live)
      /\ y.raced = (x.raced \/ (x.list # Nil /\ h.kind # "connected"))
  OBVIOUS
<1> HIDE DEF h, g
<1>3. \A k \in 2 .. Len(net) : k - 1 \in 1 .. Len(g) /\ g[k - 1] = net[k]
  BY <1>1
<1>4. ASSUME NEW i \in 1 .. Len(g), Tells(g[i])
      PROVE  Told(g[i]) = Live(s) \/ \E k \in i + 1 .. Len(g) : Tells(g[k])
  <2>1. i + 1 \in 1 .. Len(net) /\ net[i + 1] = g[i]
    BY <1>1
  <2>2. Told(g[i]) = Live(s) \/ \E k \in i + 2 .. Len(net) : Tells(net[k])
    BY <1>4, <2>1 DEF RowTold
  <2>3. ASSUME NEW k \in i + 2 .. Len(net), Tells(net[k])
        PROVE  k - 1 \in i + 1 .. Len(g) /\ Tells(g[k - 1])
    BY <1>1, <2>3
  <2>4. QED
    BY <2>2, <2>3
<1>5. y.rowBlind \/ y.live = Live(s) \/ \E i \in 1 .. Len(g) : Tells(g[i])
  <2>1. CASE Tells(h)
    <3>1. Told(h) = Live(s) \/ \E k \in 2 .. Len(net) : Tells(net[k])
      <4>1. 1 \in 1 .. Len(net) /\ Tells(net[1])
        BY <1>1, <2>1
      <4>2. QED
        BY <1>1, <4>1 DEF RowTold
    <3>2. QED
      BY <1>2, <1>3, <2>1, <3>1
  <2>2. CASE ~Tells(h)
    <3>1. CASE \E i \in 1 .. Len(net) : Tells(net[i])
      <4>1. PICK i \in 1 .. Len(net) : Tells(net[i])
        BY <3>1
      <4>2. i \in 2 .. Len(net)
        BY <1>1, <2>2, <4>1
      <4>3. i - 1 \in 1 .. Len(g) /\ Tells(g[i - 1])
        BY <1>3, <4>1, <4>2
      <4>4. QED
        BY <4>3
    <3>2. QED
      BY <1>2, <2>2, <3>1 DEF RowHeld
  <2>3. QED
    BY <2>1, <2>2
<1>6. ASSUME Len(y.list) = 2, ~y.raced
      PROVE  y.list[2] = Live(s) \/ \E i \in 1 .. Len(g) : Tells(g[i]) /\ g[i].kind # "connected"
  <2>1. y.list # Nil
    BY <1>6 DEF Nil
  <2>2. h.kind = "connected" /\ ~x.raced
    BY <1>2, <1>6, <2>1
  <2>3. CASE \E i \in 1 .. Len(net) : Tells(net[i]) /\ net[i].kind # "connected"
    <3>1. PICK i \in 1 .. Len(net) : Tells(net[i]) /\ net[i].kind # "connected"
      BY <2>3
    <3>2. i \in 2 .. Len(net)
      BY <1>1, <2>2, <3>1
    <3>3. i - 1 \in 1 .. Len(g) /\ Tells(g[i - 1]) /\ g[i - 1].kind # "connected"
      BY <1>3, <3>1, <3>2
    <3>4. QED
      BY <3>3
  <2>4. QED
    BY <1>6, <2>2, <2>3 DEF RowHeld
<1>7. QED
  BY <1>4, <1>5, <1>6 DEF RowTold, RowHeld, g

\* A frame about a node the cached tree holds, applied to it.
Patched(x, f, y) ==
    /\ f.node # "none" /\ y.cell = [x.cell EXCEPT !.nodes[f.node] = f.stage]
    /\ x.read # Nil => y.overtaken
    /\ y.read = x.read /\ y.stale = x.stale /\ y.answered = x.answered /\ y.retry = x.retry
    /\ y.blind = x.blind /\ y.gaveUp = x.gaveUp

\* A frame is applied to the cached tree, or has the run read again.
LEMMA ApplyProgressIs ==
  ASSUME NEW x, RunFits(x), NEW f
  PROVE  LET y == ApplyProgress(x, f)
         IN  /\ RunFits(y) /\ SameRow(x, y) /\ y.ctl = x.ctl /\ y.gaps = x.gaps
             /\ Asked(y) \/ (Patched(x, f, y) /\ x.cell # Nil)
<1> DEFINE cell == [x.cell EXCEPT !.nodes[f.node] = f.stage]
           overtaken == x.overtaken \/ x.read # Nil
           y == [x EXCEPT !.cell = cell, !.overtaken = overtaken]
<1>1. ApplyProgress(x, f) = Invalidate(x, Uncaused)
        \/ (ApplyProgress(x, f) = y /\ x.cell # Nil /\ f.node # "none")
  BY Zenon DEF ApplyProgress
<1>2. Uncaused \in 0 .. x.gaps
  BY DEF RunFits, Uncaused
<1>3. CASE ApplyProgress(x, f) = Invalidate(x, Uncaused)
  BY <1>2, <1>3, InvalidateIs DEF Rest
<1>4. CASE ApplyProgress(x, f) = y /\ x.cell # Nil /\ f.node # "none"
  <2> HIDE DEF cell, overtaken
  <2>1. /\ Has(y, RnFields) /\ SameRow(x, y) /\ y.ctl = x.ctl /\ y.gaps = x.gaps /\ y.cell = cell
        /\ y.overtaken = overtaken /\ y.read = x.read /\ y.stale = x.stale /\ y.answered = x.answered
        /\ y.retry = x.retry /\ y.blind = x.blind /\ y.gaveUp = x.gaveUp
    BY DEF RunFits, Has, RnFields, SameRow
  <2> HIDE DEF y
  <2>2. RunFits(y)
    BY <2>1 DEF RunFits, SameRow
  <2>3. x.read # Nil => y.overtaken
    BY <2>1 DEF overtaken
  <2>4. y.cell = [x.cell EXCEPT !.nodes[f.node] = f.stage]
    BY <2>1 DEF cell
  <2>5. Patched(x, f, y)
    BY <1>4, <2>1, <2>3, <2>4 DEF Patched
  <2>6. QED
    BY <1>4, <2>1, <2>2, <2>5
<1>5. QED
  BY <1>1, <1>3, <1>4

\* What a frame does, by its kind.
LEMMA OnFrameIs ==
  ASSUME NEW x, NEW f
  PROVE  /\ f.kind = "started" => OnFrame(x, f) = Invalidate(NoteLive(x, TRUE), Uncaused)
         /\ f.kind = "progress" => OnFrame(x, f) = ApplyProgress(NoteLive(x, TRUE), f)
         /\ f.kind = "paused" => OnFrame(x, f) = ApplyProgress(NoteLive(x, FALSE), f)
         /\ f.kind = "input" => OnFrame(x, f) = NoteLive(x, FALSE)
         /\ f.kind = "finished" =>
              OnFrame(x, f) = InvalidateControls(Invalidate(NoteSettled(x), Uncaused))
         /\ f.kind = "connected" => OnFrame(x, f) = AdoptLive(x, f.row, Nil)
         /\ f.kind = "turn" => OnFrame(x, f) = OpenRunTurn(x)
         /\ f.kind = "entry" => OnFrame(x, f) = AppendRunEntry(x, f.seq)
         /\ f.kind = "opened" => OnFrame(x, f) = OpenRunEntry(x)
         /\ f.kind = "delta" => OnFrame(x, f) = ApplyRunDelta(x)
         /\ f.kind = "seal" => OnFrame(x, f) = SealRunEntry(x, f.seq)
BY Zenon DEF OnFrame

\* What a frame does to a client, whatever kind it is of.
Lands(x, f, y) ==
    /\ RunFits(y) /\ VerbsFit(y.ctl) /\ y.list = x.list /\ y.gaps = x.gaps
    /\ y.rowBlind = x.rowBlind /\ y.raced = x.raced
    /\ y.live = IF Tells(f) THEN Told(f) ELSE x.live
    /\ IF f.kind = "finished" THEN y.ctl.read # Nil /\ (y.ctl.stale \/ Len(y.ctl.read) = 1)
       ELSE y.ctl = x.ctl
    /\ \/ Asked(y)
       \/ ~WillAsk(f) /\ f.kind # "progress" /\ SameCell(x, y)
       \/ Patched(x, f, y) /\ x.cell # Nil

\* What a frame that lands does to the run.
LEMMA FrameDoes ==
  ASSUME NEW x, RunFits(x), VerbsFit(x.ctl), NEW f \in RunFrames
  PROVE  Lands(x, f, OnFrame(x, f))
<1>1. Has(x, RnFields) /\ Uncaused \in 0 .. x.gaps /\ f.kind \in FrameKinds
  BY DEF RunFits, Uncaused, RunFrames
<1>2. ASSUME NEW row
      PROVE  LET y == [x EXCEPT !.live = row]
             IN  /\ RunFits(y) /\ SameCell(x, y) /\ y.ctl = x.ctl /\ y.gaps = x.gaps
                 /\ y.list = x.list /\ y.raced = x.raced /\ y.rowBlind = x.rowBlind /\ y.live = row
  BY NotedIs
<1>3. CASE f.kind \in {"turn", "entry", "opened", "delta", "seal"}
  <2>1. ButLog(x, OnFrame(x, f))
    <3>1. CASE f.kind = "turn"
      BY <1>1, <3>1, OnFrameIs, OpenRunTurnKeeps
    <3>2. CASE f.kind = "entry"
      <4>1. OnFrame(x, f) = AppendRunEntry(x, f.seq)
        BY <3>2, OnFrameIs
      <4>2. QED
        BY <1>1, <4>1, AppendRunEntryKeeps
    <3>3. CASE f.kind = "opened"
      BY <1>1, <3>3, OnFrameIs, LogKeeps
    <3>4. CASE f.kind = "delta"
      BY <1>1, <3>4, OnFrameIs, LogKeeps
    <3>5. CASE f.kind = "seal"
      <4>1. OnFrame(x, f) = SealRunEntry(x, f.seq)
        BY <3>5, OnFrameIs
      <4>2. QED
        BY <1>1, <4>1, LogKeeps
    <3>6. QED
      BY <1>3, <3>1, <3>2, <3>3, <3>4, <3>5
  <2>2. SameCell(x, OnFrame(x, f)) /\ RunFits(OnFrame(x, f))
    BY <2>1, FitsCarried DEF ButLog, SameCell
  <2>3. ~WillAsk(f) /\ ~Tells(f) /\ f.kind # "finished" /\ f.kind # "progress"
    BY <1>3 DEF WillAsk, Tells
  <2>4. QED
    BY <2>1, <2>2, <2>3 DEF ButLog, Lands
<1>4. CASE f.kind \in {"input", "connected"}
  <2> DEFINE y == [x EXCEPT !.live = Told(f)]
  <2>1. OnFrame(x, f) = y
    <3>1. CASE f.kind = "input"
      BY <3>1, OnFrameIs DEF NoteLive, Told
    <3>2. CASE f.kind = "connected"
      <4>1. OnFrame(x, f) = [x EXCEPT !.live = f.row]
        BY <3>2, OnFrameIs DEF AdoptLive
      <4>2. QED
        BY <3>2, <4>1 DEF Told
    <3>3. QED
      BY <1>4, <3>1, <3>2
  <2>2. /\ RunFits(y) /\ SameCell(x, y) /\ y.ctl = x.ctl /\ y.gaps = x.gaps
        /\ y.list = x.list /\ y.raced = x.raced /\ y.rowBlind = x.rowBlind /\ y.live = Told(f)
    BY <1>2
  <2> HIDE DEF y
  <2>3. ~WillAsk(f) /\ Tells(f) /\ f.kind # "finished" /\ f.kind # "progress"
    BY <1>4 DEF WillAsk, Tells
  <2>4. QED
    BY <2>1, <2>2, <2>3 DEF Lands
<1>5. CASE f.kind \in {"progress", "paused"}
  <2> DEFINE z == [x EXCEPT !.live = Told(f)]
             y == ApplyProgress(z, f)
  <2>1. OnFrame(x, f) = y
    <3>1. CASE f.kind = "progress"
      BY <3>1, OnFrameIs DEF NoteLive, Told
    <3>2. CASE f.kind = "paused"
      BY <3>2, OnFrameIs DEF NoteLive, Told
    <3>3. QED
      BY <1>5, <3>1, <3>2
  <2>2. /\ RunFits(z) /\ SameCell(x, z) /\ z.ctl = x.ctl /\ z.gaps = x.gaps
        /\ z.list = x.list /\ z.raced = x.raced /\ z.rowBlind = x.rowBlind /\ z.live = Told(f)
    BY <1>2
  <2> HIDE DEF z
  <2>3. /\ RunFits(y) /\ SameRow(z, y) /\ y.ctl = z.ctl /\ y.gaps = z.gaps
        /\ Asked(y) \/ (Patched(z, f, y) /\ z.cell # Nil)
    BY <2>2, ApplyProgressIs
  <2> HIDE DEF y
  <2>4. Asked(y) \/ (Patched(x, f, y) /\ x.cell # Nil)
    BY <2>2, <2>3 DEF Patched, SameCell
  <2>5. Tells(f) /\ f.kind # "finished"
    BY <1>5 DEF Tells
  <2>6. QED
    BY <2>1, <2>2, <2>3, <2>4, <2>5 DEF Lands, SameRow
<1>6. CASE f.kind \in {"started", "finished"}
  <2> DEFINE z == [x EXCEPT !.live = Told(f)]
             y == Invalidate(z, Uncaused)
  <2>1. OnFrame(x, f) = IF f.kind = "started" THEN y ELSE InvalidateControls(y)
    <3>1. CASE f.kind = "started"
      BY <3>1, OnFrameIs DEF NoteLive, Told
    <3>2. CASE f.kind = "finished"
      BY <3>2, OnFrameIs DEF NoteSettled, Told
    <3>3. QED
      BY <1>6, <3>1, <3>2
  <2>2. /\ RunFits(z) /\ SameCell(x, z) /\ z.ctl = x.ctl /\ z.gaps = x.gaps
        /\ z.list = x.list /\ z.raced = x.raced /\ z.rowBlind = x.rowBlind /\ z.live = Told(f)
    BY <1>2
  <2> HIDE DEF z
  <2>3. RunFits(y) /\ Rest(z, y) /\ Asked(y)
    BY <1>1, <2>2, InvalidateIs
  <2> HIDE DEF y
  <2>4. Tells(f)
    BY <1>6 DEF Tells
  <2>5. CASE f.kind = "started"
    BY <2>1, <2>2, <2>3, <2>4, <2>5 DEF Lands, Rest, SameRow
  <2>6. CASE f.kind = "finished"
    <3> DEFINE w == InvalidateControls(y)
    <3>1. Has(y, RnFields) /\ VerbsFit(y.ctl)
      BY <2>2, <2>3 DEF RunFits, Rest
    <3>2. /\ Has(w, RnFields) /\ SameCell(y, w) /\ SameRow(y, w) /\ w.gaps = y.gaps /\ VerbsFit(w.ctl)
          /\ w.ctl.read # Nil /\ (w.ctl.stale \/ Len(w.ctl.read) = 1)
      BY <3>1, InvalidateControlsIs
    <3> HIDE DEF w
    <3>3. RunFits(w) /\ Asked(w)
      BY <2>3, <3>2, FitsCarried DEF SameRow, SameCell, Asked
    <3>4. OnFrame(x, f) = w
      BY <2>1, <2>6 DEF w
    <3>5. QED
      BY <2>2, <2>3, <2>4, <2>6, <3>2, <3>3, <3>4 DEF Lands, Rest, SameRow
  <2>7. QED
    BY <1>6, <2>5, <2>6
<1>7. QED
  BY <1>1, <1>3, <1>4, <1>5, <1>6 DEF FrameKinds

\* What holds of the cached state, once the first frame has landed.
LEMMA CellTaken ==
  ASSUME NEW net \in Seq(RunFrames), net # <<>>, NEW s \in RunServer, NodesTold(net, s), NEW x,
         CellHolds(x, net, s), NEW y, Lands(x, Head(net), y)
  PROVE  CellHolds(y, Tail(net), s)
<1> DEFINE h == Head(net)
<1>1. h = net[1] /\ 1 \in 1 .. Len(net)
  BY StreamShorter
<1>2. h.node # "none" => h.kind = "progress"
  BY <1>1 DEF NodesTold
<1>3. CASE Asked(y)
  BY <1>3, AskedHolds
<1>4. CASE ~WillAsk(h) /\ h.kind # "progress" /\ SameCell(x, y)
  <2>1. h.node = "none"
    BY <1>2, <1>4
  <2>2. \A c : Current(c, net, s) => Current(c, Tail(net), s)
    <3>1. SUFFICES ASSUME NEW c, Current(c, net, s) PROVE Current(c, Tail(net), s)
      OBVIOUS
    <3>2. Has(c, StateFields)
      BY <3>1 DEF Current
    <3>3. QED
      BY <2>1, <3>1, <3>2, CurrentTaken
  <2>3. Asking(net) => Asking(Tail(net))
    BY <1>4, AskingTaken
  <2>4. CellHolds(x, Tail(net), s)
    BY <2>2, <2>3 DEF CellHolds
  <2>5. QED
    BY <1>4, <2>4, CellCarried
<1>5. CASE Patched(x, h, y) /\ x.cell # Nil
  <2>1. h.kind = "progress" /\ h.node # "none" /\ ~WillAsk(h)
    BY <1>2, <1>5 DEF Patched, WillAsk
  <2>2. Asking(net) => Asking(Tail(net))
    BY <2>1, AskingTaken
  <2>3. Current(x.cell, net, s) => Current(y.cell, Tail(net), s)
    <3>1. SUFFICES ASSUME Current(x.cell, net, s) PROVE Current(y.cell, Tail(net), s)
      OBVIOUS
    <3> DEFINE nodes == [x.cell.nodes EXCEPT ![h.node] = h.stage]
               c == x.cell
    <3>2. y.cell = [c EXCEPT !.nodes = nodes]
      BY <1>5, Zenon DEF Patched
    <3>3. Has(c, StateFields)
      BY <3>1 DEF Current
    <3> HIDE DEF c
    <3>4. Has(y.cell, StateFields) /\ y.cell.shape = c.shape /\ y.cell.status = c.status
          /\ y.cell.nodes = nodes
      <4> HIDE DEF nodes
      <4>1. QED
        BY <3>2, <3>3 DEF Has, StateFields
    <3>5. y.cell.nodes = [c.nodes EXCEPT ![h.node] = h.stage]
      BY <3>4 DEF c
    <3> HIDE DEF nodes, h
    <3>6. QED
      BY <3>1, <3>4, <3>5, CurrentTaken DEF c, h
  <2>4. y.read # Nil => y.overtaken
    BY <1>5 DEF Patched
  <2>5. Owed(x) => Owed(y)
    BY <1>5 DEF Patched, Owed
  <2>6. Len(y.read) = 2 => y.read # Nil
    <3>1. Len(Nil) = 0
      BY DEF Nil
    <3>2. QED
      BY <3>1
  <2>7. QED
    BY <1>5, <2>2, <2>3, <2>4, <2>5, <2>6 DEF CellHolds, Patched
<1>6. QED
  BY <1>3, <1>4, <1>5 DEF Lands

\* What holds of the verbs, once the first frame has landed.
LEMMA VerbsTaken ==
  ASSUME NEW net \in Seq(RunFrames), net # <<>>, NEW s, NEW x, VerbsHold(x, net, s),
         NEW y, Lands(x, Head(net), y)
  PROVE  VerbsHold(y, Tail(net), s)
<1> DEFINE h == Head(net)
           g == Tail(net)
<1>1. /\ h = net[1] /\ Len(net) \in Nat \ {0} /\ Len(g) = Len(net) - 1
      /\ \A i \in 1 .. Len(net) - 1 : g[i] = net[i + 1]
  BY StreamShorter
<1> HIDE DEF h, g
<1>2. CASE h.kind = "finished"
  BY <1>2 DEF Lands, VerbsHold, h, g
<1>3. CASE h.kind # "finished"
  <2>1. y.ctl = x.ctl /\ y.gaps = x.gaps
    BY <1>3 DEF Lands, h
  <2>2. ASSUME NEW i \in 1 .. Len(net), net[i].kind = "finished"
        PROVE  i - 1 \in 1 .. Len(g) /\ g[i - 1].kind = "finished"
    BY <1>1, <1>3, <2>2
  <2>3. (\E i \in 1 .. Len(net) : net[i].kind = "finished") => \E k \in 1 .. Len(g) : g[k].kind = "finished"
    BY <2>2
  <2>4. QED
    BY <2>1, <2>3 DEF VerbsHold, g
<1>4. QED
  BY <1>2, <1>3

\* The first frame of the stream lands.
LEMMA FrameLandsKeeps ==
  ASSUME RunsInv, FrameLands
  PROVE  RunsInv'
<1> DEFINE h == Head(rnnet)
           y == OnFrame(rn, h)
           raced == y.raced \/ (rn.list # Nil /\ h.kind # "connected")
           z == [y EXCEPT !.raced = raced]
<1>1. rnnet # <<>> /\ rnnet' = Tail(rnnet) /\ rnsrv' = rnsrv /\ rn' = z
  BY Zenon DEF FrameLands
<1>2. rnnet \in Seq(RunFrames) /\ RunFits(rn) /\ VerbsFit(rn.ctl) /\ rnsrv \in RunServer
  BY DEF RunsInv
<1>3. h \in RunFrames /\ Tail(rnnet) \in Seq(RunFrames)
  BY <1>1, <1>2, StreamShorter
<1>4. Lands(rn, h, y)
  BY <1>2, <1>3, FrameDoes
<1> HIDE DEF y
<1>5. Has(y, RnFields)
  BY <1>4 DEF Lands, RunFits
<1> HIDE DEF raced
<1>6. /\ Has(z, RnFields) /\ SameCell(y, z) /\ z.list = y.list /\ z.gaps = y.gaps /\ z.ctl = y.ctl
      /\ z.live = y.live /\ z.rowBlind = y.rowBlind /\ z.raced = raced
  BY <1>5 DEF Has, RnFields, SameCell
<1> HIDE DEF z
<1>7. RunFits(z) /\ VerbsFit(z.ctl)
  BY <1>4, <1>6, FitsCarried DEF Lands
<1>8. ASSUME rnsrv.stream
      PROVE  Holds(z, Tail(rnnet), rnsrv)
  <2>1. Holds(rn, rnnet, rnsrv)
    BY <1>8 DEF RunsInv
  <2>2. NodesTold(Tail(rnnet), rnsrv)
    BY <1>1, <1>2, <2>1, NodesTaken DEF Holds
  <2>3. CellHolds(y, Tail(rnnet), rnsrv)
    BY <1>1, <1>2, <1>4, <2>1, CellTaken DEF Holds
  <2>4. CellHolds(z, Tail(rnnet), rnsrv)
    BY <1>6, <2>3, CellCarried
  <2>5. VerbsHold(y, Tail(rnnet), rnsrv)
    BY <1>1, <1>2, <1>4, <2>1, VerbsTaken DEF Holds
  <2>6. VerbsHold(z, Tail(rnnet), rnsrv)
    BY <1>6, <2>5, VerbsCarried
  <2>7. /\ z.rowBlind = rn.rowBlind /\ z.list = rn.list
        /\ z.live = (IF Tells(Head(rnnet)) THEN Told(Head(rnnet)) ELSE rn.live)
        /\ z.raced = (rn.raced \/ (rn.list # Nil /\ Head(rnnet).kind # "connected"))
    <3>1. y.raced = rn.raced /\ y.rowBlind = rn.rowBlind /\ y.list = rn.list
          /\ y.live = (IF Tells(h) THEN Told(h) ELSE rn.live)
      BY <1>4 DEF Lands
    <3>2. raced = (rn.raced \/ (rn.list # Nil /\ h.kind # "connected"))
      BY <3>1, Zenon DEF raced
    <3>3. QED
      BY <1>6, <3>1, <3>2
  <2>8. RowTold(Tail(rnnet), rnsrv) /\ RowHeld(z, Tail(rnnet), rnsrv)
    BY <1>1, <1>2, <2>1, <2>7, RowTaken DEF Holds
  <2>9. QED
    BY <2>2, <2>4, <2>6, <2>8 DEF Holds
<1>9. QED
  BY <1>1, <1>2, <1>3, <1>7, <1>8 DEF RunsInv

----------------------------------------------------------------------------
(* The client's own steps.                                                 *)

\* A step of the client alone, that keeps what holds of it.
LEMMA ClientSteps ==
  ASSUME RunsInv, UNCHANGED <<rnsrv, rnnet>>, RunFits(rn'), VerbsFit(rn'.ctl),
         rnsrv.stream => Holds(rn', rnnet, rnsrv)
  PROVE  RunsInv'
BY DEF RunsInv

\* One that leaves all as it is but the log of the step's turn, and what is shown.
LEMMA LogSteps ==
  ASSUME RunsInv, UNCHANGED <<rnsrv, rnnet>>, Has(rn', RnFields), SameCell(rn, rn'), SameRow(rn, rn'),
         rn'.ctl = rn.ctl, rn'.gaps = rn.gaps
  PROVE  RunsInv'
<1>1. RunFits(rn') /\ VerbsFit(rn'.ctl)
  BY FitsCarried DEF RunsInv, SameRow
<1>2. rnsrv.stream => Holds(rn', rnnet, rnsrv)
  BY CellCarried, RowCarried, VerbsCarried DEF RunsInv, Holds
<1>3. QED
  BY <1>1, <1>2, ClientSteps

\* A range of the step's turn is answered, and lands;
LEMMA RangeServedKeeps ==
  ASSUME RunsInv, RangeServed
  PROVE  RunsInv'
<1>1. PICK range : rn' = [rn EXCEPT !.range = range]
  BY DEF RangeServed
<1>2. Has(rn, RnFields) /\ UNCHANGED <<rnsrv, rnnet>>
  BY DEF RunsInv, RunFits, RangeServed
<1>3. QED
  BY <1>1, <1>2, LogSteps DEF Has, RnFields, SameCell, SameRow

\* it touches the log alone.
LEMMA RangeLandsKeeps ==
  ASSUME RunsInv, RangeLands
  PROVE  RunsInv'
<1> DEFINE x == [rn EXCEPT !.range = Nil]
<1>1. rn' = AdoptRange(x, rn.range[1], rn.range[2]) /\ UNCHANGED <<rnsrv, rnnet>>
  BY DEF RangeLands
<1>2. Has(rn, RnFields)
  BY DEF RunsInv, RunFits
<1>3. ButLog(rn, x) /\ Has(x, RnFields)
  BY <1>2 DEF ButLog, Has, RnFields
<1> HIDE DEF x
<1>4. ButLog(rn, rn')
  BY <1>1, <1>3, LogKeeps, ButLogSteps
<1>5. QED
  BY <1>1, <1>4, LogSteps DEF ButLog, SameCell, SameRow

\* A step is shown, its transcript read, and the answer lands;
LEMMA StepShownKeeps ==
  ASSUME RunsInv, StepShown
  PROVE  RunsInv'
<1>1. PICK step : rn' = [rn EXCEPT !.step = step]
  BY DEF StepShown
<1>2. Has(rn, RnFields) /\ UNCHANGED <<rnsrv, rnnet>>
  BY DEF RunsInv, RunFits, StepShown
<1>3. QED
  BY <1>1, <1>2, LogSteps DEF Has, RnFields, SameCell, SameRow

\* the state of that read is the step's own,
LEMMA StepServedKeeps ==
  ASSUME RunsInv, StepServed
  PROVE  RunsInv'
<1>1. PICK step : rn' = [rn EXCEPT !.step = step]
  <2>1. CASE rn' = [rn EXCEPT !.step.read = <<"ok", LogNow>>]
    BY <2>1, Zenon
  <2>2. CASE rn' = [rn EXCEPT !.step.read = <<"failed", LogNow>>]
    BY <2>2, Zenon
  <2>3. QED
    BY <2>1, <2>2 DEF StepServed
<1>2. Has(rn, RnFields) /\ UNCHANGED <<rnsrv, rnnet>>
  BY DEF RunsInv, RunFits, StepServed
<1>3. QED
  BY <1>1, <1>2, LogSteps DEF Has, RnFields, SameCell, SameRow

\* and its answer touches the log alone.
LEMMA StepLandsKeeps ==
  ASSUME RunsInv, StepLands
  PROVE  RunsInv'
<1>1. PICK step :
        \/ rn' = AdoptStep([rn EXCEPT !.step = step], rn.step.read[2])
        \/ rn' = [rn EXCEPT !.step = step]
  BY Zenon DEF StepLands
<1> DEFINE x == [rn EXCEPT !.step = step]
<1>2. Has(rn, RnFields) /\ UNCHANGED <<rnsrv, rnnet>>
  BY DEF RunsInv, RunFits, StepLands
<1>3. ButLog(rn, x) /\ Has(x, RnFields)
  BY <1>2 DEF ButLog, Has, RnFields
<1>4. rn' = AdoptStep(x, rn.step.read[2]) \/ rn' = x
  BY <1>1
<1> HIDE DEF x
<1>5. ButLog(rn, rn')
  BY <1>3, <1>4, LogKeeps, ButLogSteps
<1>6. QED
  BY <1>2, <1>5, LogSteps DEF ButLog, SameCell, SameRow

\* The run's tab closes.
LEMMA HideRunKeeps ==
  ASSUME RunsInv, HideRun
  PROVE  RunsInv'
<1>1. PICK step : rn' = [rn EXCEPT !.shown = FALSE, !.step = step]
  BY DEF HideRun
<1>2. Has(rn, RnFields) /\ UNCHANGED <<rnsrv, rnnet>>
  BY DEF RunsInv, RunFits, HideRun
<1>3. Has(rn', RnFields) /\ SameCell(rn, rn') /\ SameRow(rn, rn') /\ rn'.ctl = rn.ctl
      /\ rn'.gaps = rn.gaps
  BY <1>1, <1>2 DEF Has, RnFields, SameCell, SameRow
<1>4. QED
  BY <1>2, <1>3, LogSteps

\* A read of the run that is out, and one that is answered.
LEMMA Reads ==
  ASSUME NEW r, NEW n, ReadOf(r, n)
  PROVE  /\ Len(r) = 1 => \E c \in 0 .. n : r = <<c>>
         /\ Len(r) = 2 => \E c \in 0 .. n : \E ans : r = <<c, ans>> /\ ans.kind \in {"state", "gone", "failed"}
<1>1. Len(Nil) = 0
  BY DEF Nil
<1>2. CASE r = Nil
  BY <1>1, <1>2
<1>3. ASSUME NEW c \in 0 .. n, r = <<c>>
      PROVE  Len(r) = 1
  BY <1>3
<1>4. ASSUME NEW c \in 0 .. n, NEW ans, r = <<c, ans>>
      PROVE  Len(r) = 2
  BY <1>4
<1>5. CASE \E c \in 0 .. n : r = <<c>>
  BY <1>3, <1>5
<1>6. CASE \E c \in 0 .. n : \E ans : r = <<c, ans>> /\ ans.kind \in {"state", "gone", "failed"}
  BY <1>4, <1>6
<1>7. QED
  BY <1>2, <1>5, <1>6 DEF ReadOf, Cause

\* An answer is the run as it is when it is served.
LEMMA ReadServedKeeps ==
  ASSUME RunsInv, ReadServed
  PROVE  RunsInv'
<1>1. RunFits(rn) /\ VerbsFit(rn.ctl) /\ Len(rn.read) = 1 /\ UNCHANGED <<rnsrv, rnnet>>
      /\ rnsrv \in RunServer
  BY DEF RunsInv, ReadServed
<1>2. PICK c \in 0 .. rn.gaps : rn.read = <<c>>
  BY <1>1, Reads DEF RunFits
<1>3. PICK ans :
        /\ rn' = [rn EXCEPT !.read = Append(@, ans)]
        /\ \/ ans = [kind |-> "state", state |-> StateOf(rnsrv)]
           \/ ans = [kind |-> "failed"]
           \/ ans = [kind |-> "gone"]
  BY DEF ReadServed
<1>4. ans.kind \in {"state", "gone", "failed"} /\ (ans.kind = "state" => ans.state = StateOf(rnsrv))
  BY <1>3
<1>5. rn' = [rn EXCEPT !.read = <<c, ans>>]
  BY <1>2, <1>3
<1>6. /\ Has(rn', RnFields) /\ rn'.read = <<c, ans>> /\ Rest(rn, rn') /\ rn'.stale = rn.stale
      /\ rn'.answered = rn.answered /\ rn'.overtaken = rn.overtaken
  BY <1>1, <1>5 DEF RunFits, Has, RnFields, Rest, SameRow
<1>7. rn'.read # Nil /\ rn'.read[2] = ans
  BY <1>6 DEF Nil
<1>8. RunFits(rn')
  BY <1>1, <1>4, <1>6, <1>7 DEF RunFits, Rest, SameRow, ReadOf
<1>9. ASSUME rnsrv.stream
      PROVE  Holds(rn', rnnet, rnsrv)
  <2>1. Holds(rn, rnnet, rnsrv)
    BY <1>9 DEF RunsInv
  <2>2. Current(StateOf(rnsrv), rnnet, rnsrv)
    BY <1>1 DEF RunServer, StateOf, Current, Has, StateFields
  <2>3. CellHolds(rn', rnnet, rnsrv)
    BY <1>4, <1>7, <2>2 DEF CellHolds, Owed
  <2>4. QED
    BY <1>6, <2>1, <2>3, RowCarried, VerbsCarried DEF Holds, Rest
<1>10. QED
  BY <1>1, <1>6, <1>8, <1>9, ClientSteps DEF Rest

\* A read that has settled, before what fell due meanwhile is asked for.
Settled(x, ans, y) ==
    /\ Has(y, RnFields) /\ y.read = Nil /\ y.stale = x.stale /\ y.gaps = x.gaps /\ y.ctl = x.ctl
    /\ SameRow(x, y) /\ y.answered \in 0 .. x.gaps
    /\ Has(y.retry, {"due", "attempts"}) /\ Cause(y.retry.due, x.gaps)
    /\ y.retry.due # Nil => y.retry.due[1] = Uncaused \/ y.answered = Uncaused
    /\ \/ ans.kind = "state" /\ y.cell = ans.state /\ y.blind = x.overtaken
       \/ y.retry.due # Nil
       \/ y.gaveUp

\* No retry is due.
LEMMA NoRetryIs == Has(NoRetry, {"due", "attempts"}) /\ NoRetry.due = Nil
BY DEF NoRetry, Has, Nil

\* A read that failed is asked again, or was asked for the last time.
LEMMA RetryScheduled ==
  ASSUME NEW x, RunFits(x), NEW c \in 0 .. x.gaps, NEW ans, NEW z, Has(z, RnFields), z.read = Nil,
         z.stale = x.stale, z.gaps = x.gaps, z.ctl = x.ctl, SameRow(x, z), z.retry = x.retry,
         z.answered = IF c = Uncaused THEN x.answered ELSE Uncaused
  PROVE  Settled(x, ans, ScheduleRetry(z, c))
<1> DEFINE retry == [due |-> <<c>>, attempts |-> z.retry.attempts + 1]
           y == ScheduleRetry(z, c)
<1>1. y = [z EXCEPT !.retry = NoRetry, !.gaveUp = TRUE] \/ y = [z EXCEPT !.retry = retry]
  BY Zenon DEF ScheduleRetry
<1>2. Has(retry, {"due", "attempts"}) /\ retry.due = <<c>>
  BY DEF Has
<1> HIDE DEF retry
<1>3. z.answered \in 0 .. x.gaps /\ (c = Uncaused \/ z.answered = Uncaused)
  BY DEF RunFits, Uncaused
<1>4. CASE y = [z EXCEPT !.retry = NoRetry, !.gaveUp = TRUE]
  <2> HIDE DEF y
  <2>1. /\ Has(y, RnFields) /\ y.read = Nil /\ y.stale = x.stale /\ y.gaps = x.gaps /\ y.ctl = x.ctl
        /\ SameRow(x, y) /\ y.answered = z.answered /\ y.retry = NoRetry /\ y.gaveUp
    BY <1>4 DEF Has, RnFields, SameRow
  <2>2. Settled(x, ans, y)
    BY <1>3, <2>1, NoRetryIs DEF Settled, Cause
  <2>3. QED
    BY <2>2 DEF y
<1>5. CASE y = [z EXCEPT !.retry = retry]
  <2> HIDE DEF y
  <2>1. /\ Has(y, RnFields) /\ y.read = Nil /\ y.stale = x.stale /\ y.gaps = x.gaps /\ y.ctl = x.ctl
        /\ SameRow(x, y) /\ y.answered = z.answered /\ y.retry = retry
    BY <1>5 DEF Has, RnFields, SameRow
  <2>2. <<c>> # Nil /\ <<c>>[1] = c
    BY DEF Nil
  <2>3. Settled(x, ans, y)
    BY <1>2, <1>3, <2>1, <2>2 DEF Settled, Cause
  <2>4. QED
    BY <2>3 DEF y
<1>6. QED
  BY <1>1, <1>4, <1>5

\* What a read leaves, by its answer, and the read that fell due meanwhile.
LEMMA ReadSettlesIs ==
  ASSUME NEW x, RunFits(x), NEW c \in 0 .. x.gaps, NEW ans, ans.kind \in {"state", "gone", "failed"}
  PROVE  \E y : /\ Settled(x, ans, y)
                /\ ReadSettles(x, c, ans) =
                     IF y.stale = Nil THEN y ELSE StartRead([y EXCEPT !.stale = Nil], y.stale[1])
<1> DEFINE done == [x EXCEPT !.read = Nil]
           answered == IF c = Uncaused THEN done.answered ELSE Uncaused
           state == [done EXCEPT !.cell = ans.state, !.retry = NoRetry, !.gaveUp = FALSE,
                                 !.blind = x.overtaken]
           gone == [done EXCEPT !.retry = NoRetry, !.gaveUp = TRUE, !.answered = answered]
           failed == [done EXCEPT !.answered = answered]
           y == CASE ans.kind = "state" -> state
                  [] ans.kind = "gone" -> gone
                  [] ans.kind = "failed" -> ScheduleRetry(failed, c)
<1>1. ReadSettles(x, c, ans) = IF y.stale = Nil THEN y ELSE StartRead([y EXCEPT !.stale = Nil], y.stale[1])
  BY ZenonT(60) DEF ReadSettles
<1>2. /\ ans.kind = "state" => y = state
      /\ ans.kind = "gone" => y = gone
      /\ ans.kind = "failed" => y = ScheduleRetry(failed, c)
  BY Zenon
<1>3. Has(x, RnFields)
  BY DEF RunFits
<1>4. /\ Has(done, RnFields) /\ done.read = Nil /\ done.stale = x.stale /\ done.gaps = x.gaps
      /\ done.ctl = x.ctl /\ SameRow(x, done) /\ done.retry = x.retry /\ done.answered = x.answered
  BY <1>3 DEF Has, RnFields, SameRow
<1> HIDE DEF done
<1>5. answered \in 0 .. x.gaps /\ answered = IF c = Uncaused THEN x.answered ELSE Uncaused
  BY <1>4 DEF RunFits, Uncaused
<1>6. Settled(x, ans, y)
  <2>1. CASE ans.kind = "state"
    <3> HIDE DEF y
    <3>1. /\ Has(state, RnFields) /\ state.read = Nil /\ state.stale = x.stale /\ state.gaps = x.gaps
          /\ state.ctl = x.ctl /\ SameRow(x, state) /\ state.retry = NoRetry
          /\ state.answered = x.answered /\ state.cell = ans.state /\ state.blind = x.overtaken
      BY <1>4 DEF Has, RnFields, SameRow
    <3> HIDE DEF state
    <3>2. QED
      BY <1>2, <2>1, <3>1, NoRetryIs DEF Settled, Cause, RunFits
  <2>2. CASE ans.kind = "gone"
    <3> HIDE DEF y, answered
    <3>1. /\ Has(gone, RnFields) /\ gone.read = Nil /\ gone.stale = x.stale /\ gone.gaps = x.gaps
          /\ gone.ctl = x.ctl /\ SameRow(x, gone) /\ gone.retry = NoRetry
          /\ gone.answered = answered /\ gone.gaveUp
      BY <1>4 DEF Has, RnFields, SameRow
    <3> HIDE DEF gone
    <3>2. QED
      BY <1>2, <1>5, <2>2, <3>1, NoRetryIs DEF Settled, Cause
  <2>3. CASE ans.kind = "failed"
    <3> HIDE DEF y, answered
    <3>1. /\ Has(failed, RnFields) /\ failed.read = Nil /\ failed.stale = x.stale /\ failed.gaps = x.gaps
          /\ failed.ctl = x.ctl /\ SameRow(x, failed) /\ failed.retry = x.retry
          /\ failed.answered = answered
      BY <1>4 DEF Has, RnFields, SameRow
    <3> HIDE DEF failed
    <3>2. failed.answered = IF c = Uncaused THEN x.answered ELSE Uncaused
      BY <1>5, <3>1
    <3>3. QED
      BY <1>2, <2>3, <3>1, <3>2, RetryScheduled
  <2>4. QED
    BY <2>1, <2>2, <2>3
<1> HIDE DEF y
<1>7. QED
  BY <1>1, <1>6

\* An answer lands, and is taken at its word only if nothing overtook it.
LEMMA ReadLandsKeeps ==
  ASSUME RunsInv, ReadLands
  PROVE  RunsInv'
<1>1. /\ RunFits(rn) /\ VerbsFit(rn.ctl) /\ Len(rn.read) = 2 /\ UNCHANGED <<rnsrv, rnnet>>
      /\ rn' = ReadSettles(rn, rn.read[1], rn.read[2])
  BY DEF RunsInv, ReadLands
<1>2. PICK c \in 0 .. rn.gaps : \E a : rn.read = <<c, a>> /\ a.kind \in {"state", "gone", "failed"}
  BY <1>1, Reads DEF RunFits
<1>3. PICK ans : rn.read = <<c, ans>> /\ ans.kind \in {"state", "gone", "failed"}
  BY <1>2
<1>4. rn.read[1] = c /\ rn.read[2] = ans
  BY <1>3
<1>5. PICK y : /\ Settled(rn, ans, y)
               /\ rn' = IF y.stale = Nil THEN y ELSE StartRead([y EXCEPT !.stale = Nil], y.stale[1])
  BY <1>1, <1>3, <1>4, ReadSettlesIs
<1>6. CASE y.stale = Nil
  <2>1. rn' = y
    BY <1>5, <1>6
  <2>2. RunFits(y) /\ VerbsFit(y.ctl)
    BY <1>1, <1>5, <1>6 DEF RunFits, Settled, SameRow, ReadOf, Cause
  <2>3. ASSUME rnsrv.stream
        PROVE  Holds(y, rnnet, rnsrv)
    <3>1. Holds(rn, rnnet, rnsrv)
      BY <2>3 DEF RunsInv
    <3>2. Len(y.read) # 2
      <4>1. Len(Nil) = 0
        BY DEF Nil
      <4>2. QED
        BY <1>5, <4>1 DEF Settled
    <3>3. ~y.blind => Current(y.cell, rnnet, rnsrv) \/ Asking(rnnet) \/ Owed(y)
      <4>1. CASE ans.kind = "state" /\ y.cell = ans.state /\ y.blind = rn.overtaken
        <5>1. rn.stale = Nil
          BY <1>5, <1>6 DEF Settled
        <5>2. ~rn.overtaken => Current(ans.state, rnnet, rnsrv) \/ Asking(rnnet)
          BY <1>1, <1>4, <3>1, <4>1, <5>1 DEF Holds, CellHolds
        <5>3. QED
          BY <4>1, <5>2
      <4>2. CASE y.retry.due # Nil \/ y.gaveUp
        BY <4>2 DEF Owed
      <4>3. QED
        BY <1>5, <4>1, <4>2 DEF Settled
    <3>4. CellHolds(y, rnnet, rnsrv)
      BY <3>2, <3>3 DEF CellHolds
    <3>5. QED
      BY <1>5, <3>1, <3>4, RowCarried, VerbsCarried DEF Holds, Settled
  <2>4. QED
    BY <1>1, <2>1, <2>2, <2>3, ClientSteps
<1>7. CASE y.stale # Nil
  <2> DEFINE z == [y EXCEPT !.stale = Nil]
             w == StartRead(z, y.stale[1])
  <2>1. rn' = w
    BY <1>5, <1>7
  <2>2. /\ Has(z, RnFields) /\ z.stale = Nil /\ z.gaps = y.gaps /\ z.ctl = y.ctl /\ SameRow(y, z)
        /\ z.answered = y.answered /\ z.retry = y.retry
    BY <1>5 DEF Settled, Has, RnFields, SameRow
  <2> HIDE DEF z
  <2>3. y.stale[1] \in 0 .. rn.gaps
    <3>1. Cause(y.stale, rn.gaps)
      BY <1>1, <1>5 DEF RunFits, Settled
    <3>2. QED
      BY <1>7, <3>1 DEF Cause
  <2>4. /\ Has(w, RnFields) /\ w.read = <<y.stale[1]>> /\ Rest(z, w) /\ w.stale = Nil
        /\ w.answered = IF y.stale[1] = Uncaused THEN z.answered ELSE y.stale[1]
    BY <2>2, StartReadIs
  <2> HIDE DEF w
  <2>5. w.read # Nil /\ Asked(w)
    <3>1. \A c0 : <<c0>> # Nil /\ Len(<<c0>>) # 2
      BY DEF Nil
    <3>2. QED
      BY <2>4, <3>1 DEF Asked
  <2>6. /\ Has(w, RnFields) /\ w.gaps = rn.gaps /\ w.answered \in 0 .. rn.gaps
        /\ w.retry = y.retry /\ w.list = rn.list /\ w.ctl = rn.ctl /\ SameRow(rn, w)
    <3>1. w.answered \in 0 .. rn.gaps
      BY <1>5, <2>2, <2>3, <2>4 DEF Settled
    <3>2. QED
      BY <1>5, <2>2, <2>4, <3>1 DEF Rest, Settled, SameRow
  <2>7. ReadOf(w.read, rn.gaps) /\ Cause(w.stale, rn.gaps)
    BY <2>3, <2>4 DEF ReadOf, Cause
  <2>8. RunFits(w) /\ VerbsFit(w.ctl)
    BY <1>1, <1>5, <2>5, <2>6, <2>7 DEF RunFits, Settled
  <2>9. ASSUME rnsrv.stream
        PROVE  Holds(w, rnnet, rnsrv)
    BY <2>5, <2>6, <2>9, AskedHolds, RowCarried, VerbsCarried DEF Holds, RunsInv
  <2>10. QED
    BY <1>1, <2>1, <2>8, <2>9, ClientSteps
<1>8. QED
  BY <1>6, <1>7

\* A retry is asked for under its cause, which nothing has answered.
LEMMA RetryFiresKeeps ==
  ASSUME RunsInv, RetryFires
  PROVE  RunsInv'
<1> DEFINE retry == [rn.retry EXCEPT !.due = Nil]
           x == [rn EXCEPT !.retry = retry]
           c == rn.retry.due[1]
<1>1. /\ RunFits(rn) /\ VerbsFit(rn.ctl) /\ rn.retry.due # Nil /\ UNCHANGED <<rnsrv, rnnet>>
  BY DEF RunsInv, RetryFires
<1>2. rn' = Invalidate(x, c)
  BY Zenon DEF RetryFires
<1>3. c \in 0 .. rn.gaps
  BY <1>1 DEF RunFits, Cause
<1>4. Has(retry, {"due", "attempts"}) /\ retry.due = Nil
  BY <1>1 DEF RunFits, Has
<1> HIDE DEF retry
<1>5. /\ Has(x, RnFields) /\ x.retry = retry /\ x.cell = rn.cell /\ x.read = rn.read
      /\ x.stale = rn.stale /\ x.answered = rn.answered /\ x.overtaken = rn.overtaken
      /\ x.blind = rn.blind /\ x.gaveUp = rn.gaveUp /\ x.ctl = rn.ctl /\ x.gaps = rn.gaps
      /\ SameRow(rn, x)
  BY <1>1 DEF RunFits, Has, RnFields, SameRow
<1> HIDE DEF x
<1>6. RunFits(x)
  BY <1>1, <1>4, <1>5 DEF RunFits, SameRow, Cause
<1>7. RunFits(rn') /\ Rest(x, rn') /\ (Asked(rn') \/ (rn' = x /\ c # Uncaused /\ x.answered = c))
  BY <1>2, <1>3, <1>5, <1>6, InvalidateIs
<1>8. ASSUME rnsrv.stream
      PROVE  Holds(rn', rnnet, rnsrv)
  <2>1. Holds(rn, rnnet, rnsrv)
    BY <1>8 DEF RunsInv
  <2>2. CASE Asked(rn')
    <3>1. rn'.ctl = rn.ctl /\ rn'.gaps = rn.gaps /\ SameRow(rn, rn')
      BY <1>5, <1>7 DEF Rest, SameRow
    <3>2. QED
      BY <2>1, <2>2, <3>1, AskedHolds, RowCarried, VerbsCarried DEF Holds
  <2>3. CASE rn' = x /\ c # Uncaused /\ x.answered = c
    <3>1. rn.read # Nil
      BY <1>1, <1>5, <2>3 DEF RunFits
    <3>2. CellHolds(x, rnnet, rnsrv)
      BY <1>5, <2>1, <3>1 DEF Holds, CellHolds, Owed
    <3>3. QED
      BY <1>5, <2>1, <2>3, <3>2, RowCarried, VerbsCarried DEF Holds
  <2>4. QED
    BY <1>7, <2>2, <2>3
<1>9. QED
  BY <1>1, <1>5, <1>7, <1>8, ClientSteps DEF Rest

\* A read of the live runs that is out, and one that is answered.
LEMMA Lists ==
  ASSUME NEW r, NEW n, ListOf(r, n)
  PROVE  /\ Len(r) = 1 => \E c \in 0 .. n : r = <<c>>
         /\ Len(r) = 2 => \E c \in 0 .. n : \E row \in RowSays : r = <<c, row>>
<1>1. Len(Nil) = 0
  BY DEF Nil
<1>2. CASE r = Nil
  BY <1>1, <1>2
<1>3. ASSUME NEW c \in 0 .. n, r = <<c>>
      PROVE  Len(r) = 1
  BY <1>3
<1>4. ASSUME NEW c \in 0 .. n, NEW row, r = <<c, row>>
      PROVE  Len(r) = 2
  BY <1>4
<1>5. CASE \E c \in 0 .. n : r = <<c>>
  BY <1>3, <1>5
<1>6. CASE \E c \in 0 .. n : \E row \in RowSays : r = <<c, row>>
  BY <1>4, <1>6
<1>7. QED
  BY <1>2, <1>5, <1>6 DEF ListOf, Cause

\* An answer is the row as it is when it is served.
LEMMA ListServedKeeps ==
  ASSUME RunsInv, ListServed
  PROVE  RunsInv'
<1>1. RunFits(rn) /\ VerbsFit(rn.ctl) /\ Len(rn.list) = 1 /\ UNCHANGED <<rnsrv, rnnet>>
      /\ rn' = [rn EXCEPT !.list = Append(@, Live(rnsrv)), !.stamp = rnsrv.leases]
  BY DEF RunsInv, ListServed
<1>2. PICK c \in 0 .. rn.gaps : rn.list = <<c>>
  BY <1>1, Lists DEF RunFits
<1>3. rn' = [rn EXCEPT !.list = <<c, Live(rnsrv)>>, !.stamp = rnsrv.leases]
  <2> DEFINE x == [rn EXCEPT !.stamp = rnsrv.leases]
  <2>1. x.list = rn.list /\ rn' = [x EXCEPT !.list = Append(@, Live(rnsrv))]
    BY <1>1 DEF RunFits, Has, RnFields
  <2> HIDE DEF x
  <2>2. rn' = [x EXCEPT !.list = <<c, Live(rnsrv)>>]
    BY <1>2, <2>1
  <2>3. QED
    BY <1>1, <2>2 DEF x, RunFits, Has, RnFields
<1>4. /\ Has(rn', RnFields) /\ SameCell(rn, rn') /\ rn'.list = <<c, Live(rnsrv)>> /\ rn'.live = rn.live
      /\ rn'.rowBlind = rn.rowBlind /\ rn'.ctl = rn.ctl /\ rn'.gaps = rn.gaps
  BY <1>1, <1>3 DEF RunFits, Has, RnFields, SameCell
<1>5. Live(rnsrv) \in RowSays
  BY DEF Live, RowSays
<1>6. RunFits(rn')
  BY <1>1, <1>4, <1>5 DEF RunFits, SameCell, ListOf
<1>7. ASSUME rnsrv.stream
      PROVE  Holds(rn', rnnet, rnsrv)
  <2>1. Holds(rn, rnnet, rnsrv)
    BY <1>7 DEF RunsInv
  <2>2. RowHeld(rn', rnnet, rnsrv)
    BY <1>4, <2>1 DEF Holds, RowHeld
  <2>3. QED
    BY <1>4, <2>1, <2>2, CellCarried, VerbsCarried DEF Holds
<1>8. QED
  BY <1>1, <1>4, <1>6, <1>7, ClientSteps

\* The row lands, and asks for the run it names.
LEMMA ListLandsKeeps ==
  ASSUME RunsInv, ListLands
  PROVE  RunsInv'
<1>1. /\ RunFits(rn) /\ VerbsFit(rn.ctl) /\ Len(rn.list) = 2 /\ UNCHANGED <<rnsrv, rnnet>>
      /\ rn' = [AdoptLive(rn, rn.list[2], <<rn.list[1]>>) EXCEPT !.list = Nil, !.rowBlind = rn.raced,
                                                              !.held = <<rn.stamp>>]
  BY DEF RunsInv, ListLands
<1>2. PICK c \in 0 .. rn.gaps : \E row \in RowSays : rn.list = <<c, row>>
  BY <1>1, Lists DEF RunFits
<1>3. PICK row \in RowSays : rn.list = <<c, row>>
  BY <1>2
<1> DEFINE x == [rn EXCEPT !.live = row]
           y == AdoptLive(rn, row, <<c>>)
<1>4. rn.list[2] = row /\ rn' = [y EXCEPT !.list = Nil, !.rowBlind = rn.raced, !.held = <<rn.stamp>>]
  <2>1. rn.list[1] = c /\ rn.list[2] = row
    BY <1>3
  <2>2. QED
    BY <1>1, <2>1
<1>5. y = x \/ y = Invalidate(x, c)
  <2>1. <<c>>[1] = c
    OBVIOUS
  <2>2. y = x \/ y = Invalidate(x, <<c>>[1])
    BY Zenon DEF AdoptLive
  <2>3. QED
    BY <2>1, <2>2
<1> HIDE DEF y
<1>6. /\ RunFits(x) /\ SameCell(rn, x) /\ x.ctl = rn.ctl /\ x.gaps = rn.gaps /\ x.live = row
  BY <1>1, NotedIs
<1> HIDE DEF x
<1>7. RunFits(Invalidate(x, c)) /\ Rest(x, Invalidate(x, c)) /\ (Asked(Invalidate(x, c)) \/ Invalidate(x, c) = x)
  BY <1>6, InvalidateIs
<1>8. /\ RunFits(y) /\ y.ctl = rn.ctl /\ y.gaps = rn.gaps /\ y.live = row
      /\ Asked(y) \/ SameCell(rn, y)
  BY <1>5, <1>6, <1>7 DEF Rest, SameRow
<1>9. /\ Has(rn', RnFields) /\ SameCell(y, rn') /\ rn'.list = Nil /\ rn'.live = row
      /\ rn'.rowBlind = rn.raced /\ rn'.ctl = rn.ctl /\ rn'.gaps = rn.gaps
  BY <1>4, <1>8 DEF RunFits, Has, RnFields, SameCell
<1>10. RunFits(rn') /\ VerbsFit(rn'.ctl)
  BY <1>1, <1>8, <1>9 DEF RunFits, SameCell, ListOf, Cause
<1>11. ASSUME rnsrv.stream
       PROVE  Holds(rn', rnnet, rnsrv)
  <2>1. Holds(rn, rnnet, rnsrv)
    BY <1>11 DEF RunsInv
  <2>2. Len(rn'.list) # 2
    <3>1. Len(Nil) = 0
      BY DEF Nil
    <3>2. QED
      BY <1>9, <3>1
  <2>3. RowHeld(rn', rnnet, rnsrv)
    BY <1>1, <1>4, <1>9, <2>1, <2>2 DEF Holds, RowHeld
  <2>4. CellHolds(y, rnnet, rnsrv)
    BY <1>8, <2>1, AskedHolds, CellCarried DEF Holds
  <2>5. CellHolds(rn', rnnet, rnsrv)
    BY <1>9, <2>4, CellCarried
  <2>6. QED
    BY <1>9, <2>1, <2>3, <2>5, VerbsCarried DEF Holds
<1>12. QED
  BY <1>1, <1>10, <1>11, ClientSteps

\* A step that is about the verbs alone.
LEMMA VerbsSteps ==
  ASSUME RunsInv, UNCHANGED <<rnsrv, rnnet>>, NEW ctl, rn' = [rn EXCEPT !.ctl = ctl], VerbsFit(ctl),
         rnsrv.stream => \/ rn.gaps # 0 \/ rnsrv.status # "done" \/ ctl.crossed
                         \/ \E i \in 1 .. Len(rnnet) : rnnet[i].kind = "finished"
                         \/ ctl.lost /\ ctl.read = Nil
                         \/ ctl.val \in {"", "done"} /\ ctl.read = Nil
                         \/ /\ ctl.read # Nil
                            /\ ctl.stale \/ Len(ctl.read) = 1 \/ ctl.read[1] = "failed" \/ ctl.read[2] = "done"
  PROVE  RunsInv'
<1>1. RunFits(rn)
  BY DEF RunsInv
<1>2. /\ Has(rn', RnFields) /\ SameCell(rn, rn') /\ SameRow(rn, rn') /\ rn'.ctl = ctl
      /\ rn'.gaps = rn.gaps
  BY <1>1 DEF RunFits, Has, RnFields, SameCell, SameRow
<1>3. RunFits(rn')
  BY <1>1, <1>2, FitsCarried DEF SameRow
<1>4. ASSUME rnsrv.stream
      PROVE  Holds(rn', rnnet, rnsrv)
  <2>1. Holds(rn, rnnet, rnsrv)
    BY <1>4 DEF RunsInv
  <2>2. VerbsHold(rn', rnnet, rnsrv)
    BY <1>2, <1>4 DEF VerbsHold
  <2>3. QED
    BY <1>2, <2>1, <2>2, CellCarried, RowCarried DEF Holds
<1>5. QED
  BY <1>2, <1>3, <1>4, ClientSteps

\* A read of the verbs is answered, whether or not it is counted as out.
LEMMA ControlsServedKeeps ==
  ASSUME RunsInv, ControlsServed
  PROVE  RunsInv'
<1>1. PICK ans \in {<<"ok", rnsrv.status>>, <<"failed", "">>} :
        \/ rn.ctl.read = <<"asked">> /\ rn' = [rn EXCEPT !.ctl.read = ans]
        \/ /\ <<"asked">> \in rn.ctl.late
           /\ rn' = [rn EXCEPT !.ctl.late = (@ \ {<<"asked">>}) \cup {ans}]
  BY DEF ControlsServed
<1>2. VerbsFit(rn.ctl) /\ UNCHANGED <<rnsrv, rnnet>>
  BY DEF RunsInv, ControlsServed
<1> DEFINE old == rn.ctl
<1>3. CASE rn.ctl.read = <<"asked">> /\ rn' = [rn EXCEPT !.ctl.read = ans]
  <2> DEFINE ctl == [old EXCEPT !.read = ans]
  <2>1. rn' = [rn EXCEPT !.ctl = ctl]
    BY <1>3, Zenon
  <2>2. /\ Has(ctl, CtlFields) /\ ctl.read = ans /\ ctl.stale = old.stale /\ ctl.late = old.late
        /\ ctl.crossed = old.crossed
    BY <1>2 DEF VerbsFit, Has, CtlFields
  <2> HIDE DEF ctl
  <2>3. /\ Len(ans) = 2 /\ ans # Nil
        /\ ans[1] = "failed" \/ ans[2] = rnsrv.status
    <3>1. CASE ans = <<"ok", rnsrv.status>>
      BY <3>1 DEF Nil
    <3>2. CASE ans = <<"failed", "">>
      BY <3>2 DEF Nil
    <3>3. QED
      BY <1>1, <3>1, <3>2
  <2>4. VerbsFit(ctl)
    BY <1>2, <2>2, <2>3 DEF VerbsFit
  <2>5. QED
    BY <1>2, <2>1, <2>2, <2>3, <2>4, VerbsSteps
<1>4. CASE <<"asked">> \in rn.ctl.late /\ rn' = [rn EXCEPT !.ctl.late = (@ \ {<<"asked">>}) \cup {ans}]
  <2> DEFINE late == (old.late \ {<<"asked">>}) \cup {ans}
             ctl == [old EXCEPT !.late = late]
  <2>1. rn' = [rn EXCEPT !.ctl = ctl]
    BY <1>4, Zenon
  <2> HIDE DEF late
  <2>2. /\ Has(ctl, CtlFields) /\ ctl.read = old.read /\ ctl.stale = old.stale /\ ctl.late = late
        /\ ctl.crossed = old.crossed
    BY <1>2 DEF VerbsFit, Has, CtlFields
  <2> HIDE DEF ctl
  <2>3. ctl.crossed
    BY <1>2, <1>4, <2>2 DEF VerbsFit
  <2>4. VerbsFit(ctl)
    BY <1>2, <2>2, <2>3 DEF VerbsFit
  <2>5. QED
    BY <1>2, <2>1, <2>3, <2>4, VerbsSteps
<1>5. QED
  BY <1>1, <1>3, <1>4

\* The verbs once an answer has landed, whichever read it settles.
VerbsSettled(old, ok, verbs, late, ctl) ==
    /\ Has(ctl, CtlFields) /\ ~ctl.stale /\ ctl.late = late
    /\ IF old.stale
       THEN ctl.read = <<"asked">> /\ (late # {} => ctl.crossed)
       ELSE /\ ctl.read = Nil /\ (old.crossed => ctl.crossed)
            /\ IF ok THEN ctl.val = verbs ELSE ctl.lost

\* It is one of the two, whichever read the answer settles.
LEMMA ControlsSettleIs ==
  ASSUME NEW x, VerbsFit(x.ctl), NEW ok \in BOOLEAN, NEW verbs, NEW late
  PROVE  \E ctl : /\ ControlsSettle(x, ok, verbs, late) = [x EXCEPT !.ctl = ctl]
                  /\ VerbsSettled(x.ctl, ok, verbs, late, ctl)
<1> DEFINE old == x.ctl
           val == IF ok THEN verbs ELSE old.val
           lost == ~ok
           c == [old EXCEPT !.val = val, !.lost = lost, !.read = Nil, !.stale = FALSE, !.late = late]
           ctl == IF old.stale THEN AskControls(c) ELSE c
<1>1. ControlsSettle(x, ok, verbs, late) = [x EXCEPT !.ctl = ctl]
  BY ZenonT(60) DEF ControlsSettle
<1>2. IF ok THEN val = verbs ELSE lost
  OBVIOUS
<1> HIDE DEF val, lost
<1>3. /\ Has(c, CtlFields) /\ c.read = Nil /\ ~c.stale /\ c.late = late /\ c.crossed = old.crossed
      /\ c.val = val /\ c.lost = lost
  BY DEF VerbsFit, Has, CtlFields
<1> HIDE DEF c
<1>4. /\ Has(AskControls(c), CtlFields) /\ AskControls(c).read = <<"asked">> /\ ~AskControls(c).stale
      /\ AskControls(c).late = late /\ (late # {} => AskControls(c).crossed)
  BY <1>3, AskControlsIs
<1>5. VerbsSettled(old, ok, verbs, late, ctl)
  BY <1>2, <1>3, <1>4 DEF VerbsSettled
<1> HIDE DEF ctl
<1>6. QED
  BY <1>1, <1>5

\* An answer lands; one of a read no longer counted crosses the one that is.
LEMMA ControlsLandKeeps ==
  ASSUME RunsInv, ControlsLand
  PROVE  RunsInv'
<1>1. VerbsFit(rn.ctl) /\ UNCHANGED <<rnsrv, rnnet>>
  BY DEF RunsInv, ControlsLand
<1>2. <<"asked">> # Nil /\ Len(<<"asked">>) = 1 /\ Len(Nil) = 0
  BY DEF Nil
<1>3. CASE Len(rn.ctl.read) = 2
           /\ rn' = ControlsSettle(rn, rn.ctl.read[1] = "ok", rn.ctl.read[2], rn.ctl.late)
  <2> DEFINE ok == rn.ctl.read[1] = "ok"
  <2>0. ok \in BOOLEAN /\ rn' = ControlsSettle(rn, ok, rn.ctl.read[2], rn.ctl.late)
    BY <1>3
  <2> HIDE DEF ok
  <2>1. PICK ctl : rn' = [rn EXCEPT !.ctl = ctl] /\ VerbsSettled(rn.ctl, ok, rn.ctl.read[2], rn.ctl.late, ctl)
    BY <1>1, <2>0, ControlsSettleIs
  <2>2. VerbsFit(ctl)
    BY <1>1, <1>2, <2>1 DEF VerbsFit, VerbsSettled
  <2>3. ASSUME rnsrv.stream, rn.gaps = 0, rnsrv.status = "done", ~ctl.crossed, ~rn.ctl.stale,
               ~ \E i \in 1 .. Len(rnnet) : rnnet[i].kind = "finished"
        PROVE  ctl.lost \/ ctl.val = "done"
    <3>1. VerbsHold(rn, rnnet, rnsrv)
      BY <2>3 DEF RunsInv, Holds
    <3>2. rn.ctl.read[1] = "failed" \/ rn.ctl.read[2] = "done"
      <4>1. rn.ctl.read # Nil /\ Len(rn.ctl.read) # 1
        BY <1>2, <1>3
      <4>2. ~rn.ctl.crossed
        BY <2>1, <2>3 DEF VerbsSettled
      <4>3. QED
        BY <2>3, <3>1, <4>1, <4>2 DEF VerbsHold
    <3>3. QED
      <4>1. ok => rn.ctl.read[2] = "done"
        BY <3>2 DEF ok
      <4>2. QED
        BY <2>1, <2>3, <4>1 DEF VerbsSettled
  <2>4. QED
    BY <1>1, <1>2, <2>1, <2>2, <2>3, VerbsSteps DEF VerbsSettled
<1>4. ASSUME NEW ans \in rn.ctl.late,
             rn' = ControlsSettle(rn, ans[1] = "ok", ans[2],
                                  (rn.ctl.late \ {ans}) \cup ({rn.ctl.read} \ {Nil}))
      PROVE  RunsInv'
  <2> DEFINE ok == ans[1] = "ok"
             late == (rn.ctl.late \ {ans}) \cup ({rn.ctl.read} \ {Nil})
  <2>0. ok \in BOOLEAN /\ rn' = ControlsSettle(rn, ok, ans[2], late)
    BY <1>4
  <2> HIDE DEF ok, late
  <2>1. PICK ctl : rn' = [rn EXCEPT !.ctl = ctl] /\ VerbsSettled(rn.ctl, ok, ans[2], late, ctl)
    BY <1>1, <2>0, ControlsSettleIs
  <2>2. rn.ctl.crossed
    BY <1>1, <1>4 DEF VerbsFit
  <2>3. VerbsFit(ctl)
    BY <1>2, <2>1, <2>2 DEF VerbsFit, VerbsSettled
  <2>4. QED
    BY <1>1, <1>2, <2>1, <2>2, <2>3, VerbsSteps DEF VerbsSettled
<1>5. QED
  BY <1>3, <1>4 DEF ControlsLand

\* More outages leave what was asked for under an earlier cause as it is.
LEMMA CausesGrow ==
  ASSUME NEW n \in Nat, NEW s
  PROVE  (Cause(s, n) => Cause(s, n + 1)) /\ (ReadOf(s, n) => ReadOf(s, n + 1))
<1>1. 0 .. n \subseteq 0 .. n + 1
  OBVIOUS
<1>2. Cause(s, n) => Cause(s, n + 1)
  BY <1>1 DEF Cause
<1>3. QED
  BY <1>1, <1>2 DEF ReadOf

\* A client of an outage that is over: it reads its run again, or holds none, or holds the
\* run as it is; and an answer made before the outage is over is not taken for one of now.
Returned(x, s) ==
    /\ RunFits(x) /\ x.gaps # 0 /\ (Len(x.list) = 2 => x.raced)
    /\ Asked(x) \/ (/\ x.cell = Nil \/ x.blind \/ x.cell = StateOf(s)
                    /\ Len(x.read) = 2 => x.overtaken)

\* A stream that has just come back, to such a client.
LEMMA ReturnedHolds ==
  ASSUME NEW x, NEW s \in RunServer, Returned(x, s)
  PROVE  LET net == <<[RunFrame("connected") EXCEPT !.row = Live(s)]>>
         IN  net \in Seq(RunFrames) /\ Holds(x, net, s)
<1> DEFINE f == [RunFrame("connected") EXCEPT !.row = Live(s)]
           net == <<f>>
<1>1. f \in RunFrames /\ f.kind = "connected" /\ f.node = "none" /\ f.row = Live(s)
  BY DEF RunFrame, RunFrames, FrameKinds, RowSays, Live
<1> HIDE DEF f
<1>2. net \in Seq(RunFrames) /\ Len(net) = 1 /\ net[1] = f
  BY <1>1
<1> HIDE DEF net
<1>3. NodesTold(net, s)
  BY <1>1, <1>2 DEF NodesTold
<1>4. Tells(net[1]) /\ Told(net[1]) = Live(s)
  BY <1>1, <1>2 DEF Tells, Told
<1>5. RowTold(net, s)
  BY <1>2, <1>4 DEF RowTold
<1>6. RowHeld(x, net, s)
  <2>1. 1 \in 1 .. Len(net)
    BY <1>2
  <2>2. QED
    BY <1>4, <2>1 DEF RowHeld, Returned
<1>7. CellHolds(x, net, s)
  <2>1. CASE Asked(x)
    BY <2>1, AskedHolds
  <2>2. CASE ~Asked(x)
    <3>1. s.nodes \in [RunNodes -> Nat]
      BY DEF RunServer
    <3>2. Current(StateOf(s), net, s)
      BY <3>1 DEF Current, StateOf, Has, StateFields
    <3>3. QED
      BY <2>2, <3>2 DEF CellHolds, Returned
  <2>3. QED
    BY <2>1, <2>2
<1>8. VerbsHold(x, net, s)
  BY DEF VerbsHold, Returned
<1>9. Holds(x, net, s)
  BY <1>3, <1>5, <1>6, <1>7, <1>8 DEF Holds
<1>10. QED
  BY <1>2, <1>9 DEF net, f

\* Whoever reads the runs again owes the cached one a read.
LEMMA RereadIs ==
  ASSUME RunFits(rn), rnsrv \in RunServer
  PROVE  Returned(Reread(rn), rnsrv) /\ Reread(rn).ctl = rn.ctl
<1> DEFINE token == rn.gaps + 1
           x == [rn EXCEPT !.gaps = token, !.list = <<token>>, !.raced = FALSE]
           overtaken == x.overtaken \/ rn.read # Nil
           z == [x EXCEPT !.overtaken = overtaken]
           y == IF rn.cell = Nil /\ ~rn.shown THEN z ELSE Invalidate(x, token)
<1>1. Reread(rn) = y
  BY Zenon DEF Reread
<1>2. token \in Nat /\ token # 0 /\ token \in 0 .. token /\ rn.answered \in 0 .. token /\ rn.answered # token
  BY DEF RunFits
<1>3. \A s : (Cause(s, rn.gaps) => Cause(s, token)) /\ (ReadOf(s, rn.gaps) => ReadOf(s, token))
  BY CausesGrow DEF RunFits
<1> HIDE DEF token
<1>4. /\ Has(x, RnFields) /\ x.gaps = token /\ x.list = <<token>> /\ SameCell(rn, x) /\ x.ctl = rn.ctl
      /\ x.shown = rn.shown
  BY DEF RunFits, Has, RnFields, SameCell
<1> HIDE DEF x
<1>5. RunFits(x) /\ Len(x.list) # 2
  <2>1. ListOf(x.list, token)
    BY <1>2, <1>4 DEF ListOf, Cause
  <2>2. QED
    BY <1>2, <1>3, <1>4, <2>1 DEF RunFits, SameCell
<1>6. Returned(y, rnsrv) /\ y.ctl = rn.ctl
  <2>1. CASE rn.cell = Nil /\ ~rn.shown
    <3>1. y = z
      BY <2>1
    <3> HIDE DEF y, overtaken
    <3>2. /\ Has(z, RnFields) /\ z.overtaken = overtaken /\ z.cell = x.cell /\ z.read = x.read
          /\ z.stale = x.stale /\ z.answered = x.answered /\ z.retry = x.retry /\ z.gaps = x.gaps
          /\ z.list = x.list /\ z.ctl = x.ctl
      BY <1>4 DEF Has, RnFields
    <3> HIDE DEF z
    <3>3. RunFits(z)
      BY <1>5, <3>2 DEF RunFits
    <3>4. Len(z.read) = 2 => z.overtaken
      <4>1. Len(Nil) = 0
        BY DEF Nil
      <4>2. rn.read # Nil => overtaken
        BY DEF overtaken
      <4>3. x.read = rn.read
        BY <1>4 DEF SameCell
      <4>4. z.read = x.read /\ (z.overtaken <=> overtaken)
        BY <3>2, Zenon
      <4>5. Len(z.read) = 2 => rn.read # Nil
        BY <4>1, <4>3, <4>4
      <4>6. QED
        BY <4>2, <4>4, <4>5
    <3>5. z.cell = Nil
      BY <1>4, <2>1, <3>2 DEF SameCell
    <3>6. QED
      BY <1>2, <1>4, <1>5, <3>1, <3>2, <3>3, <3>4, <3>5 DEF Returned
  <2>2. CASE ~(rn.cell = Nil /\ ~rn.shown)
    <3>1. y = Invalidate(x, token)
      BY <2>2
    <3> HIDE DEF y
    <3>2. token \in 0 .. x.gaps /\ x.answered # token
      BY <1>2, <1>4 DEF SameCell
    <3>3. RunFits(y) /\ Rest(x, y) /\ Asked(y)
      BY <1>5, <3>1, <3>2, InvalidateIs
    <3>4. y.ctl = rn.ctl /\ y.gaps = token /\ y.list = x.list
      BY <1>4, <3>3 DEF Rest, SameRow
    <3>5. QED
      BY <1>2, <1>5, <3>3, <3>4 DEF Returned
  <2>3. QED
    BY <2>1, <2>2
<1>7. QED
  BY <1>1, <1>6

\* Where nothing is asked for, a run that is not held as it is counts as missed.
LEMMA UnaskedIs ==
  ASSUME RunFits(rn), rnsrv \in RunServer
  PROVE  Returned(Unasked(rn), rnsrv) /\ Unasked(rn).ctl = rn.ctl
<1> DEFINE n == rn.gaps + 1
           overtaken == rn.overtaken \/ Len(rn.read) = 2
           raced == rn.raced \/ Len(rn.list) = 2
           blind == rn.blind \/ (rn.cell # Nil /\ rn.cell # StateOf(rnsrv))
           y == [rn EXCEPT !.gaps = n, !.overtaken = overtaken, !.raced = raced, !.blind = blind]
<1>1. Unasked(rn) = y
  BY Zenon DEF Unasked
<1>2. n \in Nat /\ n # 0 /\ rn.answered \in 0 .. n
  BY DEF RunFits
<1>3. \A s : (Cause(s, rn.gaps) => Cause(s, n)) /\ (ReadOf(s, rn.gaps) => ReadOf(s, n))
  BY CausesGrow DEF RunFits
<1>4. 0 .. rn.gaps \subseteq 0 .. n
  BY DEF RunFits
<1> HIDE DEF n, overtaken, raced, blind
<1>5. /\ Has(y, RnFields) /\ y.gaps = n /\ y.overtaken = overtaken /\ y.raced = raced /\ y.blind = blind
      /\ y.cell = rn.cell /\ y.read = rn.read /\ y.stale = rn.stale /\ y.answered = rn.answered
      /\ y.retry = rn.retry /\ y.list = rn.list /\ y.ctl = rn.ctl
  BY DEF RunFits, Has, RnFields
<1> HIDE DEF y
<1>6. ListOf(y.list, n)
  <2>1. ListOf(rn.list, rn.gaps)
    BY DEF RunFits
  <2>2. QED
    BY <1>3, <1>4, <1>5, <2>1 DEF ListOf
<1>7. RunFits(y)
  BY <1>2, <1>3, <1>5, <1>6 DEF RunFits
<1>8. /\ Len(y.list) = 2 => y.raced
      /\ Len(y.read) = 2 => y.overtaken
      /\ y.cell = Nil \/ y.blind \/ y.cell = StateOf(rnsrv)
  BY <1>5 DEF raced, overtaken, blind
<1>9. QED
  BY <1>1, <1>2, <1>5, <1>7, <1>8 DEF Returned

\* A range asked for, and a stamp forgotten, are nothing to the run itself.
LEMMA RerangeIs ==
  ASSUME NEW y, NEW z, Returned(y, rnsrv), z = Rerange(y) \/ z = [y EXCEPT !.held = Nil]
  PROVE  Returned(z, rnsrv) /\ z.ctl = y.ctl
<1>1. CASE z = y
  BY <1>1
<1>2. ASSUME NEW v, z = [y EXCEPT !.range = v] \/ z = [y EXCEPT !.held = v]
      PROVE  Returned(z, rnsrv) /\ z.ctl = y.ctl
  <2>1. /\ Has(z, RnFields) /\ SameCell(y, z) /\ z.list = y.list /\ z.gaps = y.gaps
        /\ z.ctl = y.ctl /\ z.raced = y.raced
    BY <1>2 DEF Returned, RunFits, Has, RnFields, SameCell
  <2>2. RunFits(z)
    BY <2>1, FitsCarried DEF Returned
  <2>3. QED
    BY <2>1, <2>2 DEF Returned, SameCell, Asked
<1>3. QED
  BY <1>1, <1>2 DEF Rerange

\* A stream that returns says what is live, and has what is cached read again or missed.
LEMMA StreamReturnsKeeps ==
  ASSUME RunsInv, StreamReturns
  PROVE  RunsInv'
<1>1. /\ RunFits(rn) /\ VerbsFit(rn.ctl) /\ rnsrv \in RunServer
      /\ rnsrv' = [rnsrv EXCEPT !.stream = TRUE]
      /\ rnnet' = <<[RunFrame("connected") EXCEPT !.row = Live(rnsrv)]>>
  BY DEF RunsInv, StreamReturns
<1>2. \/ rn' = [Reread(rn) EXCEPT !.held = Nil] \/ rn' = Rerange(Reread(rn))
      \/ rn' = Rerange(Unasked(rn)) \/ rn' = Unasked(rn)
  BY ZenonT(60) DEF StreamReturns
<1>3. Returned(rn', rnsrv) /\ rn'.ctl = rn.ctl
  BY <1>1, <1>2, RereadIs, UnaskedIs, RerangeIs
<1>4. rnsrv' \in RunServer /\ Live(rnsrv') = Live(rnsrv) /\ StateOf(rnsrv') = StateOf(rnsrv)
  BY <1>1 DEF RunServer, Live, StateOf
<1>5. Returned(rn', rnsrv')
  BY <1>3, <1>4 DEF Returned
<1>6. rnnet' \in Seq(RunFrames) /\ Holds(rn', rnnet', rnsrv')
  BY <1>1, <1>4, <1>5, ReturnedHolds
<1>7. QED
  BY <1>1, <1>3, <1>4, <1>5, <1>6 DEF RunsInv, Returned

\* The run's tab opens, and the run and its verbs are read.
LEMMA ShowRunKeeps ==
  ASSUME RunsInv, ShowRun
  PROVE  RunsInv'
<1> DEFINE x == [rn EXCEPT !.shown = TRUE]
           y == Invalidate(x, Uncaused)
<1>1. /\ RunFits(rn) /\ VerbsFit(rn.ctl) /\ UNCHANGED <<rnsrv, rnnet>> /\ rn' = InvalidateControls(y)
  BY DEF RunsInv, ShowRun
<1>2. Has(x, RnFields) /\ SameCell(rn, x) /\ SameRow(rn, x) /\ x.ctl = rn.ctl /\ x.gaps = rn.gaps
  BY <1>1 DEF RunFits, Has, RnFields, SameCell, SameRow
<1> HIDE DEF x
<1>3. RunFits(x) /\ Uncaused \in 0 .. x.gaps
  <2>1. RunFits(x)
    BY <1>1, <1>2, FitsCarried DEF SameRow
  <2>2. QED
    BY <2>1 DEF RunFits, Uncaused
<1>4. RunFits(y) /\ Rest(x, y)
  BY <1>3, InvalidateIs
<1>5. ASSUME rnsrv.stream
      PROVE  Holds(y, rnnet, rnsrv)
  <2>1. Holds(x, rnnet, rnsrv)
    BY <1>2, <1>5, CellCarried, RowCarried, VerbsCarried DEF RunsInv, Holds
  <2>2. QED
    BY <1>3, <2>1, InvalidateHoldsAll
<1> HIDE DEF y
<1>6. /\ Has(rn', RnFields) /\ SameCell(y, rn') /\ SameRow(y, rn') /\ rn'.gaps = y.gaps
      /\ VerbsFit(rn'.ctl) /\ rn'.ctl.read # Nil /\ (rn'.ctl.stale \/ Len(rn'.ctl.read) = 1)
  BY <1>1, <1>2, <1>4, InvalidateControlsIs DEF RunFits, Rest
<1>7. RunFits(rn')
  BY <1>4, <1>6, FitsCarried DEF SameRow
<1>8. ASSUME rnsrv.stream
      PROVE  Holds(rn', rnnet, rnsrv)
  <2>1. VerbsHold(rn', rnnet, rnsrv)
    BY <1>6 DEF VerbsHold
  <2>2. QED
    BY <1>5, <1>6, <1>8, <2>1, CellCarried, RowCarried DEF Holds
<1>9. QED
  BY <1>1, <1>6, <1>7, <1>8, ClientSteps

\* The run is forgotten, with what was asked for of it.
LEMMA CardDisposedKeeps ==
  ASSUME RunsInv, CardDisposed
  PROVE  RunsInv'
<1>1. /\ RunFits(rn) /\ VerbsFit(rn.ctl) /\ UNCHANGED <<rnsrv, rnnet>> /\ rn' = ForgetRun(rn)
  BY DEF RunsInv, CardDisposed
<1>2. CASE rn.shown
  <2>1. rn' = rn
    BY <1>1, <1>2 DEF ForgetRun
  <2>2. QED
    BY <1>1, <2>1, ClientSteps DEF RunsInv
<1>3. CASE ~rn.shown
  <2> DEFINE old == rn.ctl
             overtaken == rn.overtaken \/ rn.read # Nil
             late == old.late \cup ({old.read} \ {Nil})
             crossed == old.crossed \/ old.read # Nil
             ctl == [val |-> "", read |-> Nil, stale |-> FALSE, lost |-> FALSE, late |-> late,
                     crossed |-> crossed]
             y == [rn EXCEPT !.cell = Nil, !.stale = Nil, !.answered = Uncaused, !.retry = NoRetry,
                             !.overtaken = overtaken, !.ctl = ctl,
                             !.log = Nil, !.open = FALSE, !.hole = FALSE, !.blind = FALSE, !.gaveUp = FALSE]
  <2>1. rn' = y
    BY <1>1, <1>3, ZenonT(60) DEF ForgetRun
  <2>2. VerbsFit(ctl) /\ ctl.val = "" /\ ctl.read = Nil
    <3>1. late # {} => crossed
      BY <1>1 DEF VerbsFit
    <3> HIDE DEF late, crossed
    <3>2. QED
      BY <3>1 DEF VerbsFit, Has, CtlFields
  <2> HIDE DEF overtaken, ctl
  <2>3. /\ Has(y, RnFields) /\ y.cell = Nil /\ y.stale = Nil /\ y.answered = Uncaused /\ y.retry = NoRetry
        /\ y.overtaken = overtaken /\ y.ctl = ctl /\ y.read = rn.read /\ y.gaps = rn.gaps
        /\ SameRow(rn, y)
    BY <1>1 DEF RunFits, Has, RnFields, SameRow
  <2> HIDE DEF y
  <2>4. RunFits(y)
    BY <1>1, <2>3, NoRetryIs DEF RunFits, SameRow, Cause, Uncaused
  <2>5. ASSUME rnsrv.stream
        PROVE  Holds(y, rnnet, rnsrv)
    <3>1. Holds(rn, rnnet, rnsrv)
      BY <2>5 DEF RunsInv
    <3>2. Len(y.read) = 2 => y.overtaken
      <4>1. Len(Nil) = 0
        BY DEF Nil
      <4>2. y.read # Nil => y.overtaken
        BY <2>3 DEF overtaken
      <4>3. QED
        BY <4>1, <4>2
    <3>3. CellHolds(y, rnnet, rnsrv)
      BY <2>3, <3>2 DEF CellHolds
    <3>4. VerbsHold(y, rnnet, rnsrv)
      BY <2>2, <2>3 DEF VerbsHold
    <3>5. QED
      BY <2>3, <3>1, <3>3, <3>4, RowCarried DEF Holds
  <2>6. QED
    BY <1>1, <2>1, <2>2, <2>3, <2>4, <2>5, ClientSteps
<1>4. QED
  BY <1>2, <1>3

----------------------------------------------------------------------------
(* What is shown of the run, once nothing more is on its way.              *)

\* At the start the run is running, and a frame that says so is on its way.
LEMMA RunsStart ==
  ASSUME RunsInit
  PROVE  RunsInv
<1>0. PICK held \in {Nil, <<0>>} :
       rn = [cell |-> Nil, read |-> Nil, stale |-> Nil, answered |-> Uncaused, retry |-> NoRetry,
             overtaken |-> FALSE, blind |-> FALSE, gaveUp |-> FALSE,
             ctl |-> [val |-> "", read |-> Nil, stale |-> FALSE, lost |-> FALSE, late |-> {},
                      crossed |-> FALSE],
             live |-> "executing", list |-> Nil, raced |-> FALSE, rowBlind |-> FALSE, gaps |-> 0,
             stamp |-> 0, held |-> held,
             log |-> Nil, open |-> FALSE, hole |-> FALSE, range |-> Nil,
             step |-> [state |-> "none", read |-> Nil], shown |-> FALSE]
  BY Zenon DEF RunsInit
<1> DEFINE ctl == [val |-> "", read |-> Nil, stale |-> FALSE, lost |-> FALSE, late |-> {},
                   crossed |-> FALSE]
           x == [cell |-> Nil, read |-> Nil, stale |-> Nil, answered |-> Uncaused, retry |-> NoRetry,
                 overtaken |-> FALSE, blind |-> FALSE, gaveUp |-> FALSE, ctl |-> ctl,
                 live |-> "executing", list |-> Nil, raced |-> FALSE, rowBlind |-> FALSE, gaps |-> 0,
                 stamp |-> 0, held |-> held,
                 log |-> Nil, open |-> FALSE, hole |-> FALSE, range |-> Nil,
                 step |-> [state |-> "none", read |-> Nil], shown |-> FALSE]
           s == [nodes |-> [n \in RunNodes |-> 0], shape |-> 0, status |-> "running",
                 len |-> 0, open |-> FALSE, stream |-> TRUE, leases |-> 0]
           f == RunFrame("started")
           net == <<f>>
<1>1. rn = x /\ rnsrv = s /\ rnnet = net
  BY <1>0, Zenon DEF RunsInit
<1>2. VerbsFit(ctl)
  BY DEF VerbsFit, Has, CtlFields
<1> HIDE DEF ctl
<1>3. /\ Has(x, RnFields) /\ x.cell = Nil /\ x.read = Nil /\ x.stale = Nil /\ x.answered = 0
      /\ x.retry = NoRetry /\ x.ctl = ctl /\ x.live = "executing" /\ x.list = Nil /\ x.gaps = 0
  BY DEF Has, RnFields, Uncaused
<1> HIDE DEF x
<1>4. RunFits(x)
  BY <1>3, NoRetryIs DEF RunFits, ReadOf, ListOf, Cause
<1>5. s \in RunServer /\ s.status = "running"
  BY DEF RunServer
<1> HIDE DEF s
<1>6. f \in RunFrames /\ f.kind = "started" /\ f.node = "none"
  BY PlainFrame DEF FrameKinds
<1> HIDE DEF f
<1>7. net \in Seq(RunFrames) /\ Len(net) = 1 /\ net[1] = f /\ 1 \in 1 .. Len(net)
  BY <1>6
<1> HIDE DEF net
<1>8. Len(Nil) = 0
  BY DEF Nil
<1>9. Live(s) = "executing"
  BY <1>5 DEF Live
<1>10. NodesTold(net, s)
  BY <1>6, <1>7 DEF NodesTold
<1>11. CellHolds(x, net, s)
  BY <1>3, <1>8 DEF CellHolds
<1>12. RowTold(net, s) /\ RowHeld(x, net, s)
  BY <1>3, <1>6, <1>7, <1>8, <1>9 DEF RowTold, RowHeld, Told
<1>13. VerbsHold(x, net, s)
  BY <1>5 DEF VerbsHold
<1>14. QED
  BY <1>1, <1>2, <1>3, <1>4, <1>5, <1>7, <1>10, <1>11, <1>12, <1>13 DEF RunsInv, Holds

\* Every step of the run, the stream and the client keeps the invariant.
LEMMA RunsStep ==
  ASSUME RunsInv, [RunsNext]_rnvars
  PROVE  RunsInv'
<1>1. CASE UNCHANGED rnvars
  BY <1>1 DEF rnvars, RunsInv
<1>2. CASE RunsNext
  BY <1>2, NodeMovesKeeps, TreeGrowsKeeps, RunParksKeeps, RunResumesKeeps, RunEndsKeeps, StepWritesKeeps,
     StepSealsKeeps, FrameLandsKeeps, StreamDropsKeeps, StreamReturnsKeeps, ReadServedKeeps, ReadLandsKeeps,
     RetryFiresKeeps, ListServedKeeps, ListLandsKeeps, ControlsServedKeeps, ControlsLandKeeps,
     RangeServedKeeps, RangeLandsKeeps, StepShownKeeps, StepServedKeeps, StepLandsKeeps, ShowRunKeeps,
     HideRunKeeps, CardDisposedKeeps DEF RunsNext
<1>3. QED
  BY <1>1, <1>2

\* Of a run with nothing on its way, what is held is what the server says.
LEMMA QuietRun ==
  ASSUME RunsInv
  PROVE  RunCatchesUp
<1> SUFFICES ASSUME NoneComing
             PROVE  RunCatchesUp
  BY DEF RunCatchesUp, CellCatchesUp, RowCatchesUp, VerbsCatchUp
<1>1. Holds(rn, <<>>, rnsrv) /\ rnsrv \in RunServer /\ VerbsFit(rn.ctl)
  BY DEF RunsInv, NoneComing
<1>2. \A i \in 1 .. Len(<<>>) : FALSE
  OBVIOUS
<1>3. ASSUME ReadsDone, rn.cell # Nil, ~rn.blind
      PROVE  rn.cell = StateOf(rnsrv)
  <2>1. Current(rn.cell, <<>>, rnsrv)
    BY <1>1, <1>2, <1>3 DEF Holds, CellHolds, Asking, Owed, ReadsDone
  <2>2. rn.cell.nodes = rnsrv.nodes
    <3>1. \A n \in RunNodes : rn.cell.nodes[n] = rnsrv.nodes[n]
      BY <1>2, <2>1 DEF Current
    <3>2. rnsrv.nodes \in [RunNodes -> Nat]
      BY <1>1, ServerFields
    <3>3. rn.cell.nodes = [n \in RunNodes |-> rn.cell.nodes[n]]
      BY <2>1 DEF Current, Has
    <3>4. QED
      BY <3>1, <3>2, <3>3
  <2>3. QED
    BY <2>1, <2>2 DEF Current, Has, StateFields, StateOf
<1>4. CellCatchesUp
  BY <1>3 DEF CellCatchesUp
<1>5. RowCatchesUp
  BY <1>1, <1>2 DEF RowCatchesUp, Holds, RowHeld
<1>6. VerbsCatchUp
  BY <1>1, <1>2 DEF VerbsCatchUp, Holds, VerbsHold
<1>7. QED
  BY <1>4, <1>5, <1>6 DEF RunCatchesUp

\* RunsCatchUp: whatever frames were lost, coalesced or applied while a read was out,
\* and however reads, retries and outages met, once nothing is on its way a run that is
\* held, the row of live runs and the verbs offered are what the server says.
THEOREM RunsCatchUp == RunsSpec => []RunCatchesUp
<1>1. RunsInit => RunsInv
  BY RunsStart
<1>2. RunsInv /\ [RunsNext]_rnvars => RunsInv'
  BY RunsStep
<1>3. RunsInv => RunCatchesUp
  BY QuietRun
<1>4. QED
  BY <1>1, <1>2, <1>3, PTL DEF RunsSpec

----------------------------------------------------------------------------
(* The rail.                                                               *)

\* What of the rail a jump is judged by, and the fields of a jump.
JumpKeys == {"chatID", "gen", "asked", "landed"}
JumpFields == {"turn", "gen", "chat", "stage"}

RailFits(r) == JumpKeys \subseteq DOMAIN r /\ r.gen \in Int

\* A jump is of a generation the rail has reached; one of the rail's own generation is
\* the last it accepted, and is of the chat it shows.
JumpFits(r, j) ==
    /\ DOMAIN j = JumpFields /\ j.gen \in Int /\ j.gen <= r.gen
    /\ j.gen = r.gen => j.turn = r.asked /\ j.chat = r.chatID

RailInv == RailFits(rl) /\ \A j \in rljumps : JumpFits(rl, j)

\* Nothing a jump is judged by has changed; the jumps are those there were, perhaps further on.
SameForJumps(r, s) ==
    /\ DOMAIN s = DOMAIN r
    /\ s.chatID = r.chatID /\ s.gen = r.gen /\ s.asked = r.asked /\ s.landed = r.landed
SameJump(j, k) == DOMAIN k = DOMAIN j /\ k.turn = j.turn /\ k.gen = j.gen /\ k.chat = j.chat
JumpsGoOn == \A k \in rljumps' : \E j \in rljumps : SameJump(j, k)

\* Drawing the markers touches nothing a jump is judged by.
LEMMA RenderSame ==
    ASSUME NEW r, RailFits(r)
    PROVE  SameForJumps(r, Render(r))
  BY DEF RailFits, JumpKeys, SameForJumps, Render

\* Nor does merging the turns behind them.
LEMMA SetTurnsSame ==
    ASSUME NEW r, RailFits(r)
    PROVE  SameForJumps(r, SetTurns(r))
  BY DEF RailFits, JumpKeys, SameForJumps, SetTurns

\* Nor do the frame and the intent.
LEMMA FlagsSame ==
    ASSUME NEW r, RailFits(r)
    PROVE  /\ SameForJumps(r, Repick(r))
           /\ SameForJumps(r, HoldIntent(r))
           /\ SameForJumps(r, ReleaseIntent(r))
  BY DEF RailFits, JumpKeys, SameForJumps, Repick, HoldIntent, ReleaseIntent

\* What is judged the same fits as well.
LEMMA SameFits ==
    ASSUME NEW r, NEW s, RailFits(r), SameForJumps(r, s)
    PROVE  RailFits(s)
  BY DEF RailFits, SameForJumps

\* And two such changes are one.
LEMMA SameTwice ==
    ASSUME NEW r, NEW s, NEW t, SameForJumps(r, s), SameForJumps(s, t)
    PROVE  SameForJumps(r, t)
  BY DEF SameForJumps

\* Drawing and asking for the frame, in one.
LEMMA RedrawnSame ==
    ASSUME NEW r, NEW s, RailFits(r), SameForJumps(r, s)
    PROVE  /\ SameForJumps(r, Render(s))
           /\ SameForJumps(r, Repick(s))
           /\ SameForJumps(r, Repick(Render(s)))
           /\ SameForJumps(r, Repick(Render(SetTurns(s))))
<1>1. RailFits(s)
  BY SameFits
<1>2. SameForJumps(s, Render(s)) /\ SameForJumps(s, Repick(s)) /\ SameForJumps(s, SetTurns(s))
  BY <1>1, RenderSame, FlagsSame, SetTurnsSame
<1>3. RailFits(Render(s)) /\ RailFits(SetTurns(s))
  BY <1>1, <1>2, SameFits
<1>4. SameForJumps(Render(s), Repick(Render(s)))
  BY <1>3, FlagsSame
<1>5. SameForJumps(SetTurns(s), Render(SetTurns(s)))
  BY <1>3, RenderSame
<1>6. SameForJumps(Render(SetTurns(s)), Repick(Render(SetTurns(s))))
  BY <1>3, <1>5, SameFits, FlagsSame
<1>7. SameForJumps(s, Repick(Render(s))) /\ SameForJumps(s, Repick(Render(SetTurns(s))))
  <2>1. SameForJumps(s, Repick(Render(s)))
    BY <1>2, <1>4, SameTwice
  <2>2. SameForJumps(s, Render(SetTurns(s)))
    BY <1>2, <1>5, SameTwice
  <2>. QED BY <2>1, <2>2, <1>6, SameTwice
<1>. QED BY <1>2, <1>7, SameTwice

\* The end of a jump gives back its mark and its intent, and nothing a jump is judged by.
LEMMA JumpEndedSame ==
    ASSUME NEW r, NEW j, RailFits(r)
    PROVE  SameForJumps(r, JumpEnded(r, j))
<1>. DEFINE off == [r EXCEPT !.pending = @ \ {j.turn}]
<1>1. SameForJumps(r, off)
  BY DEF RailFits, JumpKeys, SameForJumps
<1>2. SameForJumps(r, ReleaseIntent(off))
  BY <1>1, SameFits, FlagsSame, SameTwice
<1>3. SameForJumps(r, Repick(Render(ReleaseIntent(off))))
  BY <1>2, RedrawnSame
<1>. QED BY <1>1, <1>3 DEF JumpEnded

\* The invariant survives a step in which the rail stays the same for the jumps and they go on.
LEMMA GoesOn ==
    ASSUME RailInv, SameForJumps(rl, rl'), JumpsGoOn
    PROVE  RailInv'
<1>1. RailFits(rl')
  BY SameFits DEF RailInv
<1>2. ASSUME NEW k \in rljumps' PROVE JumpFits(rl', k)
  <2>1. PICK j \in rljumps : SameJump(j, k)
    BY DEF JumpsGoOn
  <2>. QED BY <2>1 DEF RailInv, JumpFits, SameForJumps, SameJump
<1>. QED BY <1>1, <1>2 DEF RailInv

\* Nor does a landing disturb it.
LEMMA LandedFits ==
    ASSUME RailInv, NEW x, rl' = [rl EXCEPT !.landed = x], JumpsGoOn
    PROVE  RailInv'
<1>1. RailFits(rl') /\ rl'.gen = rl.gen /\ rl'.asked = rl.asked /\ rl'.chatID = rl.chatID
  BY DEF RailInv, RailFits, JumpKeys
<1>2. ASSUME NEW k \in rljumps' PROVE JumpFits(rl', k)
  <2>1. PICK j \in rljumps : SameJump(j, k)
    BY DEF JumpsGoOn
  <2>. QED BY <2>1, <1>1 DEF RailInv, JumpFits, SameJump
<1>. QED BY <1>1, <1>2 DEF RailInv

\* A generation that passes leaves every jump behind.
LEMMA GenerationPasses ==
    ASSUME RailInv, RailFits(rl'), rl'.gen = rl.gen + 1, rljumps' = rljumps
    PROVE  RailInv'
  BY DEF RailInv, RailFits, JumpFits

\* The jumps of a step that lets them be, drops one or takes one further go on.
LEMMA JumpsKept ==
    /\ UNCHANGED rljumps => JumpsGoOn
    /\ \A j : DropJump(j) => JumpsGoOn
    /\ \A stage : \A j \in rljumps : DOMAIN j = JumpFields /\ At(j, stage) => JumpsGoOn
  BY DEF JumpsGoOn, SameJump, DropJump, At, JumpFields

\* A chat shown instead of another supersedes every jump of the one left.
LEMMA PointedFits ==
    ASSUME NEW r, NEW c, RailFits(r)
    PROVE  LET s == Pointed(r, c)
           IN  /\ RailFits(s) /\ s.landed = r.landed
               /\ s = r \/ s.gen = r.gen + 1
<1>. DEFINE a == ReleaseIntent([r EXCEPT !.selected = None, !.pending = {}])
            away == InvalidateJumps(a)
            s == [away EXCEPT !.chatID = c, !.indexed = r.records[c].turns,
                              !.active = None, !.held = None, !.cards = {}, !.asked = None]
<1>1. SameForJumps(r, a)
  BY DEF RailFits, JumpKeys, SameForJumps, ReleaseIntent
<1>2. RailFits(a) /\ a.gen = r.gen /\ a.landed = r.landed
  BY <1>1, SameFits DEF SameForJumps
<1>. HIDE DEF a
<1>3. RailFits(away) /\ away.gen = r.gen + 1 /\ away.landed = r.landed
  BY <1>2 DEF RailFits, JumpKeys, InvalidateJumps
<1>. HIDE DEF away
<1>4. RailFits(s) /\ s.gen = r.gen + 1 /\ s.landed = r.landed
  BY <1>3 DEF RailFits, JumpKeys
<1>. HIDE DEF s
<1>5. SameForJumps(s, Render(SetTurns(s)))
  BY <1>4, SetTurnsSame, RenderSame, SameFits, SameTwice
<1>6. /\ RailFits(Render(SetTurns(s))) /\ Render(SetTurns(s)).gen = r.gen + 1
      /\ Render(SetTurns(s)).landed = r.landed
  BY <1>4, <1>5, SameFits DEF SameForJumps
<1>7. Pointed(r, c) = IF c = r.chatID THEN r ELSE Render(SetTurns(s))
  BY DEF Pointed, s, away, a
<1>. QED BY <1>6, <1>7

\* The end of a jump leaves every other one as it was.
LEMMA EndJumpFits ==
    ASSUME RailInv, NEW j, EndJump(j)
    PROVE  RailInv' /\ rl'.landed = rl.landed
<1>1. SameForJumps(rl, rl')
  BY JumpEndedSame DEF RailInv, EndJump
<1>2. JumpsGoOn
  BY JumpsKept DEF EndJump
<1>. QED BY <1>1, <1>2, GoesOn DEF SameForJumps

\* A jump taken to its next stage is the same jump.
LEMMA AtFits ==
    ASSUME RailInv, NEW j \in rljumps, NEW stage, At(j, stage), UNCHANGED rl
    PROVE  RailInv'
<1>1. JumpsGoOn
  BY JumpsKept DEF RailInv, JumpFits
<1>. QED BY <1>1, GoesOn DEF SameForJumps

\* After an await a jump goes on if it is still the last, or ends.
LEMMA GoesFits ==
    ASSUME RailInv, NEW j \in rljumps, NEW stage, Goes(j, stage)
    PROVE  RailInv'
  BY AtFits, EndJumpFits DEF Goes

\* A step that leaves the jumps alone and the rail the same for them.
LEMMA RailQuiet ==
    ASSUME RailInv, UNCHANGED rljumps, SameForJumps(rl, rl')
    PROVE  RailInv'
  BY JumpsKept, GoesOn

\* A click leaves the jumps there were behind, and the one it starts is the last.
LEMMA ClickFits ==
    ASSUME RailInv, Click
    PROVE  RailInv'
<1>. DEFINE Picked(n) == Render(HoldIntent([rl EXCEPT !.selected = n]))
            Gone(n) == n \notin rl.cards
            Begun(n) == [Picked(n) EXCEPT !.gen = @ + 1, !.asked = n,
                                          !.pending = IF Gone(n) THEN @ \cup {n} ELSE @]
            New(n) == [turn |-> n, gen |-> rl.gen + 1, chat |-> rl.chatID,
                       stage |-> IF Gone(n) THEN "paging" ELSE "building"]
<1>1. PICK n \in rl.drawn :
         IF n \in rl.pending THEN rl' = Picked(n) /\ UNCHANGED rljumps
         ELSE /\ rl' = IF Gone(n) THEN Render(Begun(n)) ELSE Begun(n)
              /\ rljumps' = rljumps \cup {New(n)}
  BY Zenon DEF Click
<1>2. SameForJumps(rl, Picked(n))
  <2>. DEFINE s == [rl EXCEPT !.selected = n]
  <2>1. SameForJumps(rl, s)
    BY DEF RailInv, RailFits, JumpKeys, SameForJumps
  <2>. HIDE DEF s
  <2>2. SameForJumps(rl, HoldIntent(s))
    BY <2>1, SameFits, FlagsSame, SameTwice DEF RailInv
  <2>3. SameForJumps(rl, Render(HoldIntent(s)))
    BY <2>2, RedrawnSame DEF RailInv
  <2>. QED BY <2>3 DEF s
<1>3. RailFits(rl) /\ RailFits(Picked(n))
  BY <1>2, SameFits DEF RailInv
<1>4. RailFits(Begun(n)) /\ Begun(n).gen = rl.gen + 1 /\ Begun(n).asked = n /\ Begun(n).chatID = rl.chatID
  <2>. DEFINE p == Picked(n)
  <2>1. RailFits(p) /\ p.gen = rl.gen /\ p.chatID = rl.chatID
    BY <1>2, <1>3 DEF SameForJumps
  <2>. HIDE DEF p
  <2>2. LET b == [p EXCEPT !.gen = @ + 1, !.asked = n, !.pending = IF Gone(n) THEN @ \cup {n} ELSE @]
        IN  RailFits(b) /\ b.gen = rl.gen + 1 /\ b.asked = n /\ b.chatID = rl.chatID
    BY <2>1, <1>3 DEF RailFits, JumpKeys
  <2>. QED BY <2>2 DEF p
<1>. HIDE DEF Picked, Begun, Gone
<1>5. CASE n \in rl.pending
  BY <1>1, <1>2, <1>5, RailQuiet
<1>6. CASE n \notin rl.pending
  <2>1. SameForJumps(Begun(n), Render(Begun(n)))
    BY <1>4, RenderSame
  <2>2. RailFits(rl') /\ rl'.gen = rl.gen + 1 /\ rl'.asked = n /\ rl'.chatID = rl.chatID
    <3>1. RailFits(Render(Begun(n))) /\ Render(Begun(n)).gen = rl.gen + 1
          /\ Render(Begun(n)).asked = n /\ Render(Begun(n)).chatID = rl.chatID
      BY <2>1, <1>4, SameFits DEF SameForJumps
    <3>. QED BY <3>1, <1>1, <1>4, <1>6
  <2>3. ASSUME NEW k \in rljumps PROVE JumpFits(rl', k)
    BY <2>2, <1>3 DEF RailInv, JumpFits, RailFits
  <2>4. JumpFits(rl', New(n))
    BY <2>2, <1>3 DEF JumpFits, RailFits, JumpFields
  <2>5. rljumps' = rljumps \cup {New(n)}
    BY <1>1, <1>6
  <2>. HIDE DEF New
  <2>. QED BY <2>2, <2>3, <2>4, <2>5 DEF RailInv
<1>. QED BY <1>5, <1>6

\* A jump scrolls only while it is the rail's last, to what was asked.
LEMMA LandFits ==
    ASSUME RailInv, NEW j \in rljumps, Land(j) \/ CorrectLanding(j)
    PROVE  /\ RailInv'
           /\ rl'.landed # rl.landed => rl'.landed = [chat |-> j.chat, turn |-> rl.asked]
<1>1. CASE EndJump(j)
  BY <1>1, EndJumpFits
<1>2. CASE /\ OwnsJump(j)
           /\ rl' = [rl EXCEPT !.landed = [chat |-> rl.chatID, turn |-> j.turn]]
           /\ At(j, "settling") \/ UNCHANGED rljumps
  <2>1. JumpsGoOn
    BY <1>2, JumpsKept DEF RailInv, JumpFits
  <2>2. RailInv'
    BY <1>2, <2>1, LandedFits
  <2>3. rl'.landed = [chat |-> rl.chatID, turn |-> j.turn]
    BY <1>2 DEF RailInv, RailFits, JumpKeys
  <2>4. j.turn = rl.asked /\ j.chat = rl.chatID
    BY <1>2 DEF RailInv, JumpFits, OwnsJump
  <2>. QED BY <2>2, <2>3, <2>4
<1>. QED BY <1>1, <1>2 DEF Land, CorrectLanding

\* There are no jumps at first.
LEMMA RailInitFits == RailInit => RailInv
  BY DEF RailInit, RailInv, RailFits, JumpKeys

\* Every step keeps the invariant, and scrolls only where it says.
LEMMA RailStep ==
    ASSUME RailInv, [RailNext]_rlvars
    PROVE  RailInv' /\ LandsWhereAsked
<1>. USE DEF RailInv
<1>0. SUFFICES RailInv'
  BY LandFits DEF LandsWhereAsked
<1>1. ASSUME NEW c \in RailChats, NEW force \in BOOLEAN, LoadTurnRail(c, force) PROVE RailInv'
  <2>1. rl' = Pointed(rl, c) /\ UNCHANGED rljumps
    BY <1>1 DEF LoadTurnRail
  <2>2. RailFits(rl') /\ (rl' = rl \/ rl'.gen = rl.gen + 1)
    BY <2>1, PointedFits
  <2>. QED BY <2>1, <2>2, GenerationPasses
<1>2. ASSUME NEW c \in RailChats, RefreshTurnRail(c) \/ ServerTurn(c) \/ StoreHears(c) \/ Evicted(c)
      PROVE  RailInv'
  BY <1>2 DEF RefreshTurnRail, ServerTurn, StoreHears, Evicted
<1>3. ASSUME NEW q \in rlreads, IndexRead(q) \/ IndexFailed(q) PROVE RailInv'
  BY <1>3 DEF IndexRead, IndexFailed
<1>4. ASSUME NEW q \in rlreads, IndexAnswered(q) PROVE RailInv'
  <2>. DEFINE kept == [rl EXCEPT !.records[q.chat] = Recorded(q)]
              shown == [kept EXCEPT !.indexed = q.turns]
  <2>1. SameForJumps(rl, kept) /\ SameForJumps(rl, shown)
    BY DEF SameForJumps, RailFits, JumpKeys
  <2>2. SameForJumps(rl, Repick(Render(SetTurns(shown))))
    BY <2>1, RedrawnSame
  <2>. QED BY <1>4, <2>1, <2>2, RailQuiet DEF IndexAnswered
<1>5. CASE InvalidateTurnRails
  <2>1. SameForJumps(rl, rl') /\ UNCHANGED rljumps
    BY <1>5 DEF InvalidateTurnRails, SameForJumps, RailFits, JumpKeys
  <2>. QED BY <2>1, RailQuiet
<1>6. CASE ResetTurnRail
  <2>. DEFINE r == [rl EXCEPT
                !.chatID = NoneShown, !.records = [c \in RailChats |-> NoRecord], !.indexed = {},
                !.summaries = {}, !.active = None, !.held = None, !.selected = None,
                !.pending = {}, !.cards = {}, !.intent = FALSE, !.pickFrame = FALSE,
                !.asked = None]
              s == InvalidateJumps(r)
  <2>1. RailFits(r) /\ r.gen = rl.gen
    BY DEF RailFits, JumpKeys
  <2>2. rl' = Render(s) /\ UNCHANGED rljumps
    BY <1>6 DEF ResetTurnRail
  <2>. HIDE DEF r
  <2>3. RailFits(s) /\ s.gen = rl.gen + 1
    BY <2>1 DEF RailFits, JumpKeys, InvalidateJumps
  <2>. HIDE DEF s
  <2>4. RailFits(rl') /\ rl'.gen = rl.gen + 1
    BY <2>2, <2>3, RenderSame, SameFits DEF SameForJumps
  <2>. QED BY <2>2, <2>4, GenerationPasses
<1>7. CASE SetResidentTurns
  <2>. DEFINE s == [rl EXCEPT !.cards = Resident(rl.chatID)]
  <2>1. SameForJumps(rl, s)
    BY DEF SameForJumps, RailFits, JumpKeys
  <2>. HIDE DEF s
  <2>2. SameForJumps(rl, Repick(Render(SetTurns(s))))
    BY <2>1, RedrawnSame
  <2>. QED BY <1>7, <2>2, RailQuiet DEF SetResidentTurns, s
<1>8. CASE RailResized
  <2>1. PICK tall \in BOOLEAN : rl' = Repick(Render([rl EXCEPT !.tall = tall])) /\ UNCHANGED rljumps
    BY <1>8, Zenon DEF RailResized
  <2>. DEFINE s == [rl EXCEPT !.tall = tall]
  <2>2. SameForJumps(rl, s)
    BY DEF SameForJumps, RailFits, JumpKeys
  <2>. HIDE DEF s
  <2>3. SameForJumps(rl, Repick(Render(s)))
    BY <2>2, RedrawnSame
  <2>. QED BY <2>1, <2>3, RailQuiet DEF s
<1>9. CASE PickActive
  <2>. DEFINE off == [rl EXCEPT !.pickFrame = FALSE]
              At2(n) == [off EXCEPT !.active = n]
  <2>1. UNCHANGED rljumps /\ (rl' = off \/ \E n : rl' = Render(At2(n)))
    BY <1>9 DEF PickActive
  <2>2. SameForJumps(rl, off)
    BY DEF SameForJumps, RailFits, JumpKeys
  <2>3. ASSUME NEW n PROVE SameForJumps(rl, At2(n))
    BY DEF SameForJumps, RailFits, JumpKeys
  <2>. HIDE DEF off, At2
  <2>4. \A n : SameForJumps(rl, Render(At2(n)))
    BY <2>3, RedrawnSame
  <2>. QED BY <2>1, <2>2, <2>4, RailQuiet
<1>10. CASE ClearSelection
  <2>. DEFINE off == ReleaseIntent(rl)
              none == [off EXCEPT !.selected = None]
  <2>1. SameForJumps(rl, off)
    BY FlagsSame
  <2>2. RailFits(off)
    BY <2>1, SameFits
  <2>3. UNCHANGED rljumps /\ (rl' = Repick(off) \/ rl' = Repick(Render(none)))
    BY <1>10 DEF ClearSelection
  <2>. HIDE DEF off
  <2>4. SameForJumps(off, none)
    BY <2>2 DEF SameForJumps, RailFits, JumpKeys
  <2>. HIDE DEF none
  <2>5. SameForJumps(rl, Repick(off)) /\ SameForJumps(rl, Repick(Render(none)))
    BY <2>1, <2>4, SameTwice, RedrawnSame
  <2>. QED BY <2>3, <2>5, RailQuiet
<1>11. CASE IntentExpires
  BY <1>11, FlagsSame, RailQuiet DEF IntentExpires
<1>12. CASE Click
  BY <1>12, ClickFits
<1>13. ASSUME NEW j \in rljumps, PageIn(j) PROVE RailInv'
  <2>1. CASE At(j, "paged") /\ UNCHANGED rl
    BY <2>1, AtFits
  <2>2. CASE EndJump(j)
    BY <2>2, EndJumpFits
  <2>3. CASE UNCHANGED <<rl, rljumps>>
    BY <2>3
  <2>. QED BY <1>13, <2>1, <2>2, <2>3 DEF PageIn
<1>14. ASSUME NEW j \in rljumps, BuildBody(j) \/ BodyBuilt(j) PROVE RailInv'
  BY <1>14, GoesFits DEF BuildBody, BodyBuilt
<1>15. ASSUME NEW j \in rljumps, Land(j) \/ CorrectLanding(j) PROVE RailInv'
  BY <1>15, LandFits
<1>16. CASE UNCHANGED rlvars
  BY <1>16 DEF rlvars
<1>. QED
  BY <1>1, <1>2, <1>3, <1>4, <1>5, <1>6, <1>7, <1>8, <1>9, <1>10, <1>11, <1>12, <1>13, <1>14, <1>15, <1>16
  DEF RailNext

\* The scroller goes only where the last jump asked it to, in any number of chats with any
\* number of turns, whatever clicks, switches, rewinds and reads come in between.
THEOREM RailLandsAsAsked == RailSpec => LandsAsAsked
<1>1. RailInit => RailInv
  BY RailInitFits
<1>2. RailInv /\ [RailNext]_rlvars => RailInv' /\ LandsWhereAsked
  BY RailStep
<1>. QED BY <1>1, <1>2, PTL DEF RailSpec, LandsAsAsked

----------------------------------------------------------------------------
(* The reader's place.                                                     *)

BoxKeys == {"top", "high", "view", "above", "aim", "target", "prev", "deferred", "tail",
            "state", "epoch", "loading", "grew"}

\* The scroll box, as far as its offset depends on it.
BoxFits(r) ==
    /\ BoxKeys \subseteq DOMAIN r
    /\ r.top \in Int /\ 0 <= r.top
    /\ r.high \in Int /\ r.view \in Int /\ r.above \in Int /\ r.aim \in Int /\ r.target \in Int
    /\ r.prev \in Int /\ r.deferred \in Int /\ r.tail \in Int
    /\ r.state \in {"reading", "following"}

\* A page that is out is measured from the height the transcript still has, unless that
\* changed meanwhile, and then it is known to have.
Measured(r) == r.loading /\ ~r.grew => r.prev = r.high

ReaderInv ==
    /\ BoxFits(rd) /\ Measured(rd)
    /\ rdparked.top \in Int /\ rdparked.high \in Int /\ rdparked.above \in Int
    /\ rdparked.state \in {"reading", "following"}

\* Nothing of the box has changed, or nothing but where it stands.
SameSize(r, s) ==
    /\ DOMAIN s = DOMAIN r
    /\ s.high = r.high /\ s.view = r.view /\ s.above = r.above
    /\ s.prev = r.prev /\ s.deferred = r.deferred /\ s.tail = r.tail
    /\ s.loading = r.loading /\ s.grew = r.grew
SameBox(r, s) ==
    SameSize(r, s) /\ s.top = r.top /\ s.aim = r.aim /\ s.target = r.target
                   /\ s.state = r.state /\ s.epoch = r.epoch

\* The line at the top of the view stays, or the box ends.
Stays(r, s) ==
    \/ s.top - s.above = r.top - r.above
    \/ s.top = Limit(s) /\ s.top - s.above < r.top - r.above

\* The box's end is never above its beginning.
LEMMA LimitIs ==
    ASSUME NEW r, r.high \in Int, r.view \in Int
    PROVE  /\ Limit(r) \in Int /\ 0 <= Limit(r)
           /\ \A t \in Int : Clamped(r, t) \in Int /\ 0 <= Clamped(r, t)
  BY DEF Limit, Clamped

\* The box is as it was.
LEMMA SameBoxFits ==
    ASSUME NEW r, NEW s, BoxFits(r), SameBox(r, s)
    PROVE  BoxFits(s) /\ (Measured(r) => Measured(s)) /\ Stays(r, s)
  BY DEF BoxFits, SameBox, SameSize, Measured, Stays

\* And twice the same is the same.
LEMMA SameBoxTwice ==
    ASSUME NEW r, NEW s, NEW t, SameBox(r, s), SameBox(s, t)
    PROVE  SameBox(r, t)
  BY DEF SameBox, SameSize

\* An offset that is set stays inside the box, and changes nothing else of it.
LEMMA PlacedIs ==
    ASSUME NEW r, BoxFits(r), NEW t \in Int
    PROVE  LET s == Placed(r, t)
           IN  /\ BoxFits(s) /\ SameSize(r, s) /\ s.state = r.state /\ s.epoch = r.epoch
               /\ s.target = r.target
               /\ s.top = Clamped(r, t) /\ Limit(s) = Limit(r)
               /\ Measured(r) => Measured(s)
<1>. DEFINE s == Placed(r, t)
<1>1. /\ SameSize(r, s) /\ s.state = r.state /\ s.epoch = r.epoch /\ s.target = r.target
      /\ s.top = Clamped(r, t) /\ s.aim = NoAim
  BY DEF BoxFits, BoxKeys, Placed, SameSize
<1>2. Clamped(r, t) \in Int /\ 0 <= Clamped(r, t)
  BY LimitIs DEF BoxFits
<1>. HIDE DEF s
<1>3. BoxFits(s)
  BY <1>1, <1>2 DEF BoxFits, SameSize, NoAim
<1>4. Limit(s) = Limit(r)
  BY <1>1 DEF Limit, SameSize
<1>5. Measured(r) => Measured(s)
  BY <1>1 DEF Measured, SameSize
<1>. QED BY <1>1, <1>3, <1>4, <1>5 DEF s

\* A scroll of the controller is an offset set at once, or an aim taken.
LEMMA ScrollSelfToIs ==
    ASSUME NEW r, BoxFits(r), NEW t \in Int, NEW behavior
    PROVE  LET s == ScrollSelfTo(r, t, behavior)
           IN  /\ BoxFits(s) /\ SameSize(r, s) /\ s.state = r.state /\ s.epoch = r.epoch
               /\ Limit(s) = Limit(r)
               /\ Measured(r) => Measured(s)
               /\ behavior = "instant" => s.top = Clamped(r, t)
<1>. DEFINE s == [r EXCEPT !.aim = Clamped(r, t)]
<1>1. SameSize(r, s) /\ s.state = r.state /\ s.epoch = r.epoch /\ s.target = r.target
      /\ s.top = r.top /\ s.aim = Clamped(r, t)
  BY DEF BoxFits, BoxKeys, SameSize
<1>2. Clamped(r, t) \in Int
  BY LimitIs DEF BoxFits
<1>. HIDE DEF s
<1>3. BoxFits(s) /\ Limit(s) = Limit(r) /\ (Measured(r) => Measured(s))
  BY <1>1, <1>2 DEF BoxFits, SameSize, Limit, Measured
<1>4. ScrollSelfTo(r, t, behavior) = IF behavior = "smooth" THEN s ELSE Placed(r, t)
  BY DEF ScrollSelfTo, s
<1>5. CASE behavior = "smooth"
  <2>1. ScrollSelfTo(r, t, behavior) = s
    BY <1>4, <1>5
  <2>. QED BY <2>1, <1>5, <1>1, <1>3
<1>6. CASE behavior # "smooth"
  <2>1. ScrollSelfTo(r, t, behavior) = Placed(r, t)
    BY <1>4, <1>6
  <2>. QED BY <2>1, PlacedIs
<1>. QED BY <1>5, <1>6

\* Content that appears or goes: the height and what is above follow, the offset stays
\* unless the box has become too short for it, and a page that is out takes notice.
LEMMA SizedIs ==
    ASSUME NEW r, BoxFits(r), NEW n \in Int, NEW where
    PROVE  LET s == Sized(r, n, where)
           IN  /\ BoxFits(s) /\ DOMAIN s = DOMAIN r
               /\ s.state = r.state /\ s.epoch = r.epoch /\ s.target = r.target
               /\ s.view = r.view /\ s.high = r.high + n
               /\ s.above = (IF where = "above" THEN r.above + n ELSE r.above)
               /\ s.loading = r.loading /\ s.prev = r.prev /\ s.deferred = r.deferred
               /\ ~s.loading \/ s.grew
               /\ s.top = IF r.top > Limit(s) THEN Limit(s) ELSE r.top
<1>. DEFINE g == [r EXCEPT !.high = @ + n, !.due = @ \cup {"resize"}, !.grew = @ \/ r.loading,
                           !.above = IF where = "above" THEN @ + n ELSE @]
<1>1. /\ DOMAIN g = DOMAIN r
      /\ g.state = r.state /\ g.epoch = r.epoch /\ g.target = r.target /\ g.aim = r.aim
      /\ g.view = r.view /\ g.high = r.high + n /\ g.top = r.top
      /\ g.above = (IF where = "above" THEN r.above + n ELSE r.above)
      /\ g.loading = r.loading /\ g.prev = r.prev /\ g.deferred = r.deferred /\ g.tail = r.tail
  BY DEF BoxFits, BoxKeys
<1>2. ~g.loading \/ g.grew
  BY DEF BoxFits, BoxKeys
<1>. HIDE DEF g
<1>3. BoxFits(g)
  BY <1>1 DEF BoxFits
<1>4. Sized(r, n, where) = IF g.top > Limit(g) THEN Placed(g, g.top) ELSE g
  BY DEF Sized, g
<1>5. CASE g.top > Limit(g)
  <2>. DEFINE s == Placed(g, g.top)
  <2>1. BoxFits(s) /\ SameSize(g, s) /\ s.state = g.state /\ s.epoch = g.epoch
        /\ s.target = g.target /\ s.top = Clamped(g, g.top) /\ Limit(s) = Limit(g)
    BY <1>3, PlacedIs DEF BoxFits
  <2>2. Clamped(g, g.top) = Limit(g)
    BY <1>3, <1>5, LimitIs DEF Clamped, BoxFits
  <2>3. Sized(r, n, where) = s
    BY <1>4, <1>5
  <2>. HIDE DEF s
  <2>4. ~s.loading \/ s.grew
    BY <2>1, <1>2 DEF SameSize
  <2>5. s.top = IF r.top > Limit(s) THEN Limit(s) ELSE r.top
    BY <2>1, <2>2, <1>1, <1>5
  <2>6. /\ DOMAIN s = DOMAIN r /\ s.state = r.state /\ s.epoch = r.epoch /\ s.target = r.target
        /\ s.view = r.view /\ s.high = r.high + n
        /\ s.above = (IF where = "above" THEN r.above + n ELSE r.above)
        /\ s.loading = r.loading /\ s.prev = r.prev /\ s.deferred = r.deferred
    BY <2>1, <1>1 DEF SameSize
  <2>. QED BY <2>1, <2>3, <2>4, <2>5, <2>6
<1>6. CASE ~(g.top > Limit(g))
  <2>1. Sized(r, n, where) = g
    BY <1>4, <1>6
  <2>2. g.top = IF r.top > Limit(g) THEN Limit(g) ELSE r.top
    BY <1>1, <1>6
  <2>. QED BY <2>1, <2>2, <1>1, <1>2, <1>3
<1>. QED BY <1>5, <1>6

\* A change of state flushes what was put off, or leaves the box as it is.
LEMMA SetStateIs ==
    ASSUME NEW r, BoxFits(r), NEW next \in {"reading", "following"}
    PROVE  LET s == SetState(r, next)
           IN  /\ BoxFits(s) /\ (Measured(r) => Measured(s))
               /\ s.state = next /\ s.epoch = r.epoch /\ s.loading = r.loading
               /\ r.state = next => SameBox(r, s)
<1>. DEFINE asked == [r EXCEPT !.up = @ /\ next = "reading"]
<1>1. SameBox(r, asked)
  BY DEF BoxFits, BoxKeys, SameBox, SameSize
<1>2. BoxFits(asked) /\ (Measured(r) => Measured(asked))
  BY <1>1, SameBoxFits
<1>. HIDE DEF asked
<1>3. CASE r.state = next
  <2>1. SetState(r, next) = asked
    BY <1>3 DEF SetState, asked
  <2>. QED BY <2>1, <1>1, <1>2, <1>3 DEF SameBox, SameSize
<1>4. CASE r.state # next /\ next = "reading"
  <2>. DEFINE s == [asked EXCEPT !.state = next, !.edge = FALSE]
  <2>1. SetState(r, next) = s
    BY <1>4 DEF SetState, asked
  <2>2. SameSize(asked, s) /\ s.top = asked.top /\ s.aim = asked.aim /\ s.target = asked.target
        /\ s.state = next /\ s.epoch = asked.epoch
    BY <1>2 DEF BoxFits, BoxKeys, SameSize
  <2>. HIDE DEF s
  <2>3. BoxFits(s) /\ (Measured(asked) => Measured(s))
    BY <2>2, <1>2 DEF BoxFits, SameSize, Measured
  <2>4. s.epoch = r.epoch /\ s.loading = r.loading
    BY <2>2, <1>1 DEF SameBox, SameSize
  <2>. QED BY <2>1, <2>2, <2>3, <2>4, <1>2, <1>4
<1>5. CASE r.state # next /\ next = "following"
  <2>. DEFINE s == [asked EXCEPT !.state = next]
              d == [s EXCEPT !.deferred = 0]
  <2>1. SetState(r, next) = FlushDeferred(s)
    BY <1>5 DEF SetState, asked
  <2>2. SameSize(asked, s) /\ s.top = asked.top /\ s.aim = asked.aim /\ s.target = asked.target
        /\ s.state = next /\ s.epoch = asked.epoch
    BY <1>2 DEF BoxFits, BoxKeys, SameSize
  <2>. HIDE DEF s
  <2>3. BoxFits(s) /\ (Measured(asked) => Measured(s))
    BY <2>2, <1>2 DEF BoxFits, SameSize, Measured
  <2>4. s.epoch = r.epoch /\ s.loading = r.loading
    BY <2>2, <1>1 DEF SameBox, SameSize
  <2>5. BoxFits(d) /\ d.state = s.state /\ d.epoch = s.epoch /\ d.loading = s.loading
    BY <2>3 DEF BoxFits, BoxKeys
  <2>. HIDE DEF d
  <2>. DEFINE f == Sized(d, -s.deferred, "above")
  <2>6. BoxFits(f) /\ f.state = next /\ f.epoch = r.epoch /\ f.loading = r.loading
        /\ (~f.loading \/ f.grew)
    <3>1. -s.deferred \in Int
      BY <2>3 DEF BoxFits
    <3>. QED BY <3>1, <2>5, <2>2, <2>4, SizedIs
  <2>7. FlushDeferred(s) = IF s.deferred = 0 THEN s ELSE f
    BY DEF FlushDeferred, d
  <2>. HIDE DEF f
  <2>8. Measured(f)
    BY <2>6 DEF Measured
  <2>9. CASE s.deferred = 0
    BY <2>1, <2>2, <2>3, <2>4, <2>7, <2>9, <1>2, <1>5
  <2>10. CASE s.deferred # 0
    BY <2>1, <2>6, <2>7, <2>8, <2>10, <1>5
  <2>. QED BY <2>9, <2>10
<1>. QED BY <1>3, <1>4, <1>5

\* A step after which somebody is still reading has left the box as it was.
LeavesReader(r, s) ==
    /\ BoxFits(s) /\ (Measured(r) => Measured(s))
    /\ s.epoch = r.epoch /\ s.loading = r.loading
    /\ s.state = "reading" => SameBox(r, s)

\* Nothing happened, as far as the box goes.
LEMMA SameSettles ==
    ASSUME NEW r, NEW s, BoxFits(r), SameBox(r, s)
    PROVE  LeavesReader(r, s)
  BY SameBoxFits DEF LeavesReader, SameBox, SameSize

\* And the two in a row.
LEMMA SettlesTwice ==
    ASSUME NEW r, NEW s, NEW t, LeavesReader(r, s), LeavesReader(s, t)
    PROVE  LeavesReader(r, t)
<1>1. BoxFits(t) /\ (Measured(r) => Measured(t)) /\ t.epoch = r.epoch /\ t.loading = r.loading
  BY DEF LeavesReader
<1>2. ASSUME t.state = "reading" PROVE SameBox(r, t)
  <2>1. SameBox(s, t) /\ s.state = "reading"
    BY <1>2 DEF LeavesReader, SameBox
  <2>. QED BY <2>1, SameBoxTwice DEF LeavesReader
<1>. QED BY <1>1, <1>2 DEF LeavesReader

\* Reading is released, or stays as it is.
LEMMA RevalidateSettles ==
    ASSUME NEW r, BoxFits(r), NEW atBottom
    PROVE  LeavesReader(r, RevalidateReadingState(r, atBottom))
<1>1. LeavesReader(r, r)
  BY SameSettles DEF SameBox, SameSize
<1>2. LeavesReader(r, SetState(r, "following"))
  BY SetStateIs DEF LeavesReader
<1>. QED BY <1>1, <1>2 DEF RevalidateReadingState

\* A frame is asked for.
LEMMA AutoScrollSame ==
    ASSUME NEW r, BoxFits(r)
    PROVE  SameBox(r, AutoScrollIfAnchored(r))
  BY DEF BoxFits, BoxKeys, SameBox, SameSize, AutoScrollIfAnchored

\* What the observer of mutations does.
LEMMA MutatedSettles ==
    ASSUME NEW r, BoxFits(r)
    PROVE  LeavesReader(r, Mutated(r))
<1>. DEFINE v == RevalidateReadingState(r, r.edge)
<1>1. LeavesReader(r, v)
  BY RevalidateSettles
<1>2. BoxFits(v)
  BY <1>1 DEF LeavesReader
<1>. HIDE DEF v
<1>3. LeavesReader(v, AutoScrollIfAnchored(v))
  BY <1>2, AutoScrollSame, SameSettles
<1>. QED BY <1>1, <1>3, SettlesTwice DEF Mutated, v

\* A page that is asked for is measured from the height of that moment.
LEMMA MaybeLoadMoreIs ==
    ASSUME NEW r, BoxFits(r), Measured(r), NEW force
    PROVE  LET s == MaybeLoadMore(r, force)
           IN  /\ BoxFits(s) /\ Measured(s)
               /\ s.state = r.state /\ s.top = r.top /\ s.above = r.above
<1>. DEFINE s == [r EXCEPT !.loading = TRUE, !.prev = r.high, !.grew = FALSE]
<1>1. /\ DOMAIN s = DOMAIN r /\ s.prev = r.high /\ s.high = r.high
      /\ s.top = r.top /\ s.view = r.view /\ s.above = r.above /\ s.aim = r.aim
      /\ s.target = r.target /\ s.deferred = r.deferred /\ s.tail = r.tail /\ s.state = r.state
  BY DEF BoxFits, BoxKeys
<1>. HIDE DEF s
<1>2. BoxFits(s) /\ Measured(s)
  BY <1>1 DEF BoxFits, Measured
<1>3. MaybeLoadMore(r, force) = s \/ MaybeLoadMore(r, force) = r
  BY DEF MaybeLoadMore, s
<1>. QED BY <1>1, <1>2, <1>3

\* A pass that ends leaves no page out.
LEMMA EndLoadPassIs ==
    ASSUME NEW r, BoxFits(r)
    PROVE  LET s == EndLoadPass(r)
           IN  /\ BoxFits(s) /\ ~s.loading /\ Measured(s)
               /\ s.state = r.state /\ s.top = r.top /\ s.above = r.above /\ s.high = r.high
               /\ s.view = r.view /\ s.epoch = r.epoch
<1>. DEFINE s == EndLoadPass(r)
<1>1. /\ DOMAIN s = DOMAIN r /\ s.prev = 0 /\ s.loading = FALSE
      /\ s.state = r.state /\ s.top = r.top /\ s.above = r.above /\ s.high = r.high
      /\ s.view = r.view /\ s.epoch = r.epoch /\ s.aim = r.aim /\ s.target = r.target
      /\ s.deferred = r.deferred /\ s.tail = r.tail
  BY DEF BoxFits, BoxKeys, EndLoadPass
<1>. HIDE DEF s
<1>2. BoxFits(s) /\ ~s.loading /\ Measured(s)
  BY <1>1 DEF BoxFits, Measured
<1>. QED BY <1>1, <1>2 DEF s

\* What appears above a reader and is made up for leaves them where they read.
LEMMA MadeUpStays ==
    ASSUME NEW r, BoxFits(r), NEW n \in Nat, NEW p, BoxFits(p), NEW h,
           h = Sized(r, n, "above"), p.top = h.top, p.high = h.high, p.view = h.view, p.above = h.above,
           NEW t \in Int, t = p.top + n
    PROVE  Stays(r, ScrollSelfTo(p, t, "instant"))
<1>. DEFINE s == ScrollSelfTo(p, t, "instant")
<1>1. SameSize(p, s) /\ s.top = Clamped(p, t) /\ Limit(s) = Limit(p)
  BY ScrollSelfToIs
<1>2. h.above = r.above + n /\ h.top = IF r.top > Limit(h) THEN Limit(h) ELSE r.top
  BY SizedIs
<1>3. Limit(p) = Limit(h) /\ Limit(h) \in Int /\ 0 <= Limit(h)
  BY LimitIs DEF BoxFits, Limit
<1>4. s.above = r.above + n /\ r.above \in Int /\ r.top \in Int /\ 0 <= r.top
  BY <1>1, <1>2 DEF SameSize, BoxFits
<1>. HIDE DEF s
<1>5. s.top = IF t < 0 THEN 0 ELSE IF t > Limit(s) THEN Limit(s) ELSE t
  BY <1>1 DEF Clamped
<1>8. Limit(s) = Limit(h) /\ Limit(s) \in Int
  BY <1>1, <1>3
<1>6. CASE r.top > Limit(h)
  <2>1. t = Limit(s) + n
    BY <1>1, <1>2, <1>3, <1>6
  <2>2. s.top = Limit(s)
    BY <2>1, <1>5, <1>1, <1>3
  <2>3. s.top - s.above < r.top - r.above
    <3>1. s.top < r.top /\ s.top \in Int
      BY <2>2, <1>8, <1>6
    <3>. QED BY <3>1, <1>4
  <2>. QED BY <2>2, <2>3 DEF Stays, s
<1>7. CASE ~(r.top > Limit(h))
  <2>1. t = r.top + n /\ t >= 0
    BY <1>2, <1>4, <1>7
  <2>2. CASE t > Limit(s)
    <3>1. s.top = Limit(s)
      BY <2>1, <2>2, <1>5, <1>1, <1>3
    <3>2. s.top - s.above < r.top - r.above
      <4>1. s.top < r.top + n /\ s.top \in Int
        BY <3>1, <2>1, <2>2, <1>8
      <4>. QED BY <4>1, <1>4
    <3>. QED BY <3>1, <3>2 DEF Stays, s
  <2>3. CASE ~(t > Limit(s))
    <3>1. s.top = t
      BY <2>1, <2>3, <1>5, <1>1, <1>3
    <3>2. s.top - s.above = r.top - r.above
      BY <3>1, <2>1, <1>4
    <3>. QED BY <3>2 DEF Stays, s
  <2>. QED BY <2>2, <2>3
<1>. QED BY <1>6, <1>7

\* What appears or goes below a reader leaves them where they read.
LEMMA BelowStays ==
    ASSUME NEW r, BoxFits(r), NEW n \in Int
    PROVE  Stays(r, Sized(r, n, "below"))
<1>. DEFINE s == Sized(r, n, "below")
<1>1. s.above = r.above /\ s.top = IF r.top > Limit(s) THEN Limit(s) ELSE r.top
  BY SizedIs
<1>2. BoxFits(s)
  BY SizedIs
<1>. HIDE DEF s
<1>3. Limit(s) \in Int
  BY <1>2, LimitIs DEF BoxFits
<1>4. r.top \in Int /\ r.above \in Int
  BY DEF BoxFits
<1>. QED BY <1>1, <1>3, <1>4 DEF Stays, s

\* Both at once.
Fits(r) == BoxFits(r) /\ Measured(r)

\* A step that is the same for the box, and stays, whoever reads.
LEMMA StaysOn ==
    ASSUME NEW r, NEW m, NEW s, Stays(r, m), SameBox(m, s)
    PROVE  Stays(r, s)
  BY DEF Stays, SameBox, SameSize, Limit

\* A flight's aim does not move anybody yet.
LEMMA AimFits ==
    ASSUME NEW r, Fits(r), NEW a \in Int
    PROVE  Fits([r EXCEPT !.aim = a])
<1>. DEFINE s == [r EXCEPT !.aim = a]
<1>1. SameSize(r, s) /\ s.top = r.top /\ s.aim = a /\ s.target = r.target /\ s.state = r.state
  BY DEF Fits, BoxFits, BoxKeys, SameSize
<1>. HIDE DEF s
<1>2. Fits(s)
  BY <1>1 DEF Fits, BoxFits, SameSize, Measured
<1>. QED BY <1>2 DEF s

\* Nor does the epoch, with its target.
LEMMA EpochFits ==
    ASSUME NEW r, Fits(r), NEW e, NEW a \in Int
    PROVE  LET s == [r EXCEPT !.epoch = e, !.target = a]
           IN  Fits(s) /\ s.state = r.state /\ s.top = r.top /\ s.above = r.above
<1>. DEFINE s == [r EXCEPT !.epoch = e, !.target = a]
<1>1. SameSize(r, s) /\ s.top = r.top /\ s.aim = r.aim /\ s.target = a /\ s.state = r.state
  BY DEF Fits, BoxFits, BoxKeys, SameSize
<1>. HIDE DEF s
<1>2. Fits(s)
  BY <1>1 DEF Fits, BoxFits, SameSize, Measured
<1>. QED BY <1>1, <1>2 DEF s, SameSize

\* Nor the target alone.
LEMMA TargetFits ==
    ASSUME NEW r, Fits(r), NEW a \in Int
    PROVE  Fits([r EXCEPT !.target = a])
<1>. DEFINE s == [r EXCEPT !.target = a]
<1>1. SameSize(r, s) /\ s.top = r.top /\ s.aim = r.aim /\ s.target = a /\ s.state = r.state
  BY DEF Fits, BoxFits, BoxKeys, SameSize
<1>. HIDE DEF s
<1>2. Fits(s)
  BY <1>1 DEF Fits, BoxFits, SameSize, Measured
<1>. QED BY <1>2 DEF s

\* The end of an epoch, and a gesture, which ends one.
LEMMA MarkInputFits ==
    ASSUME NEW r, Fits(r)
    PROVE  /\ Fits(EndSelfScroll(r)) /\ EndSelfScroll(r).state = r.state
           /\ EndSelfScroll(r).top = r.top /\ EndSelfScroll(r).above = r.above
           /\ \A dir : Fits(MarkInput(r, dir))
<1>. DEFINE s == EndSelfScroll(r)
<1>1. Fits(s) /\ s.state = r.state /\ s.top = r.top /\ s.above = r.above
  <2>1. 0 \in Int
    OBVIOUS
  <2>. QED BY <2>1, EpochFits, Zenon DEF EndSelfScroll
<1>. HIDE DEF s
<1>2. ASSUME NEW dir PROVE Fits(MarkInput(r, dir))
  <2>1. SameBox(s, MarkInput(r, dir))
    BY <1>1 DEF MarkInput, s, Fits, BoxFits, BoxKeys, SameBox, SameSize
  <2>. QED BY <2>1, <1>1, SameBoxFits DEF Fits
<1>. QED BY <1>1, <1>2 DEF s

\* What is followed is a height.
LEMMA PinNowFits ==
    ASSUME NEW r, Fits(r)
    PROVE  /\ FollowTarget(r) \in Int
           /\ Fits(PinLiveEdgeNow(r)) /\ PinLiveEdgeNow(r).state = r.state
<1>1. FollowTarget(r) \in Int
  BY DEF Fits, BoxFits, FollowTarget
<1>. DEFINE s == ScrollSelfTo(r, FollowTarget(r), "instant")
<1>2. Fits(s) /\ s.state = r.state
  BY <1>1, ScrollSelfToIs DEF Fits
<1>3. PinLiveEdgeNow(r) = r \/ PinLiveEdgeNow(r) = s
  BY DEF PinLiveEdgeNow
<1>. HIDE DEF s
<1>. QED BY <1>1, <1>2, <1>3

\* The chat shown lets go of the box, with no page out.
LEMMA DetachedFits ==
    ASSUME NEW r, Fits(r)
    PROVE  Fits(Detached(r)) /\ Detached(r).state = "following" /\ ~Detached(r).loading
<1>. DEFINE a == [r EXCEPT !.deferred = 0, !.reval = FALSE, !.more = FALSE, !.due = @ \ {"resize"}]
            b == EndLoadPass(a)
            c == CancelPinPass(b)
            d == EndSelfScroll(c)
            e == ForgetReaderGesture(d)
<1>1. BoxFits(a)
  <2>1. /\ DOMAIN a = DOMAIN r /\ a.top = r.top /\ a.high = r.high /\ a.view = r.view
        /\ a.above = r.above /\ a.aim = r.aim /\ a.target = r.target /\ a.prev = r.prev
        /\ a.deferred = 0 /\ a.tail = r.tail /\ a.state = r.state
    BY DEF Fits, BoxFits, BoxKeys
  <2>. HIDE DEF a
  <2>. QED BY <2>1 DEF Fits, BoxFits
<1>. HIDE DEF a
<1>2. Fits(b) /\ ~b.loading
  BY <1>1, EndLoadPassIs DEF Fits
<1>. HIDE DEF b
<1>3. SameBox(b, c)
  BY <1>2 DEF CancelPinPass, Fits, BoxFits, BoxKeys, SameBox, SameSize
<1>4. Fits(c) /\ ~c.loading
  BY <1>2, <1>3, SameBoxFits DEF Fits, SameBox, SameSize
<1>. HIDE DEF c
<1>5. Fits(d) /\ ~d.loading
  BY <1>4, MarkInputFits DEF EndSelfScroll, Fits, BoxFits, BoxKeys
<1>. HIDE DEF d
<1>6. SameBox(d, e)
  BY <1>5 DEF ForgetReaderGesture, Fits, BoxFits, BoxKeys, SameBox, SameSize
<1>7. Fits(e) /\ ~e.loading
  BY <1>5, <1>6, SameBoxFits DEF Fits, SameBox, SameSize
<1>. HIDE DEF e
<1>8. Detached(r) = SetState(e, "following")
  BY DEF Detached, e, d, c, b, a
<1>9. Fits(SetState(e, "following")) /\ SetState(e, "following").state = "following"
      /\ SetState(e, "following").loading = e.loading
  BY <1>7, SetStateIs DEF Fits
<1>. QED BY <1>7, <1>8, <1>9

\* What a step on its own owes somebody who reads.
StayPut(r, s) ==
    r.state = "reading" /\ s.state = "reading" /\ ~r.epoch /\ ~(r.grew /\ ~s.loading) => Stays(r, s)

\* Whatever leaves the box, or leaves it once reading is over.
LEMMA SettlesPut ==
    ASSUME NEW r, NEW s, Fits(r), LeavesReader(r, s)
    PROVE  Fits(s) /\ StayPut(r, s)
  BY SameBoxFits DEF LeavesReader, StayPut, Fits

\* And whatever leaves it.
LEMMA SamePut ==
    ASSUME NEW r, NEW s, Fits(r), SameBox(r, s)
    PROVE  Fits(s) /\ StayPut(r, s)
  BY SameBoxFits DEF StayPut, Fits

\* The same when something the box does not depend on was noted first.
LEMMA NotedPut ==
    ASSUME NEW r, NEW m, NEW s, Fits(r), SameBox(r, m), LeavesReader(m, s)
    PROVE  Fits(s) /\ StayPut(r, s)
<1>1. LeavesReader(r, m)
  BY SameSettles DEF Fits
<1>2. LeavesReader(r, s)
  BY <1>1, SettlesTwice
<1>. QED BY <1>2, SettlesPut

\* A step that leaves the offset and what is above it.
LEMMA UnmovedPut ==
    ASSUME NEW r, NEW s, s.top = r.top, s.above = r.above
    PROVE  StayPut(r, s)
  BY DEF StayPut, Stays

\* A scroll event tells where the box stands, and may ask for a page.
LEMMA ScrollEventPut ==
    ASSUME Fits(rd), ScrollEvent
    PROVE  Fits(rd') /\ StayPut(rd, rd')
<1>. DEFINE got == [rd EXCEPT !.due = @ \ {"scroll"}]
            edge == IsAtBottom(rd) /\ ~ParkedByOwnAim(rd)
            told == [got EXCEPT !.edge = edge]
            stated == IF rd.epoch THEN got
                      ELSE IF edge THEN SetState(told, "following")
                      ELSE IF rd.up THEN SetState(told, "reading") ELSE told
<1>1. SameBox(rd, got)
  BY DEF Fits, BoxFits, BoxKeys, SameBox, SameSize
<1>2. Fits(got)
  BY <1>1, SameBoxFits DEF Fits
<1>3. rd' = MaybeLoadMore(stated, FALSE)
  BY DEF ScrollEvent
<1>. HIDE DEF got, edge
<1>4. SameBox(got, told)
  BY <1>2 DEF Fits, BoxFits, BoxKeys, SameBox, SameSize
<1>5. SameBox(rd, told) /\ Fits(told)
  BY <1>1, <1>2, <1>4, SameBoxFits, SameBoxTwice DEF Fits
<1>. HIDE DEF told
<1>6. /\ Fits(stated)
      /\ rd.state = "reading" /\ stated.state = "reading" => SameBox(rd, stated)
  <2>1. Fits(SetState(told, "following")) /\ SetState(told, "following").state = "following"
    BY <1>5, SetStateIs DEF Fits
  <2>2. Fits(SetState(told, "reading"))
    BY <1>5, SetStateIs DEF Fits
  <2>3. rd.state = "reading" => SameBox(rd, SetState(told, "reading"))
    <3>1. ASSUME rd.state = "reading" PROVE SameBox(told, SetState(told, "reading"))
      BY <3>1, <1>5, SetStateIs DEF Fits, SameBox
    <3>. QED BY <3>1, <1>5, SameBoxTwice
  <2>. QED BY <2>1, <2>2, <2>3, <1>1, <1>2, <1>5
<1>. HIDE DEF stated
<1>7. /\ Fits(rd') /\ rd'.state = stated.state /\ rd'.top = stated.top /\ rd'.above = stated.above
  BY <1>3, <1>6, MaybeLoadMoreIs DEF Fits
<1>8. ASSUME rd.state = "reading", rd'.state = "reading" PROVE Stays(rd, rd')
  BY <1>6, <1>7, <1>8 DEF SameBox, SameSize, Stays
<1>. QED BY <1>7, <1>8 DEF StayPut

\* What the box is told, and the frames it queued.
LEMMA NotedSteps ==
    ASSUME Fits(rd),
           \/ ControlEnds \/ EpochEnds \/ ScrollEnd \/ ResizeDelivered \/ EdgeDelivered
           \/ RevalidateFrame \/ FollowFrame \/ PinExpires \/ PinFrame
    PROVE  Fits(rd') /\ StayPut(rd, rd')
<1>0. BoxFits(rd)
  BY DEF Fits
<1>1. CASE ControlEnds
  <2>1. SameBox(rd, rd')
    BY <1>0, <1>1 DEF ControlEnds, BoxFits, BoxKeys, SameBox, SameSize
  <2>. QED BY <2>1, SamePut
<1>2. CASE EpochEnds
  <2>1. rd' = EndSelfScroll(rd)
    BY <1>2 DEF EpochEnds
  <2>. QED BY <2>1, MarkInputFits, UnmovedPut
<1>3. CASE ScrollEnd
  <2>. DEFINE m == [rd EXCEPT !.due = @ \ {"scrollend"}]
  <2>1. rd' = EndSelfScroll(m)
    BY <1>3 DEF ScrollEnd
  <2>2. SameBox(rd, m)
    BY <1>0 DEF BoxFits, BoxKeys, SameBox, SameSize
  <2>. HIDE DEF m
  <2>3. Fits(m)
    BY <2>2, SamePut
  <2>4. Fits(rd') /\ rd'.top = rd.top /\ rd'.above = rd.above
    BY <2>1, <2>2, <2>3, MarkInputFits DEF SameBox, SameSize
  <2>. QED BY <2>4, UnmovedPut
<1>4. CASE ResizeDelivered
  <2>. DEFINE m == [rd EXCEPT !.due = @ \ {"resize"}, !.reval = TRUE]
  <2>1. rd' = AutoScrollIfAnchored(m)
    BY <1>4 DEF ResizeDelivered
  <2>2. SameBox(rd, m)
    BY <1>0 DEF BoxFits, BoxKeys, SameBox, SameSize
  <2>. HIDE DEF m
  <2>3. BoxFits(m)
    BY <2>2, SamePut DEF Fits
  <2>. QED BY <2>1, <2>2, <2>3, AutoScrollSame, SameBoxTwice, SamePut
<1>5. CASE EdgeDelivered
  <2>. DEFINE edge == IsAtBottom(rd)
              m == [rd EXCEPT !.seen = edge, !.edge = edge]
  <2>1. rd' = RevalidateReadingState(m, edge)
    BY <1>5 DEF EdgeDelivered
  <2>2. SameBox(rd, m)
    BY <1>0 DEF BoxFits, BoxKeys, SameBox, SameSize
  <2>. HIDE DEF m, edge
  <2>3. BoxFits(m)
    BY <2>2, SamePut DEF Fits
  <2>. QED BY <2>1, <2>2, <2>3, RevalidateSettles, NotedPut
<1>6. CASE RevalidateFrame
  <2>. DEFINE m == [rd EXCEPT !.reval = FALSE]
  <2>1. rd' = RevalidateReadingState(m, IsAtBottom(rd))
    BY <1>6 DEF RevalidateFrame
  <2>2. SameBox(rd, m)
    BY <1>0 DEF BoxFits, BoxKeys, SameBox, SameSize
  <2>. HIDE DEF m
  <2>3. BoxFits(m)
    BY <2>2, SamePut DEF Fits
  <2>. QED BY <2>1, <2>2, <2>3, RevalidateSettles, NotedPut
<1>7. CASE FollowFrame
  <2>. DEFINE off == [rd EXCEPT !.raf = FALSE]
  <2>1. rd' = IF MayFollow(rd) THEN ScrollSelfTo(off, FollowTarget(rd), "instant") ELSE off
    BY <1>7 DEF FollowFrame
  <2>2. SameBox(rd, off)
    BY <1>0 DEF BoxFits, BoxKeys, SameBox, SameSize
  <2>. HIDE DEF off
  <2>3. Fits(off) /\ StayPut(rd, off)
    BY <2>2, SamePut
  <2>4. CASE MayFollow(rd)
    <3>1. Fits(rd')
      BY <2>1, <2>3, <2>4, PinNowFits, ScrollSelfToIs DEF Fits
    <3>2. rd.state # "reading"
      BY <2>4 DEF MayFollow
    <3>. QED BY <3>1, <3>2 DEF StayPut
  <2>. QED BY <2>1, <2>3, <2>4
<1>8. CASE PinExpires
  <2>1. SameBox(rd, rd')
    BY <1>0, <1>8 DEF PinExpires, BoxFits, BoxKeys, SameBox, SameSize
  <2>. QED BY <2>1, SamePut
<1>9. CASE PinFrame
  <2>. DEFINE off == [rd EXCEPT !.pinFrame = FALSE]
              p == PinLiveEdgeNow(off)
  <2>1. \/ rd' = [off EXCEPT !.pin = FALSE]
        \/ rd.state = "following" /\ rd' = [p EXCEPT !.pinFrame = TRUE]
    BY <1>9 DEF PinFrame
  <2>2. SameBox(rd, off)
    BY <1>0 DEF BoxFits, BoxKeys, SameBox, SameSize
  <2>. HIDE DEF off
  <2>3. Fits(off)
    BY <2>2, SamePut
  <2>4. SameBox(off, [off EXCEPT !.pin = FALSE])
    BY <2>3 DEF Fits, BoxFits, BoxKeys, SameBox, SameSize
  <2>5. Fits(p)
    BY <2>3, PinNowFits
  <2>. HIDE DEF p
  <2>6. SameBox(p, [p EXCEPT !.pinFrame = TRUE])
    BY <2>5 DEF Fits, BoxFits, BoxKeys, SameBox, SameSize
  <2>7. CASE rd' = [off EXCEPT !.pin = FALSE]
    BY <2>7, <2>2, <2>4, SameBoxTwice, SamePut
  <2>8. CASE rd.state = "following" /\ rd' = [p EXCEPT !.pinFrame = TRUE]
    <3>1. Fits(rd')
      BY <2>5, <2>6, <2>8, SamePut
    <3>. QED BY <3>1, <2>8 DEF StayPut
  <2>. QED BY <2>1, <2>7, <2>8
<1>. QED BY <1>1, <1>2, <1>3, <1>4, <1>5, <1>6, <1>7, <1>8, <1>9

\* Heights that change, and what the observer makes of it.
LEMMA MutatedPut ==
    ASSUME NEW r, NEW m, NEW s, Fits(m), s = Mutated(m), StayPut(r, m)
    PROVE  Fits(s) /\ StayPut(r, s)
<1>1. LeavesReader(m, s)
  BY MutatedSettles DEF Fits
<1>2. Fits(s)
  BY <1>1 DEF LeavesReader, Fits
<1>3. ASSUME r.state = "reading", s.state = "reading", ~r.epoch, ~(r.grew /\ ~s.loading)
      PROVE  Stays(r, s)
  <2>1. SameBox(m, s)
    BY <1>1, <1>3 DEF LeavesReader
  <2>2. m.state = "reading" /\ m.loading = s.loading
    BY <2>1, <1>3 DEF SameBox, SameSize
  <2>3. Stays(r, m)
    BY <2>2, <1>3 DEF StayPut
  <2>. QED BY <2>1, <2>3, StaysOn
<1>. QED BY <1>2, <1>3 DEF StayPut

\* A height that changes leaves a box that is measured.
LEMMA SizedFits ==
    ASSUME NEW r, Fits(r), NEW n \in Int, NEW where
    PROVE  Fits(Sized(r, n, where))
  BY SizedIs DEF Fits, Measured

\* What the transcript does below a reader, and to the box.
LEMMA BelowSteps ==
    ASSUME Fits(rd), Streamed \/ FoldedBelow \/ ViewportResizes \/ SetAnchor
    PROVE  Fits(rd') /\ StayPut(rd, rd')
<1>0. BoxFits(rd)
  BY DEF Fits
<1>1. ASSUME NEW n \in Int, rd' = Mutated(Sized(rd, n, "below"))
      PROVE  Fits(rd') /\ StayPut(rd, rd')
  <2>1. Fits(Sized(rd, n, "below")) /\ StayPut(rd, Sized(rd, n, "below"))
    BY <1>0, SizedFits, BelowStays DEF StayPut
  <2>. QED BY <1>1, <2>1, MutatedPut
<1>2. CASE Streamed
  BY <1>1, <1>2 DEF Streamed
<1>3. CASE FoldedBelow
  BY <1>1, <1>3 DEF FoldedBelow
<1>4. CASE ViewportResizes
  <2>1. PICK v \in Int : rd' = Placed([rd EXCEPT !.view = v], rd.top)
    BY <1>4 DEF ViewportResizes
  <2>. DEFINE p == [rd EXCEPT !.view = v]
  <2>2. /\ DOMAIN p = DOMAIN rd /\ p.top = rd.top /\ p.high = rd.high /\ p.view = v
        /\ p.above = rd.above /\ p.aim = rd.aim /\ p.target = rd.target /\ p.prev = rd.prev
        /\ p.deferred = rd.deferred /\ p.tail = rd.tail /\ p.state = rd.state
        /\ p.loading = rd.loading /\ p.grew = rd.grew
    BY <1>0 DEF BoxFits, BoxKeys
  <2>. HIDE DEF p
  <2>3. Fits(p)
    BY <2>2 DEF Fits, BoxFits, Measured
  <2>4. /\ Fits(rd') /\ rd'.above = rd.above /\ rd'.top = Clamped(p, rd.top) /\ Limit(rd') = Limit(p)
    <3>1. rd.top \in Int /\ BoxFits(p) /\ Measured(p)
      BY <1>0, <2>3 DEF BoxFits, Fits
    <3>2. rd' = Placed(p, rd.top)
      BY <2>1 DEF p
    <3>. QED BY <3>1, <3>2, <2>2, PlacedIs DEF SameSize, Fits
  <2>5. Limit(p) \in Int
    BY <2>3, LimitIs DEF Fits, BoxFits
  <2>6. Stays(rd, rd')
    BY <2>4, <2>5, <1>0 DEF Stays, Clamped, BoxFits
  <2>. QED BY <2>4, <2>6 DEF StayPut
<1>5. CASE SetAnchor
  <2>1. PICK tail \in Int : rd' = [rd EXCEPT !.tail = tail]
    BY <1>5 DEF SetAnchor
  <2>2. /\ DOMAIN rd' = DOMAIN rd /\ rd'.top = rd.top /\ rd'.high = rd.high /\ rd'.view = rd.view
        /\ rd'.above = rd.above /\ rd'.aim = rd.aim /\ rd'.target = rd.target /\ rd'.prev = rd.prev
        /\ rd'.deferred = rd.deferred /\ rd'.tail = tail /\ rd'.state = rd.state
        /\ rd'.loading = rd.loading /\ rd'.grew = rd.grew
    BY <1>0, <2>1 DEF BoxFits, BoxKeys
  <2>3. Fits(rd')
    BY <2>2 DEF Fits, BoxFits, Measured
  <2>. QED BY <2>2, <2>3, UnmovedPut
<1>. QED BY <1>2, <1>3, <1>4, <1>5

\* What is mounted above, and made up for.
LEMMA MountedAbovePut ==
    ASSUME Fits(rd), MountedAbove
    PROVE  Fits(rd') /\ StayPut(rd, rd')
<1>. DEFINE m == Sized(rd, 1, "above")
            p == PreserveReadingPosition(rd, m, 1)
            t == m.target + 1
            g == [m EXCEPT !.target = t]
            u == m.top + 1
<1>1. rd' = Mutated(p)
  BY DEF MountedAbove
<1>2. Fits(m) /\ m.epoch = rd.epoch
  <2>1. 1 \in Int /\ BoxFits(rd)
    BY DEF Fits
  <2>. QED BY <2>1, SizedFits, SizedIs
<1>3. p = IF rd.state = "following" THEN m
          ELSE IF m.epoch THEN ScrollSelfTo(g, t, "instant") ELSE ScrollSelfTo(m, u, "instant")
  BY DEF PreserveReadingPosition
<1>4. Stays(rd, ScrollSelfTo(m, u, "instant"))
  <2>. DEFINE h == Sized(rd, 1, "above")
  <2>1. BoxFits(rd) /\ BoxFits(m) /\ u \in Int /\ 1 \in Nat
    BY <1>2 DEF Fits, BoxFits
  <2>2. h = m
    OBVIOUS
  <2>. HIDE DEF m
  <2>3. h.top = m.top /\ h.high = m.high /\ h.view = m.view /\ h.above = m.above
    BY <2>2
  <2>4. h = Sized(rd, 1, "above") /\ u = m.top + 1
    OBVIOUS
  <2>. HIDE DEF h, u
  <2>. QED BY <2>1, <2>3, <2>4, MadeUpStays
<1>. HIDE DEF m
<1>5. t \in Int /\ u \in Int
  BY <1>2 DEF Fits, BoxFits
<1>6. Fits(g)
  BY <1>2, <1>5, TargetFits
<1>. HIDE DEF t, u, g
<1>7. Fits(ScrollSelfTo(g, t, "instant")) /\ Fits(ScrollSelfTo(m, u, "instant"))
  BY <1>2, <1>5, <1>6, ScrollSelfToIs DEF Fits
<1>8. Fits(p)
  BY <1>2, <1>3, <1>7
<1>9. StayPut(rd, p)
  BY <1>2, <1>3, <1>4 DEF StayPut
<1>. HIDE DEF p
<1>. QED BY <1>1, <1>8, <1>9, MutatedPut

\* What the window drops above: at once, while nobody reads.
LEMMA DropAbovePut ==
    ASSUME Fits(rd), DropAbove
    PROVE  Fits(rd') /\ StayPut(rd, rd')
<1>0. BoxFits(rd)
  BY DEF Fits
<1>1. CASE rd.state = "following"
  <2>1. rd' = Mutated(Sized(rd, -1, "above"))
    BY <1>1 DEF DropAbove
  <2>2. Fits(Sized(rd, -1, "above"))
    <3>1. -1 \in Int
      OBVIOUS
    <3>. QED BY <3>1, SizedFits
  <2>3. StayPut(rd, Sized(rd, -1, "above"))
    BY <1>1 DEF StayPut
  <2>. QED BY <2>1, <2>2, <2>3, MutatedPut
<1>2. CASE rd.state # "following"
  <2>. DEFINE s == [rd EXCEPT !.deferred = @ + 1]
  <2>1. rd' = s
    BY <1>2 DEF DropAbove
  <2>2. /\ DOMAIN s = DOMAIN rd /\ s.top = rd.top /\ s.high = rd.high /\ s.view = rd.view
        /\ s.above = rd.above /\ s.aim = rd.aim /\ s.target = rd.target /\ s.prev = rd.prev
        /\ s.deferred = rd.deferred + 1 /\ s.tail = rd.tail /\ s.state = rd.state
        /\ s.loading = rd.loading /\ s.grew = rd.grew
    BY <1>0 DEF BoxFits, BoxKeys
  <2>. HIDE DEF s
  <2>3. Fits(s)
    BY <2>2 DEF Fits, BoxFits, Measured
  <2>. QED BY <2>1, <2>2, <2>3, UnmovedPut
<1>. QED BY <1>1, <1>2

\* A page asked for by the paint or the reader.
LEMMA LoadSteps ==
    ASSUME Fits(rd), SetLoadMore \/ LoadMoreClicked \/ PageAbandoned
    PROVE  Fits(rd') /\ StayPut(rd, rd')
<1>0. BoxFits(rd)
  BY DEF Fits
<1>1. CASE SetLoadMore
  <2>1. PICK more : rd' = FillViewport([rd EXCEPT !.more = more])
    BY <1>1 DEF SetLoadMore
  <2>. DEFINE m == [rd EXCEPT !.more = more]
  <2>2. SameBox(rd, m)
    BY <1>0 DEF BoxFits, BoxKeys, SameBox, SameSize
  <2>3. rd' = m \/ rd' = MaybeLoadMore(m, TRUE)
    BY <2>1 DEF FillViewport
  <2>. HIDE DEF m
  <2>4. Fits(m)
    BY <2>2, SamePut
  <2>. DEFINE s == MaybeLoadMore(m, TRUE)
  <2>5. Fits(s) /\ s.top = m.top /\ s.above = m.above
    BY <2>4, MaybeLoadMoreIs DEF Fits
  <2>. HIDE DEF s
  <2>6. Fits(rd') /\ rd'.top = rd.top /\ rd'.above = rd.above
    BY <2>2, <2>3, <2>4, <2>5 DEF SameBox, SameSize, s
  <2>. QED BY <2>6, UnmovedPut
<1>2. CASE LoadMoreClicked
  <2>1. Fits(rd') /\ rd'.top = rd.top /\ rd'.above = rd.above
    BY <1>2, MaybeLoadMoreIs DEF Fits, LoadMoreClicked
  <2>. QED BY <2>1, UnmovedPut
<1>3. CASE PageAbandoned
  <2>1. Fits(rd') /\ rd'.top = rd.top /\ rd'.above = rd.above
    BY <1>3, EndLoadPassIs DEF Fits, PageAbandoned
  <2>. QED BY <2>1, UnmovedPut
<1>. QED BY <1>1, <1>2, <1>3

\* A page that comes is made up for by the height it was measured from.
LEMMA PageArrivesPut ==
    ASSUME Fits(rd), PageArrives
    PROVE  Fits(rd') /\ StayPut(rd, rd')
<1>0. BoxFits(rd) /\ Measured(rd) /\ rd.loading
  BY DEF Fits, PageArrives
<1>1. PICK n \in 0..1 :
         LET mounted == EndLoadPass(Mutated(Sized(rd, n, "above")))
         IN  rd' = ScrollSelfTo(mounted, mounted.top + (mounted.high - rd.prev), "instant")
  BY DEF PageArrives
<1>. DEFINE h == Sized(rd, n, "above")
            m == Mutated(h)
            e == EndLoadPass(m)
            t == e.top + (e.high - rd.prev)
<1>2. rd' = ScrollSelfTo(e, t, "instant") /\ n \in Nat /\ n \in Int
  BY <1>1
<1>3. Fits(h) /\ h.high = rd.high + n
  BY <1>0, <1>2, SizedFits, SizedIs
<1>4. h = Sized(rd, n, "above")
  OBVIOUS
<1>. HIDE DEF h
<1>5. LeavesReader(h, m)
  BY <1>3, MutatedSettles DEF Fits
<1>. HIDE DEF m
<1>6. /\ Fits(e) /\ ~e.loading /\ e.state = m.state /\ e.top = m.top /\ e.above = m.above
      /\ e.high = m.high /\ e.view = m.view
  <2>1. BoxFits(m)
    BY <1>5 DEF LeavesReader
  <2>. QED BY <2>1, EndLoadPassIs DEF Fits
<1>7. t \in Int
  BY <1>0, <1>6 DEF Fits, BoxFits
<1>. HIDE DEF e
<1>8. /\ Fits(rd') /\ rd'.state = e.state /\ rd'.loading = e.loading
  <2>1. t \in Int /\ BoxFits(e) /\ Measured(e)
    BY <1>6, <1>7 DEF Fits
  <2>. HIDE DEF t
  <2>. QED BY <2>1, <1>2, ScrollSelfToIs DEF Fits, SameSize
<1>9. ASSUME rd'.state = "reading", ~rd.grew PROVE Stays(rd, rd')
  <2>1. SameBox(h, m)
    BY <1>5, <1>6, <1>8, <1>9 DEF LeavesReader
  <2>2. e.top = h.top /\ e.high = h.high /\ e.view = h.view /\ e.above = h.above
    BY <2>1, <1>6 DEF SameBox, SameSize
  <2>3. t = e.top + n
    BY <2>2, <1>0, <1>3, <1>9, <1>6 DEF Measured, BoxFits, Fits
  <2>. HIDE DEF t
  <2>. QED BY <2>2, <2>3, <1>0, <1>2, <1>4, <1>6, <1>7, MadeUpStays DEF Fits
<1>. QED BY <1>6, <1>8, <1>9 DEF StayPut

\* Whatever is noted besides, the box fits.
LEMMA SameFitsToo ==
    ASSUME NEW r, NEW s, Fits(r), SameBox(r, s)
    PROVE  Fits(s)
  BY SamePut

\* A change of state leaves a box that fits, and so does an offset that is set.
LEMMA SetFits ==
    ASSUME NEW r, Fits(r)
    PROVE  /\ \A next \in {"reading", "following"} : Fits(SetState(r, next))
           /\ \A t \in Int : Fits(Placed(r, t))
           /\ \A behavior : \A t \in Int : Fits(ScrollSelfTo(r, t, behavior))
<1>1. BoxFits(r) /\ Measured(r)
  BY DEF Fits
<1>2. \A next \in {"reading", "following"} : Fits(SetState(r, next))
  BY <1>1, SetStateIs DEF Fits
<1>3. \A t \in Int : Fits(Placed(r, t))
  BY <1>1, PlacedIs DEF Fits
<1>4. ASSUME NEW t \in Int, NEW behavior PROVE Fits(ScrollSelfTo(r, t, behavior))
  BY <1>1, ScrollSelfToIs DEF Fits
<1>. QED BY <1>2, <1>3, <1>4

\* The reader's hand on the box.
LEMMA GestureSteps ==
    ASSUME Fits(rd), Gesture \/ Touched \/ BarDown \/ BarDrag \/ BarUp
    PROVE  Fits(rd')
<1>0. BoxFits(rd) /\ rd.top \in Int /\ Limit(rd) \in Int
  BY LimitIs DEF Fits, BoxFits
<1>1. CASE Gesture
  <2>1. PICK dir \in {"up", "down"} :
           rd' = Placed([MarkInput(rd, dir) EXCEPT !.aim = NoAim], rd.top + (IF dir = "up" THEN -1 ELSE 1))
    BY <1>1 DEF Gesture
  <2>. DEFINE m == MarkInput(rd, dir)
              t == rd.top + (IF dir = "up" THEN -1 ELSE 1)
  <2>2. Fits(m) /\ NoAim \in Int
    BY MarkInputFits DEF NoAim
  <2>3. t \in Int
    BY <1>0
  <2>. HIDE DEF m, t
  <2>4. Fits([m EXCEPT !.aim = NoAim])
    BY <2>2, AimFits
  <2>. QED BY <2>1, <2>3, <2>4, SetFits DEF m, t
<1>2. CASE Touched
  BY <1>2, MarkInputFits DEF Touched
<1>3. CASE BarDown
  <2>. DEFINE m == [rd EXCEPT !.bar = TRUE]
  <2>1. SameBox(rd, m)
    BY <1>0 DEF BoxFits, BoxKeys, SameBox, SameSize
  <2>2. rd' = MarkInput(m, "none")
    BY <1>3 DEF BarDown
  <2>. HIDE DEF m
  <2>. QED BY <2>1, <2>2, SameFitsToo, MarkInputFits
<1>4. CASE BarDrag
  <2>. DEFINE m == [rd EXCEPT !.aim = NoAim]
  <2>1. PICK dir : \E to \in 0..Limit(rd) : rd' = Placed(MarkInput(m, dir), to)
    BY <1>4 DEF BarDrag
  <2>2. Fits(m)
    BY <1>0, AimFits DEF NoAim
  <2>. HIDE DEF m
  <2>3. Fits(MarkInput(m, dir))
    BY <2>2, MarkInputFits
  <2>4. \A to \in 0..Limit(rd) : to \in Int
    BY <1>0
  <2>. QED BY <2>1, <2>3, <2>4, SetFits
<1>5. CASE BarUp
  <2>. DEFINE m == [rd EXCEPT !.bar = FALSE]
  <2>1. SameBox(rd, m)
    BY <1>0 DEF BoxFits, BoxKeys, SameBox, SameSize
  <2>2. rd' = MarkInput(m, "none")
    BY <1>5 DEF BarUp
  <2>. HIDE DEF m
  <2>. QED BY <2>1, <2>2, SameFitsToo, MarkInputFits
<1>. QED BY <1>1, <1>2, <1>3, <1>4, <1>5

\* The ways back to the live edge.
LEMMA ResumeFits ==
    ASSUME Fits(rd), Resume
    PROVE  Fits(rd')
<1>. DEFINE a == SetState(rd, "following")
            held == ForgetReaderGesture(a)
            b == [held EXCEPT !.pin = TRUE]
            p == PinLiveEdgeNow(b)
            s == [p EXCEPT !.pinFrame = TRUE]
<1>1. rd' = s
  BY DEF Resume, PinToLiveEdge
<1>2. Fits(a)
  BY SetFits
<1>. HIDE DEF a
<1>3. SameBox(a, held)
  BY <1>2 DEF ForgetReaderGesture, Fits, BoxFits, BoxKeys, SameBox, SameSize
<1>4. Fits(held)
  BY <1>2, <1>3, SameFitsToo
<1>. HIDE DEF held
<1>5. SameBox(held, b)
  BY <1>4 DEF Fits, BoxFits, BoxKeys, SameBox, SameSize
<1>6. Fits(b)
  BY <1>4, <1>5, SameFitsToo
<1>. HIDE DEF b
<1>7. Fits(p)
  BY <1>6, PinNowFits
<1>. HIDE DEF p
<1>8. SameBox(p, s)
  BY <1>7 DEF Fits, BoxFits, BoxKeys, SameBox, SameSize
<1>. HIDE DEF s
<1>. QED BY <1>1, <1>7, <1>8, SameFitsToo

\* A jump, at once or by a flight.
LEMMA JumpSteps ==
    ASSUME Fits(rd), JumpTo \/ BeginSelfScroll \/ ScrollToOffset \/ FlightStep \/ SetUserScrolledUp
    PROVE  Fits(rd')
<1>0. BoxFits(rd) /\ rd.top \in Int /\ rd.aim \in Int /\ Limit(rd) \in Int
      /\ \A t \in Int : Clamped(rd, t) \in Int
  BY LimitIs DEF Fits, BoxFits
<1>1. CASE JumpTo
  <2>. DEFINE c == CancelPinPass(rd)
              e == EndSelfScroll(c)
              ready == [e EXCEPT !.control = TRUE]
  <2>1. PICK to \in 0..Limit(rd), next \in {"reading", "following"} :
           \/ rd' = [SetState(ready, next) EXCEPT !.aim = to]
           \/ rd' = Placed(SetState(ready, next), to)
    BY <1>1 DEF JumpTo
  <2>2. SameBox(rd, c)
    BY <1>0 DEF CancelPinPass, BoxFits, BoxKeys, SameBox, SameSize
  <2>3. Fits(c)
    BY <2>2, SameFitsToo
  <2>. HIDE DEF c
  <2>4. Fits(e)
    BY <2>3, MarkInputFits
  <2>. HIDE DEF e
  <2>5. SameBox(e, ready)
    BY <2>4 DEF Fits, BoxFits, BoxKeys, SameBox, SameSize
  <2>6. Fits(ready)
    BY <2>4, <2>5, SameFitsToo
  <2>. HIDE DEF ready
  <2>7. Fits(SetState(ready, next)) /\ to \in Int
    BY <2>6, <1>0, SetFits
  <2>. QED BY <2>1, <2>7, AimFits, SetFits
<1>2. CASE BeginSelfScroll
  <2>1. rd' = [rd EXCEPT !.epoch = TRUE, !.target = rd.top]
    BY <1>2 DEF BeginSelfScroll
  <2>. QED BY <2>1, <1>0, EpochFits, Zenon
<1>3. CASE ScrollToOffset
  <2>1. PICK px \in 0..Limit(rd), behavior \in {"smooth", "instant"}, next \in {"reading", "following"} :
           rd' = ScrollSelfTo([SetState(rd, next) EXCEPT !.target = px], px, behavior)
    BY <1>3 DEF ScrollToOffset
  <2>. DEFINE a == SetState(rd, next)
              b == [a EXCEPT !.target = px]
  <2>2. Fits(a) /\ px \in Int
    BY <1>0, SetFits
  <2>. HIDE DEF a
  <2>3. Fits(b)
    BY <2>2, TargetFits
  <2>. QED BY <2>1, <2>2, <2>3, SetFits DEF a
<1>4. CASE FlightStep
  <2>. DEFINE to == Clamped(rd, rd.aim)
              step == IF to > rd.top THEN rd.top + 1 ELSE IF to < rd.top THEN rd.top - 1 ELSE to
              on == Placed(rd, step)
              aim == IF step = to THEN NoAim ELSE rd.aim
  <2>1. rd' = [on EXCEPT !.aim = aim]
    BY <1>4 DEF FlightStep
  <2>2. step \in Int /\ aim \in Int
    <3>1. to \in Int
      BY <1>0
    <3>. HIDE DEF to
    <3>. QED BY <3>1, <1>0 DEF NoAim
  <2>. HIDE DEF step, aim
  <2>3. Fits(on)
    BY <2>2, SetFits
  <2>. HIDE DEF on
  <2>. QED BY <2>1, <2>2, <2>3, AimFits
<1>5. CASE SetUserScrolledUp
  BY <1>5, SetFits DEF SetUserScrolledUp
<1>. QED BY <1>1, <1>2, <1>3, <1>4, <1>5

\* Another chat in the box, and the same one emptied.
LEMMA SwitchFits ==
    ASSUME ReaderInv, Fits(rd), Switch
    PROVE  ReaderInv'
<1>. DEFINE out == Detached(rd)
            e == EndSelfScroll(out)
            m == [e EXCEPT !.high = rdparked.high, !.above = rdparked.above,
                           !.aim = NoAim, !.tail = 0, !.seen = ~IsAtBottom(rd)]
            a == SetState(m, rdparked.state)
<1>1. rd' = ScrollSelfTo(a, rdparked.top, "instant")
  BY DEF Switch
<1>2. Fits(out) /\ ~out.loading
  BY DetachedFits
<1>. HIDE DEF out
<1>3. Fits(e) /\ ~e.loading
  BY <1>2, MarkInputFits DEF EndSelfScroll, Fits, BoxFits, BoxKeys
<1>. HIDE DEF e
<1>4. /\ DOMAIN m = DOMAIN e /\ m.top = e.top /\ m.high = rdparked.high /\ m.view = e.view
      /\ m.above = rdparked.above /\ m.aim = NoAim /\ m.target = e.target /\ m.prev = e.prev
      /\ m.deferred = e.deferred /\ m.tail = 0 /\ m.state = e.state /\ m.loading = e.loading
  BY <1>3 DEF Fits, BoxFits, BoxKeys
<1>. HIDE DEF m
<1>5. Fits(m)
  BY <1>3, <1>4 DEF Fits, BoxFits, Measured, ReaderInv, NoAim
<1>6. Fits(a)
  BY <1>5, SetFits DEF ReaderInv
<1>. HIDE DEF a
<1>7. Fits(rd')
  BY <1>1, <1>6, SetFits DEF ReaderInv
<1>8. /\ rdparked'.top = rd.top /\ rdparked'.state = rd.state /\ rdparked'.high = rd.high
      /\ rdparked'.above = rd.above
  BY DEF Switch
<1>. QED BY <1>7, <1>8 DEF ReaderInv, Fits, BoxFits

\* The box as it is first shown.
LEMMA ReaderInitFits == ReaderInit => ReaderInv
  BY DEF ReaderInit, ReaderInv, BoxFits, BoxKeys, Measured, NoAim

\* Every step keeps the invariant, and whoever reads where they read.
LEMMA ReaderStep ==
    ASSUME ReaderInv, [ReaderNext]_rdvars
    PROVE  ReaderInv' /\ KeepsPlace
<1>1. Fits(rd)
  BY DEF ReaderInv, Fits
<1>2. ASSUME Fits(rd'), UNCHANGED rdparked PROVE ReaderInv'
  BY <1>2 DEF ReaderInv, Fits
<1>3. CASE OnItsOwn
  <2>1. UNCHANGED rdparked
    BY <1>3 DEF OnItsOwn, ControlEnds, EpochEnds, ScrollEvent, ScrollEnd, ResizeDelivered,
                EdgeDelivered, RevalidateFrame, FollowFrame, PinExpires, PinFrame, Streamed,
                FoldedBelow, MountedAbove, ViewportResizes, DropAbove, SetAnchor, SetLoadMore,
                LoadMoreClicked, PageArrives, PageAbandoned, Delivered, TranscriptMoves, ReaderAsks
  <2>2. Fits(rd') /\ StayPut(rd, rd')
    BY <1>1, <1>3, ScrollEventPut, NotedSteps, BelowSteps, MountedAbovePut, DropAbovePut,
       LoadSteps, PageArrivesPut DEF OnItsOwn
  <2>. QED BY <1>2, <2>1, <2>2 DEF KeepsPlace, StayPut, Stays
<1>4. CASE ~OnItsOwn
  <2>1. KeepsPlace
    BY <1>4 DEF KeepsPlace
  <2>2. CASE Switch
    BY <1>1, <2>1, <2>2, SwitchFits
  <2>3. CASE Commanded /\ ~Switch
    <3>1. UNCHANGED rdparked
      BY <2>3 DEF Commanded, Gesture, Touched, BarDown, BarDrag, BarUp, Resume,
                  SetUserScrolledUp, JumpTo, BeginSelfScroll, ScrollToOffset, FlightStep,
                  ResetScrollState, Delivered, ReaderAsks
    <3>2. Fits(rd')
      BY <1>1, <2>3, GestureSteps, ResumeFits, JumpSteps, DetachedFits
      DEF Commanded, ResetScrollState
    <3>. QED BY <1>2, <2>1, <3>1, <3>2
  <2>4. CASE UNCHANGED rdvars
    BY <1>1, <1>2, <2>1, <2>4 DEF rdvars
  <2>. QED BY <1>4, <2>2, <2>3, <2>4 DEF ReaderNext
<1>. QED BY <1>3, <1>4

\* Whoever reads stays where they read, in a transcript of any length and a view of any size,
\* whatever is mounted, streamed, dropped or loaded around them.
THEOREM ReaderStaysPut == ReaderSpec => ReaderKept
<1>1. ReaderInit => ReaderInv
  BY ReaderInitFits
<1>2. ReaderInv /\ [ReaderNext]_rdvars => ReaderInv' /\ KeepsPlace
  BY ReaderStep
<1>. QED BY <1>1, <1>2, PTL DEF ReaderSpec, ReaderKept

=============================================================================
