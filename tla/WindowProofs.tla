----------------------------- MODULE WindowProofs -----------------------------
(***************************************************************************)
(* Theorems about the window of AppShell, for any pages, songs, rooms,     *)
(* links and videos and any bounds: the mirror of the session history, the *)
(* link on the banner, the video editor, the controls of the shelf, and    *)
(* what the page of a playlist keeps in step with the store.               *)
(*                                                                         *)
(* Each property is about the state of one part, so each proof first says  *)
(* what a step of the whole window may do to that state - the frame lemmas *)
(* - and then that none of it breaks the property.                         *)
(***************************************************************************)
EXTENDS AppShell, FiniteSetTheorems, SequenceTheorems, TLAPS

(***************************************************************************)
(* A sequence without one of its members                                   *)
(***************************************************************************)

\* The views take an answered call out of the list of those under way.
LEMMA RemoveAtSeq ==
  ASSUME NEW S, NEW s \in Seq(S), NEW k \in DOMAIN s
  PROVE  /\ RemoveAt(s, k) \in Seq(S)
         /\ Len(RemoveAt(s, k)) = Len(s) - 1
         /\ \A i \in 1 .. Len(s) - 1 : RemoveAt(s, k)[i] = IF i < k THEN s[i] ELSE s[i + 1]
         /\ \A j \in DOMAIN s \ {k} : \E i \in DOMAIN RemoveAt(s, k) : RemoveAt(s, k)[i] = s[j]
<1> DEFINE before == SubSeq(s, 1, k - 1)
           after == SubSeq(s, k + 1, Len(s))
<1>1. k \in 1 .. Len(s) /\ Len(s) \in Nat /\ \A i \in 1 .. Len(s) : s[i] \in S
  OBVIOUS
<1>2. /\ before \in Seq(S) /\ Len(before) = k - 1
      /\ \A i \in 1 .. k - 1 : before[i] = s[i]
  BY <1>1, SubSeqProperties
<1>3. /\ after \in Seq(S) /\ Len(after) = Len(s) - k
      /\ \A i \in 1 .. Len(s) - k : after[i] = s[k + i]
  <2>1. \A i \in k + 1 .. Len(s) : s[i] \in S
    BY <1>1
  <2> QED
   BY <1>1, <2>1, SubSeqProperties
<1> HIDE DEF before, after
<1>4. RemoveAt(s, k) = before \o after
  BY DEF RemoveAt, before, after
<1>5. /\ before \o after \in Seq(S) /\ Len(before \o after) = Len(s) - 1
      /\ \A i \in 1 .. Len(s) - 1 : (before \o after)[i] = IF i < k THEN s[i] ELSE s[i + 1]
  BY <1>1, <1>2, <1>3, ConcatProperties
<1>6. ASSUME NEW j \in DOMAIN s \ {k}
      PROVE  \E i \in 1 .. Len(s) - 1 : s[j] = IF i < k THEN s[i] ELSE s[i + 1]
  <2>1. CASE j < k
    BY <1>1, <2>1
  <2>2. CASE j > k
    <3>1. j - 1 \in 1 .. Len(s) - 1 /\ ~(j - 1 < k) /\ (j - 1) + 1 = j
      BY <1>1, <2>2
    <3> QED
      BY <3>1
  <2> QED
    BY <1>1, <2>1, <2>2
<1>7. DOMAIN (before \o after) = 1 .. Len(s) - 1
  BY <1>1, <1>5
<1>8. \A j \in DOMAIN s \ {k} : \E i \in DOMAIN (before \o after) : (before \o after)[i] = s[j]
  BY <1>5, <1>6, <1>7
<1> QED
  BY <1>4, <1>5, <1>8

(***************************************************************************)
(* The mirror of the session history                                       *)
(***************************************************************************)

\* What a step may do to the history: whoever takes it, the page that is
\* pushed is a route, and everything else goes through five operations.
HistoryStep ==
  \/ UNCHANGED historyVars
  \/ \E to \in Routes : pushState(to)
  \/ back \/ forward \/ Reloaded
  \/ \E to : NativeMove(to)

LEMMA KnownRoutes ==
  /\ {Root, PageRoute, ExtRoute, FollowRoute, NewRoute, RoomsRoute} \subseteq Routes
  /\ \A l \in PageLinks : Leads[l] \in Routes
BY WindowAssumption, PageAssumption, ShelfAssumption, RoomsAssumption, ClipboardAssumption
   DEF WindowAssumption, PageAssumption, ShelfAssumption, RoomsAssumption, ClipboardAssumption

LEMMA HistoryFrame == Next => HistoryStep
<1> SUFFICES ASSUME Next PROVE HistoryStep
  OBVIOUS
<1>1. CASE PageNext
  BY <1>1, KnownRoutes DEF PageNext, DeleteAnswered, HistoryStep
<1>2. CASE ShelfNext
  BY <1>2, KnownRoutes DEF ShelfNext, CreateAnswered, HistoryStep
<1>3. CASE RoomsNext \/ LinkNext \/ EditorNext
  BY <1>3 DEF RoomsNext, LinkNext, EditorNext, HistoryStep
<1>4. CASE ShellInput
  <2>1. Links \subseteq Routes
    BY KnownRoutes DEF Links
  <2> QED
    BY <1>4, <2>1, KnownRoutes DEF ShellInput, LinkTo, onSearchSubmit, goForward, nativeBack, goBack, HistoryStep
<1>5. CASE OpenClipboardPage
  <2>1. Leads[offer.link] \in Routes
    BY <1>5, KnownRoutes DEF OpenClipboardPage, OpenPage
  <2> QED
    BY <1>5, <2>1 DEF OpenClipboardPage, HistoryStep
<1>6. CASE EditVideo
  BY <1>6 DEF EditVideo, HistoryStep
<1>7. CASE ShellIdle
  BY <1>7 DEF ShellIdle, ReloadWindow, HistoryStep
<1> QED
  BY <1>1, <1>2, <1>3, <1>4, <1>5, <1>6, <1>7 DEF Next

\* The position is one of the history's, and the mirror is as long as it.
HistoryInv ==
  /\ trail \in Seq(Routes)
  /\ at \in 1 .. Len(trail)
  /\ pointer \in Int /\ size \in Int
  /\ ~strayed => pointer = at - 1 /\ size = Len(trail)

LEMMA HistoryInvStep == HistoryInv /\ HistoryStep => HistoryInv'
<1> SUFFICES ASSUME HistoryInv, HistoryStep PROVE HistoryInv'
  OBVIOUS
<1>1. CASE UNCHANGED historyVars
  BY <1>1 DEF historyVars, HistoryInv
<1>2. ASSUME NEW to \in Routes, pushState(to) PROVE HistoryInv'
  <2>1. trail' \in Seq(Routes) /\ Len(trail') = at + 1 /\ at' = at + 1
    BY <1>2 DEF pushState, HistoryInv
  <2> QED
    BY <1>2, <2>1 DEF pushState, HistoryInv
<1>3. CASE back
  BY <1>3 DEF back, HistoryInv
<1>4. CASE forward
  BY <1>4 DEF forward, canForward, HistoryInv
<1>5. CASE Reloaded
  <2>1. /\ pointer' = Len(trail) - 1 /\ size' = Len(trail) /\ UNCHANGED <<trail, at>>
        /\ ~strayed' => at = Len(trail)
    BY <1>5, Zenon DEF Reloaded
  <2> QED
    BY <2>1 DEF HistoryInv
<1>6. ASSUME NEW to, NativeMove(to) PROVE HistoryInv'
  BY <1>6 DEF NativeMove, HistoryInv
<1> QED
  BY <1>1, <1>2, <1>3, <1>4, <1>5, <1>6 DEF HistoryStep

\* Whatever is opened, pushed, dismissed, loaded again and deleted meanwhile:
\* as long as the browser only moves with the mirror, forward is offered exactly
\* when there is a page ahead, and back leads one page back (history.ts).
THEOREM WindowMirror == Spec => []MirrorTrue
<1>1. Init => HistoryInv
  BY WindowAssumption DEF Init, WindowInit, HistoryInv, WindowAssumption
<1>2. HistoryInv /\ [Next]_vars => HistoryInv'
  BY HistoryFrame, HistoryInvStep DEF vars, windowVars, historyVars, HistoryStep
<1>3. HistoryInv => MirrorTrue
  BY DEF HistoryInv, MirrorTrue, canForward
<1> QED
  BY <1>1, <1>2, <1>3, PTL DEF Spec

(***************************************************************************)
(* The link on the banner                                                  *)
(***************************************************************************)

LinkStep ==
  \/ UNCHANGED linkVars
  \/ LinkNext
  \/ ReloadLink
  \/ OpenPage /\ UNCHANGED <<clip, check, last, ignored, opening, effect, nowPlaying, offered>>

LEMMA LinkFrame == Next => LinkStep
BY DEF Next, ShellInput, OpenClipboardPage, EditVideo, ShellIdle, ReloadWindow, LinkStep

\* An effect is only ever about a link that counts as settled.
LinkInv ==
  /\ clip \in Texts \cup {Nowhere} /\ check.text \in Texts \cup {Nowhere}
  /\ offer \in [link : Texts \cup {Nowhere}, dismissed : BOOLEAN]
  /\ effect # Nowhere => effect \in settled
  /\ LinkKept

LEMMA LinkInvStep == LinkInv /\ LinkStep => LinkInv'
<1> SUFFICES ASSUME LinkInv, LinkStep PROVE LinkInv'
  OBVIOUS
<1>1. CASE UNCHANGED linkVars
  BY <1>1 DEF linkVars, LinkInv, LinkKept
<1>2. CASE ReloadLink
  BY <1>2 DEF ReloadLink, NoCheck, NoOffer, LinkInv, LinkKept
<1>3. CASE OpenPage /\ UNCHANGED <<clip, check, last, ignored, opening, effect, nowPlaying, offered>>
  BY <1>3 DEF OpenPage, NoOffer, LinkInv, LinkKept
<1>4. CASE LinkNext
  <2>1. ASSUME NEW text \in Texts, Copy(text) \/ remember(text),
               UNCHANGED <<check, last, offer, opening, effect, nowPlaying, offered, settled>>
        PROVE  LinkInv'
    BY <2>1 DEF Copy, remember, LinkInv, LinkKept
  <2>2. CASE (CheckStarts \/ CheckReads) /\ UNCHANGED <<clip, effect, offer, offered, settled>>
    BY <2>2 DEF CheckStarts, CheckReads, LinkInv, LinkKept
  <2>3. CASE CheckLands /\ UNCHANGED <<clip, effect>>
    <3> DEFINE found == check.text # Nowhere /\ check.text # last /\ check.text \notin ignored
    <3>1. check' = NoCheck /\ UNCHANGED <<clip, effect>>
      BY <2>3 DEF CheckLands
    <3>2. CASE found
      BY <2>3, <3>1, <3>2 DEF CheckLands, NoCheck, LinkInv, LinkKept
    <3>3. CASE ~found
      BY <2>3, <3>1, <3>3 DEF CheckLands, NoCheck, LinkInv, LinkKept
    <3> QED
      BY <3>2, <3>3
  <2>4. CASE dismissLink /\ UNCHANGED <<clip, effect, check, offered>>
    BY <2>4 DEF dismissLink, LinkInv, LinkKept
  <2>5. CASE Renders /\ UNCHANGED <<clip, check, offered, offer>>
    BY <2>5 DEF Renders, LinkInv, LinkKept
  <2>6. CASE EffectRuns /\ UNCHANGED <<clip, check, offered, settled>>
    BY <2>6 DEF EffectRuns, NoOffer, LinkInv, LinkKept
  <2>7. CASE OpenSong /\ UNCHANGED <<clip, check, offered, offer, effect>>
    BY <2>7 DEF OpenSong, LinkInv, LinkKept
  <2>8. CASE SongPlays /\ UNCHANGED <<clip, check, offered, effect>>
    BY <2>8 DEF SongPlays, NoOffer, LinkInv, LinkKept
  <2>9. CASE (SongStarts \/ SongFails \/ Elsewhere)
             /\ UNCHANGED <<clip, check, offered, offer, effect, settled>>
    BY <2>9 DEF LinkInv, LinkKept
  <2> QED
    BY <1>4, <2>1, <2>2, <2>3, <2>4, <2>5, <2>6, <2>7, <2>8, <2>9 DEF LinkNext
<1> QED
  BY <1>1, <1>2, <1>3, <1>4 DEF LinkStep

\* However checks, renderings, effects, openings and dismissals come in between:
\* a link that was offered stays on the banner until it was acted on, found
\* redundant or replaced; a late effect takes no newer one down (banner.tsx).
THEOREM WindowLinkKept == Spec => []LinkKept
<1>1. Init => LinkInv
  BY DEF Init, LinkInit, NoCheck, NoOffer, LinkInv, LinkKept
<1>2. LinkInv /\ [Next]_vars => LinkInv'
  BY LinkFrame, LinkInvStep DEF vars, LinkStep
<1>3. LinkInv => LinkKept
  BY DEF LinkInv
<1> QED
  BY <1>1, <1>2, <1>3, PTL DEF Spec

(***************************************************************************)
(* The controls of the shelf                                               *)
(***************************************************************************)

\* What a step may put in the menu, and do to the heart and to a follow.
MenuStep ==
  \/ menu' \in {menu, NoMenu}
  \/ menu'.of \in {"row", "bar", "header", "cover"}
  \/ menu' = [of |-> "save", want |-> ~isSaved]
  \/ menu' = [of |-> "follow", want |-> ~follow.read]

HeartStep ==
  \/ UNCHANGED hearts
  \/ Keep(~isSaved)
  \/ menu.of = "save" /\ Keep(menu.want)
  \/ \E k \in DOMAIN saves :
       SaveRuns(k) \/ settle(k) \/ drop(k) \/ (SaveFails(k) /\ UNCHANGED heart)
  \/ (HeartReads \/ HeartLands) /\ UNCHANGED saves
  \/ ReloadShelf

FollowStep ==
  \/ UNCHANGED follows
  \/ Follow("button", ~follow.read) /\ UNCHANGED follow
  \/ ChooseFollow /\ UNCHANGED follow
  \/ \E k \in DOMAIN pending :
            FollowRuns(k) \/ FollowAnswered(k)
              \/ ((FollowFails(k) \/ FollowEnds(k)) /\ UNCHANGED follow)
  \/ (FollowAsks \/ FollowReads \/ FollowLands) /\ UNCHANGED pending
  \/ ReloadShelf

\* A step may be of another mounting of the page.
VisitStep == visit' \in {0, visit, visit + 1}

LEMMA ShelfFrame == Next => MenuStep /\ HeartStep /\ FollowStep /\ VisitStep
<1> SUFFICES ASSUME Next PROVE MenuStep /\ HeartStep /\ FollowStep /\ VisitStep
  OBVIOUS
<1>0. VisitStep
  BY DEF Next, Counted, VisitStep
<1>1. CASE PageNext /\ UNCHANGED <<hearts, follows>>
  <2>1. MenuStep
    BY <1>1 DEF PageNext, PageInput, PageQuery, PageCalls, DeleteAnswered, RowMenu, BarMenu,
                PageMenu, MenuFor, OpenMenu, Choose, CloseMenu, MenuStep
  <2> QED
    BY <1>0, <1>1, <2>1 DEF HeartStep, FollowStep
<1>2. CASE ShelfNext
  <2>1. MenuStep
    BY <1>2 DEF ShelfNext, SaveMenu, FollowMenu, ShelfMenu, OpenMenu, CloseMenu, ChooseSave,
                ChooseFollow, ChooseErase, MenuStep
  <2>2. HeartStep
    BY <1>2 DEF ShelfNext, SaveButton, ChooseSave, HeartStep
  <2>3. \/ UNCHANGED follows
        \/ (FollowButton \/ ChooseFollow) /\ UNCHANGED follow
        \/ \E k \in DOMAIN pending :
            FollowRuns(k) \/ FollowAnswered(k)
              \/ ((FollowFails(k) \/ FollowEnds(k)) /\ UNCHANGED follow)
        \/ (FollowAsks \/ FollowReads \/ FollowLands) /\ UNCHANGED pending
    BY <1>2 DEF ShelfNext
  <2>4. FollowStep
    BY <2>3 DEF FollowButton, FollowStep
  <2> QED
    BY <1>0, <2>1, <2>2, <2>4
<1>3. CASE (RoomsNext \/ LinkNext \/ EditorNext) /\ UNCHANGED shelfVars
  BY <1>0, <1>3 DEF RoomsNext, LinkNext, EditorNext, shelfVars, hearts, follows,
              MenuStep, HeartStep, FollowStep
<1>4. CASE ShellInput
  BY <1>0, <1>4 DEF ShellInput, OutOfReach, hearts, follows, goBack, dismiss, Escape, PressOutside, CloseMenu,
              showQueue, onExpand, MenuStep, HeartStep, FollowStep
<1>5. CASE (OpenClipboardPage /\ UNCHANGED <<OutOfReach, menu>>) \/ EditVideo
  BY <1>0, <1>5 DEF EditVideo, OutOfReach, hearts, follows, MenuStep, HeartStep, FollowStep
<1>6. CASE ShellIdle
  BY <1>0, <1>6 DEF ShellIdle, ReloadWindow, MenuStep, HeartStep, FollowStep
<1> QED
  BY <1>0, <1>1, <1>2, <1>3, <1>4, <1>5, <1>6 DEF Next

Fetches == {NoFetch, Asked} \cup {ReadOf(v) : v \in BOOLEAN}
LateFetches == {Stale, Outdated} \cup {Passed(v) : v \in BOOLEAN}
Hearts == [kept : BOOLEAN, read : BOOLEAN, fetch : Fetches, intent : {"store", "on", "off"},
           alone : BOOLEAN]
Saves == [at : {"sent", "answered", "settling"}, want : BOOLEAN]
Followings == [kept : BOOLEAN, read : BOOLEAN, fetch : Fetches \cup LateFetches, alone : BOOLEAN]
FollowCalls == [control : {"button", "menu"}, want : BOOLEAN, at : {"sent", "ran", "reading"},
                from : Nat]

\* What was read, and what a reading is bringing, is what is stored.
Truthful(shown) ==
  /\ shown.fetch = NoFetch => shown.read = shown.kept
  /\ shown.fetch.at = "read" => shown.fetch.value = shown.kept

\* An intent lasts while there is a call, only a call that was answered and has
\* not asked for a reading yet leaves the views behind the store, and a reading
\* is waited for by a call but in a window that loaded again.
HeartInv ==
  /\ heart \in Hearts /\ saves \in Seq(Saves)
  /\ heart.intent # "store" => saves # <<>>
  /\ (\E k \in DOMAIN saves : saves[k].at = "answered") \/ Truthful(heart)
  /\ \/ heart.fetch = NoFetch \/ heart.alone
     \/ \E k \in DOMAIN saves : saves[k].at = "settling"

\* A call that asked for a reading stays pending until it has landed, unless
\* the page was left; only a call that is not answered leaves what is read, or
\* being read, behind the store, or a mark the page has not answered to yet.
FollowInv ==
  /\ follow \in Followings /\ pending \in Seq(FollowCalls) /\ visit \in Nat
  /\ (\E k \in DOMAIN pending : pending[k].at = "ran") \/ Truthful(follow)
  /\ \/ follow.fetch = NoFetch \/ follow.alone
     \/ \E k \in DOMAIN pending : pending[k].at = "reading"
  /\ follow.fetch \in LateFetches => follow.alone

MenuInv == menu.of \in {"save", "follow"} => menu.want \in BOOLEAN

LEMMA FetchCases ==
  /\ \A f \in Fetches : /\ f = NoFetch \/ f = Asked \/ f.at = "read"
                        /\ f.at = "read" => f.value \in BOOLEAN
                        /\ f.at = "asked" => f = Asked
  /\ NoFetch # Asked /\ NoFetch.at = "idle" /\ Asked.at = "asked"
  /\ \A v : ReadOf(v).at = "read" /\ ReadOf(v).value = v /\ ReadOf(v) # NoFetch
  /\ NoFetch \in Fetches /\ Asked \in Fetches /\ \A v \in BOOLEAN : ReadOf(v) \in Fetches
<1>1. /\ NoFetch.at = "idle" /\ Asked.at = "asked"
      /\ \A v : ReadOf(v).at = "read" /\ ReadOf(v).value = v
  BY DEF NoFetch, Asked, ReadOf
<1>2. NoFetch # Asked /\ \A v : ReadOf(v) # NoFetch
  BY <1>1
<1>3. NoFetch \in Fetches /\ Asked \in Fetches /\ \A v \in BOOLEAN : ReadOf(v) \in Fetches
  BY Zenon DEF Fetches
<1>4. \A f \in Fetches : f = NoFetch \/ f = Asked \/ \E v \in BOOLEAN : f = ReadOf(v)
  BY Zenon DEF Fetches
<1> QED
  BY <1>1, <1>2, <1>3, <1>4

LEMMA LateCases ==
  /\ \A f \in LateFetches : /\ f = Stale \/ f = Outdated \/ f.at = "passed"
                            /\ f.at = "passed" => f.value \in BOOLEAN
                            /\ f.at \in {"stale", "outdated", "passed"}
  /\ Stale.at = "stale" /\ Outdated.at = "outdated"
  /\ \A v : Passed(v).at = "passed" /\ Passed(v).value = v
  /\ Stale \in LateFetches /\ Outdated \in LateFetches
  /\ \A v \in BOOLEAN : Passed(v) \in LateFetches
  /\ \A f \in Fetches : f.at \in {"idle", "asked", "read"} /\ f \notin LateFetches
<1>1. /\ Stale.at = "stale" /\ Outdated.at = "outdated"
      /\ \A v : Passed(v).at = "passed" /\ Passed(v).value = v
  BY DEF Stale, Outdated, Passed
<1>2. Stale \in LateFetches /\ Outdated \in LateFetches /\ \A v \in BOOLEAN : Passed(v) \in LateFetches
  BY Zenon DEF LateFetches
<1>3. \A f \in LateFetches : f = Stale \/ f = Outdated \/ \E v \in BOOLEAN : f = Passed(v)
  BY Zenon DEF LateFetches
<1>4. \A f \in LateFetches : f.at \in {"stale", "outdated", "passed"}
  BY <1>1, <1>3
<1>5. \A f \in Fetches : f.at \in {"idle", "asked", "read"}
  BY FetchCases
<1>6. \A f \in Fetches : f \notin LateFetches
  BY <1>4, <1>5
<1> QED
  BY <1>1, <1>2, <1>3, <1>4, <1>5, <1>6

\* One call of the list moves on.
LEMMA SaveMoves ==
  ASSUME NEW at2 \in {"sent", "answered", "settling"}, saves \in Seq(Saves),
         NEW k \in DOMAIN saves, saves' = [saves EXCEPT ![k].at = at2]
  PROVE  /\ saves[k] \in Saves
         /\ saves' \in Seq(Saves) /\ (saves # <<>> => saves' # <<>>) /\ DOMAIN saves' = DOMAIN saves
         /\ saves'[k].at = at2 /\ \A j \in DOMAIN saves \ {k} : saves'[j] = saves[j]
<1>0. saves[k] \in Saves
  BY ElementOfSeq
<1>1. saves[k] \in Saves /\ [saves[k] EXCEPT !.at = at2] \in Saves
  BY <1>0 DEF Saves
<1>2. saves' = [saves EXCEPT ![k] = [saves[k] EXCEPT !.at = at2]]
  OBVIOUS
<1>3. /\ saves' \in Seq(Saves) /\ Len(saves') = Len(saves) /\ DOMAIN saves' = DOMAIN saves
      /\ saves'[k] = [saves[k] EXCEPT !.at = at2]
      /\ \A j \in DOMAIN saves \ {k} : saves'[j] = saves[j]
  BY <1>1, <1>2, ExceptSeq
<1> QED
  BY <1>0, <1>1, <1>3, EmptySeq DEF Saves

LEMMA HeartInvStep == HeartInv /\ MenuInv /\ HeartStep => HeartInv'
<1> SUFFICES ASSUME HeartInv, MenuInv, HeartStep PROVE HeartInv'
  OBVIOUS
<1> USE DEF Hearts, Saves
<1>0. /\ heart \in Hearts /\ saves \in Seq(Saves)
      /\ heart.intent # "store" => saves # <<>>
  BY DEF HeartInv
<1> DEFINE Waited == \E k \in DOMAIN saves : saves[k].at = "settling"
           Idle0 == heart.fetch = NoFetch \/ heart.alone
<1>w. Idle0 \/ Waited
  BY DEF HeartInv
<1>1. CASE UNCHANGED hearts
  BY <1>1 DEF hearts, HeartInv, Truthful
<1>2. ASSUME NEW want \in BOOLEAN, Keep(want) PROVE HeartInv'
  <2>1. heart' = [heart EXCEPT !.intent = Intent(want)]
    BY <1>2 DEF Keep
  <2>2. /\ heart' \in Hearts /\ Truthful(heart') = Truthful(heart)
        /\ heart'.fetch = heart.fetch /\ heart'.alone = heart.alone
    BY <1>0, <2>1 DEF Intent, Truthful
  <2>3. /\ saves' \in Seq(Saves) /\ saves' # <<>>
        /\ DOMAIN saves \subseteq DOMAIN saves'
        /\ \A k \in DOMAIN saves : saves'[k] = saves[k]
    BY <1>0, <1>2 DEF Keep
  <2> QED
    BY <2>2, <2>3 DEF HeartInv
<1>3. ASSUME NEW k \in DOMAIN saves, SaveRuns(k) PROVE HeartInv'
  <2>1. /\ heart' = [heart EXCEPT !.kept = saves[k].want]
        /\ saves' = [saves EXCEPT ![k].at = "answered"]
    BY <1>3 DEF SaveRuns
  <2>2. saves[k] \in Saves
    BY <1>0, <2>1, SaveMoves
  <2>3. /\ heart' \in Hearts /\ heart'.intent = heart.intent
        /\ heart'.fetch = heart.fetch /\ heart'.alone = heart.alone
    BY <1>0, <2>1, <2>2
  <2>4. saves[k].at = "sent"
    BY <1>3 DEF SaveRuns
  <2>5. Waited => Waited'
    BY <1>0, <2>1, <2>4, SaveMoves
  <2> QED
    BY <1>0, <1>w, <2>1, <2>3, <2>5, SaveMoves DEF HeartInv
<1>4. ASSUME NEW k \in DOMAIN saves, SaveFails(k), UNCHANGED heart PROVE HeartInv'
  <2>1. saves' = [saves EXCEPT ![k].at = "answered"]
    BY <1>4 DEF SaveFails
  <2>2. saves[k].at = "sent"
    BY <1>4 DEF SaveFails
  <2>3. Waited => Waited'
    BY <1>0, <2>1, <2>2, SaveMoves
  <2> QED
    BY <1>0, <1>w, <1>4, <2>1, <2>3, SaveMoves DEF HeartInv
<1>5. ASSUME NEW k \in DOMAIN saves, settle(k) PROVE HeartInv'
  <2>1. heart' = [heart EXCEPT !.fetch = Asked] /\ saves' = [saves EXCEPT ![k].at = "settling"]
    BY <1>5 DEF settle
  <2>2. heart' \in Hearts /\ heart'.intent = heart.intent /\ heart'.fetch = Asked
    BY <1>0, <2>1, FetchCases
  <2>3. Truthful(heart')
    BY <2>2, FetchCases DEF Truthful
  <2> QED
    BY <1>0, <2>1, <2>2, <2>3, SaveMoves DEF HeartInv
<1>6. ASSUME NEW k \in DOMAIN saves, drop(k) PROVE HeartInv'
  <2>1. heart' = [heart EXCEPT !.intent = "store"]
    BY <1>6 DEF drop
  <2>2. /\ heart' \in Hearts /\ Truthful(heart') = Truthful(heart) /\ heart'.intent = "store"
        /\ heart'.fetch = NoFetch
    BY <1>0, <1>6, <2>1 DEF drop, Truthful
  <2>3. saves[k].at = "settling" /\ saves' = RemoveAt(saves, k)
    BY <1>6 DEF drop
  <2>4. /\ saves' \in Seq(Saves)
        /\ \A j \in DOMAIN saves \ {k} : \E i \in DOMAIN saves' : saves'[i] = saves[j]
    BY <1>0, <2>3, RemoveAtSeq
  <2> QED
    BY <2>2, <2>3, <2>4 DEF HeartInv
<1>7. CASE (HeartReads \/ HeartLands) /\ UNCHANGED saves
  <2>1. heart.fetch \in Fetches /\ heart.kept \in BOOLEAN
    BY <1>0
  <2>2. CASE HeartReads
    <3>1. heart' = [heart EXCEPT !.fetch = ReadOf(heart.kept)]
      BY <2>2 DEF HeartReads
    <3>2. heart' \in Hearts /\ heart'.intent = heart.intent /\ heart'.alone = heart.alone
      BY <1>0, <2>1, <3>1, FetchCases
    <3>3. Truthful(heart')
      BY <1>0, <3>1, FetchCases DEF Truthful
    <3>4. heart.fetch # NoFetch
      BY <2>2, FetchCases DEF HeartReads
    <3> QED
      BY <1>0, <1>7, <1>w, <3>2, <3>3, <3>4 DEF HeartInv
  <2>3. CASE HeartLands
    <3>1. heart' = [heart EXCEPT !.fetch = NoFetch, !.read = heart.fetch.value, !.alone = FALSE]
      BY <2>3 DEF HeartLands
    <3>2. heart.fetch.at = "read" /\ heart.fetch.value \in BOOLEAN
      BY <2>1, <2>3, FetchCases DEF HeartLands
    <3>3. heart' \in Hearts /\ heart'.intent = heart.intent /\ heart'.fetch = NoFetch
      BY <1>0, <3>1, <3>2, FetchCases
    <3>4. Truthful(heart) => Truthful(heart')
      BY <1>0, <3>1, <3>2, FetchCases DEF Truthful
    <3> QED
      BY <1>0, <1>7, <3>3, <3>4 DEF HeartInv
  <2> QED
    BY <1>7, <2>2, <2>3
<1>8. isSaved \in BOOLEAN
  BY <1>0 DEF isSaved
<1>9. menu.of = "save" => menu.want \in BOOLEAN
  BY DEF MenuInv
<1>10. CASE ReloadShelf
  <2>1. /\ heart' = [heart EXCEPT !.read = FALSE, !.fetch = Asked, !.alone = TRUE]
        /\ saves' = saves
    BY <1>10 DEF ReloadShelf
  <2>2. heart' \in Hearts /\ heart'.intent = heart.intent /\ heart'.fetch = Asked /\ heart'.alone
    BY <1>0, <2>1, FetchCases
  <2>3. Truthful(heart')
    BY <2>2, FetchCases DEF Truthful
  <2> QED
    BY <1>0, <2>1, <2>2, <2>3 DEF HeartInv
<1> QED
  BY <1>1, <1>2, <1>3, <1>4, <1>5, <1>6, <1>7, <1>8, <1>9, <1>10 DEF HeartStep

\* One follow call moves on.
LEMMA FollowMoves ==
  ASSUME NEW at2 \in {"sent", "ran", "reading"}, pending \in Seq(FollowCalls),
         NEW k \in DOMAIN pending, pending' = [pending EXCEPT ![k].at = at2]
  PROVE  /\ pending[k] \in FollowCalls
         /\ pending' \in Seq(FollowCalls) /\ DOMAIN pending' = DOMAIN pending
         /\ pending'[k].at = at2 /\ \A j \in DOMAIN pending \ {k} : pending'[j] = pending[j]
<1>0. pending[k] \in FollowCalls
  BY ElementOfSeq
<1>1. [pending[k] EXCEPT !.at = at2] \in FollowCalls
  BY <1>0 DEF FollowCalls
<1>2. pending' = [pending EXCEPT ![k] = [pending[k] EXCEPT !.at = at2]]
  OBVIOUS
<1>3. /\ pending' \in Seq(FollowCalls) /\ DOMAIN pending' = DOMAIN pending
      /\ pending'[k] = [pending[k] EXCEPT !.at = at2]
      /\ \A j \in DOMAIN pending \ {k} : pending'[j] = pending[j]
  BY <1>1, <1>2, ExceptSeq
<1> QED
  BY <1>0, <1>3 DEF FollowCalls

\* A call that is over leaves the others where they are.
LEMMA FollowDrops ==
  ASSUME pending \in Seq(FollowCalls), NEW k \in DOMAIN pending, pending' = RemoveAt(pending, k)
  PROVE  /\ pending' \in Seq(FollowCalls)
         /\ \A at2 : pending[k].at # at2 /\ (\E j \in DOMAIN pending : pending[j].at = at2)
                     => \E j \in DOMAIN pending' : pending'[j].at = at2
<1>1. /\ pending' \in Seq(FollowCalls)
      /\ \A j \in DOMAIN pending \ {k} : \E i \in DOMAIN pending' : pending'[i] = pending[j]
  BY RemoveAtSeq
<1> QED
  BY <1>1

LEMMA FollowInvStep == FollowInv /\ MenuInv /\ FollowStep /\ VisitStep => FollowInv'
<1> SUFFICES ASSUME FollowInv, MenuInv, FollowStep, VisitStep PROVE FollowInv'
  OBVIOUS
<1> DEFINE Ran == \E k \in DOMAIN pending : pending[k].at = "ran"
           Reading == \E k \in DOMAIN pending : pending[k].at = "reading"
           Late == follow.fetch \in LateFetches
<1>0. /\ follow \in Followings /\ pending \in Seq(FollowCalls) /\ visit \in Nat
      /\ Ran \/ Truthful(follow)
      /\ follow.fetch = NoFetch \/ follow.alone \/ Reading
      /\ Late => follow.alone
  BY DEF FollowInv
<1>v. visit' \in Nat
  BY <1>0 DEF VisitStep
<1>t. /\ follow.kept \in BOOLEAN /\ follow.read \in BOOLEAN /\ follow.alone \in BOOLEAN
      /\ follow.fetch \in Fetches \cup LateFetches
  BY <1>0 DEF Followings
<1>1. CASE UNCHANGED follows
  BY <1>0, <1>1, <1>v DEF follows, FollowInv
<1>2. ASSUME NEW c \in {"button", "menu"}, NEW want \in BOOLEAN, Follow(c, want), UNCHANGED follow
      PROVE  FollowInv'
  <2> DEFINE call == [control |-> c, want |-> want, at |-> "sent", from |-> visit]
  <2>1. pending' = Append(pending, call)
    BY <1>2 DEF Follow
  <2>2. call \in FollowCalls
    BY <1>0 DEF FollowCalls
  <2> HIDE DEF call
  <2>3. /\ pending' \in Seq(FollowCalls) /\ DOMAIN pending \subseteq DOMAIN pending'
        /\ \A k \in DOMAIN pending : pending'[k] = pending[k]
    BY <1>0, <2>1, <2>2
  <2>4. (Ran => Ran') /\ (Reading => Reading')
    BY <2>3
  <2> QED
    BY <1>0, <1>2, <1>v, <2>3, <2>4 DEF FollowInv
<1>3. ASSUME NEW k \in DOMAIN pending, FollowRuns(k) PROVE FollowInv'
  <2>1. /\ pending[k].at = "sent" /\ pending' = [pending EXCEPT ![k].at = "ran"]
        /\ follow' = [follow EXCEPT !.kept = pending[k].want]
    BY <1>3 DEF FollowRuns
  <2>2. /\ pending[k] \in FollowCalls /\ pending' \in Seq(FollowCalls)
        /\ Ran' /\ (Reading => Reading')
    BY <1>0, <2>1, FollowMoves
  <2>3. /\ follow' \in Followings /\ follow'.fetch = follow.fetch /\ follow'.alone = follow.alone
    BY <1>0, <2>1, <2>2 DEF Followings, FollowCalls
  <2> QED
    BY <1>0, <1>v, <2>2, <2>3 DEF FollowInv
<1>4. ASSUME NEW k \in DOMAIN pending, FollowAnswered(k) PROVE FollowInv'
  <2>1. /\ pending[k].at = "ran"
        /\ follow' = [follow EXCEPT !.fetch = Invalidated(Following, @),
                                    !.alone = @ \/ ~Following]
        /\ pending' = IF Following THEN [pending EXCEPT ![k].at = "reading"]
                                   ELSE RemoveAt(pending, k)
    BY <1>4 DEF FollowAnswered
  <2>2. CASE Following
    <3>1. /\ pending' = [pending EXCEPT ![k].at = "reading"]
          /\ follow' = [follow EXCEPT !.fetch = Asked, !.alone = @ \/ ~Following]
      BY <2>1, <2>2 DEF Invalidated
    <3>2. pending' \in Seq(FollowCalls) /\ Reading'
      BY <1>0, <3>1, FollowMoves
    <3>3. follow' \in Followings /\ follow'.fetch = Asked
      BY <1>0, <1>t, <2>2, <3>1, FetchCases DEF Followings
    <3>4. Truthful(follow') /\ ~Late'
      BY <3>3, FetchCases, LateCases DEF Truthful
    <3> QED
      BY <1>v, <3>2, <3>3, <3>4 DEF FollowInv
  <2>3. CASE ~Following
    <3> DEFINE next == Invalidated(FALSE, follow.fetch)
    <3>1. next \in LateFetches \/ next = Asked
      <4>1. CASE follow.fetch \in Fetches
        <5>1. follow.fetch = NoFetch \/ follow.fetch = Asked \/ follow.fetch.at = "read"
          BY <4>1, FetchCases
        <5>2. follow.fetch.at = "read" => follow.fetch.value \in BOOLEAN
          BY <4>1, FetchCases
        <5> QED
          BY <5>1, <5>2, FetchCases, LateCases DEF Invalidated, Resting, Running
      <4>2. CASE follow.fetch \in LateFetches
        <5>1. follow.fetch = Stale \/ follow.fetch = Outdated \/ follow.fetch.at = "passed"
          BY <4>2, LateCases
        <5>2. follow.fetch.at = "passed" => follow.fetch.value \in BOOLEAN
          BY <4>2, LateCases
        <5> QED
          BY <5>1, <5>2, FetchCases, LateCases DEF Invalidated, Resting, Running
      <4> QED
        BY <1>t, <4>1, <4>2
    <3>2. /\ follow' = [follow EXCEPT !.fetch = next, !.alone = @ \/ ~Following]
          /\ pending' = RemoveAt(pending, k)
      BY <2>1, <2>3 DEF Invalidated
    <3> HIDE DEF next
    <3>3. follow' \in Followings /\ follow'.fetch = next /\ follow'.alone
      BY <1>0, <1>t, <2>3, <3>1, <3>2, FetchCases DEF Followings
    <3>4. Truthful(follow')
      BY <3>1, <3>3, FetchCases, LateCases DEF Truthful
    <3>5. pending' \in Seq(FollowCalls)
      BY <1>0, <3>2, FollowDrops
    <3> QED
      BY <1>v, <3>3, <3>4, <3>5 DEF FollowInv
  <2> QED
    BY <2>2, <2>3
<1>5. ASSUME NEW k \in DOMAIN pending, FollowFails(k) \/ FollowEnds(k), UNCHANGED follow
      PROVE  FollowInv'
  <2>1. pending' = RemoveAt(pending, k)
    BY <1>5 DEF FollowFails, FollowEnds
  <2>2. pending[k].at # "ran" /\ (pending[k].at # "reading" \/ Resting(follow.fetch))
    BY <1>5 DEF FollowFails, FollowEnds
  <2>3. /\ pending' \in Seq(FollowCalls) /\ (Ran => Ran')
        /\ pending[k].at # "reading" => (Reading => Reading')
    <3>1. /\ pending' \in Seq(FollowCalls)
          /\ \A at2 : pending[k].at # at2 /\ (\E j \in DOMAIN pending : pending[j].at = at2)
                      => \E j \in DOMAIN pending' : pending'[j].at = at2
      BY <1>0, <2>1, FollowDrops
    <3>2. Ran => Ran'
      BY <2>2, <3>1
    <3>3. pending[k].at # "reading" => (Reading => Reading')
      BY <3>1
    <3> QED
      BY <3>1, <3>2, <3>3
  <2>4. Resting(follow.fetch) => follow.fetch = NoFetch \/ Late
    BY <1>t, FetchCases DEF Resting, Running
  <2> QED
    BY <1>0, <1>5, <1>v, <2>2, <2>3, <2>4 DEF FollowInv
<1>6. CASE (FollowAsks \/ FollowReads \/ FollowLands) /\ UNCHANGED pending
  <2>1. CASE FollowAsks
    <3>1. follow' = [follow EXCEPT !.fetch = Asked] /\ follow.alone
      BY <1>0, <2>1, LateCases DEF FollowAsks
    <3>2. follow' \in Followings /\ follow'.fetch = Asked /\ follow'.alone
      BY <1>0, <3>1, FetchCases DEF Followings
    <3>3. Truthful(follow')
      BY <3>2, FetchCases DEF Truthful
    <3> QED
      BY <1>0, <1>6, <1>v, <3>2, <3>3 DEF FollowInv
  <2>2. CASE FollowReads
    <3>1. follow' = [follow EXCEPT !.fetch = ReadOf(follow.kept)] /\ follow.fetch # NoFetch
      BY <2>2, FetchCases DEF FollowReads
    <3>2. follow' \in Followings /\ follow'.alone = follow.alone
      BY <1>0, <1>t, <3>1, FetchCases DEF Followings
    <3>3. Truthful(follow') /\ ~Late'
      BY <1>0, <1>t, <3>1, FetchCases, LateCases DEF Truthful, Followings
    <3> QED
      BY <1>0, <1>6, <1>v, <3>1, <3>2, <3>3 DEF FollowInv
  <2>3. CASE FollowLands
    <3>1. PICK next \in {NoFetch, Outdated}, value \in BOOLEAN :
            /\ Lands(follow.fetch, next, value)
            /\ follow' = [follow EXCEPT !.fetch = next, !.read = value,
                                        !.alone = @ /\ next = Outdated]
      BY <2>3 DEF FollowLands
    <3>2. /\ follow.fetch.at \in {"read", "passed"} /\ value = follow.fetch.value
          /\ next = IF follow.fetch.at = "read" THEN NoFetch ELSE Outdated
      BY <3>1 DEF Lands
    <3>3. follow' \in Followings /\ follow'.fetch = next /\ follow'.read = value
          /\ follow'.kept = follow.kept /\ follow'.alone = (follow.alone /\ next = Outdated)
      BY <1>0, <1>t, <3>1, FetchCases, LateCases DEF Followings
    <3>4. CASE follow.fetch.at = "read"
      <4>1. next = NoFetch /\ ~Late' /\ (Truthful(follow) => Truthful(follow'))
        BY <3>2, <3>3, <3>4, FetchCases, LateCases DEF Truthful
      <4> QED
        BY <1>0, <1>6, <1>v, <3>3, <4>1 DEF FollowInv
    <3>5. CASE follow.fetch.at = "passed"
      <4>1. next = Outdated /\ follow.fetch \in LateFetches
        BY <1>t, <3>2, <3>5, LateCases
      <4>2. follow'.alone
        BY <1>0, <3>3, <4>1
      <4>3. Truthful(follow')
        BY <3>3, <4>1, FetchCases, LateCases DEF Truthful
      <4> QED
        BY <1>0, <1>6, <1>v, <3>3, <4>2, <4>3 DEF FollowInv
    <3> QED
      BY <3>2, <3>4, <3>5
  <2> QED
    BY <1>6, <2>1, <2>2, <2>3
<1>7. CASE ReloadShelf
  <2>1. /\ follow' = [follow EXCEPT !.read = FALSE, !.fetch = Stale, !.alone = TRUE]
        /\ pending' = pending
    BY <1>7 DEF ReloadShelf
  <2>2. follow' \in Followings /\ follow'.fetch = Stale /\ follow'.alone
    BY <1>0, <2>1, LateCases DEF Followings
  <2>3. Truthful(follow')
    BY <2>2, FetchCases, LateCases DEF Truthful
  <2> QED
    BY <1>0, <1>v, <2>1, <2>2, <2>3 DEF FollowInv
<1>8. (~follow.read) \in BOOLEAN /\ (menu.of = "follow" => menu.want \in BOOLEAN)
  BY <1>t DEF MenuInv
<1> QED
  BY <1>1, <1>2, <1>3, <1>4, <1>5, <1>6, <1>7, <1>8 DEF FollowStep, ChooseFollow

LEMMA MenuInvStep == MenuInv /\ HeartInv /\ FollowInv /\ MenuStep => MenuInv'
<1> SUFFICES ASSUME MenuInv, HeartInv, FollowInv, MenuStep PROVE MenuInv'
  OBVIOUS
<1>1. isSaved \in BOOLEAN /\ follow.read \in BOOLEAN
  BY DEF HeartInv, FollowInv, Hearts, Followings, isSaved
<1>2. CASE menu' = menu
  BY <1>2 DEF MenuInv
<1>3. CASE menu' = NoMenu \/ menu'.of \in {"row", "bar", "header", "cover"}
  BY <1>3 DEF MenuInv, NoMenu
<1>4. ASSUME NEW want \in BOOLEAN,
             menu' = [of |-> "save", want |-> want] \/ menu' = [of |-> "follow", want |-> want]
      PROVE  MenuInv'
  BY <1>4 DEF MenuInv
<1>5. (~isSaved) \in BOOLEAN /\ (~follow.read) \in BOOLEAN
  BY <1>1
<1> QED
  BY <1>2, <1>3, <1>4, <1>5 DEF MenuStep

\* Once no call is under way the heart shows what is stored, and a control of a
\* follow that can be pressed always does the opposite of what is stored,
\* however presses, menus, answers, failures and readings came in between
\* (saved.ts, follow.tsx).
THEOREM WindowShelfSettles == Spec => []ShelfSettles
<1> DEFINE ShelfInv == MenuInv /\ HeartInv /\ FollowInv
<1>1. Init => ShelfInv
  <2> SUFFICES ASSUME Init PROVE ShelfInv
    OBVIOUS
  <2>1. MenuInv
    BY DEF Init, WindowInit, NoMenu, MenuInv
  <2>2. HeartInv
    <3>1. heart = [kept |-> FALSE, read |-> FALSE, fetch |-> NoFetch, intent |-> "store",
                   alone |-> FALSE]
      BY DEF Init, ShelfInit
    <3>2. heart \in Hearts /\ Truthful(heart) /\ heart.intent = "store" /\ heart.fetch = NoFetch
      BY <3>1, FetchCases DEF Hearts, Truthful
    <3>3. saves \in Seq(Saves)
      BY DEF Init, ShelfInit
    <3> QED
      BY <3>2, <3>3 DEF HeartInv
  <2>3. FollowInv
    <3>1. /\ follow = [kept |-> FALSE, read |-> FALSE, fetch |-> NoFetch, alone |-> FALSE]
          /\ pending = <<>> /\ visit = 0
      BY DEF Init, ShelfInit
    <3>2. follow \in Followings /\ Truthful(follow) /\ follow.fetch \notin LateFetches
      BY <3>1, FetchCases, LateCases DEF Followings, Truthful
    <3> QED
      BY <3>1, <3>2 DEF FollowInv
  <2> QED
    BY <2>1, <2>2, <2>3
<1>2. ShelfInv /\ [Next]_vars => ShelfInv'
  <2> SUFFICES ASSUME ShelfInv, [Next]_vars PROVE ShelfInv'
    OBVIOUS
  <2>1. MenuStep /\ HeartStep /\ FollowStep /\ VisitStep
    BY ShelfFrame DEF vars, windowVars, shelfVars, hearts, follows, MenuStep, HeartStep, FollowStep,
                      VisitStep
  <2> QED
    BY <2>1, HeartInvStep, FollowInvStep, MenuInvStep
<1>3. ShelfInv => ShelfSettles
  <2> SUFFICES ASSUME ShelfInv PROVE ShelfSettles
    OBVIOUS
  <2>1. HeartSettles
    BY DEF HeartInv, Truthful, HeartSettles
  <2>2. FollowTruthful
    BY DEF FollowInv, Truthful, FollowTruthful
  <2> QED
    BY <2>1, <2>2 DEF ShelfSettles
<1> QED
  BY <1>1, <1>2, <1>3, PTL DEF Spec

(***************************************************************************)
(* The video editor                                                        *)
(***************************************************************************)

EditorRest == <<linked, carried, submits, resolves, stream, meant, crossed>>

\* What a step may do to the editor, its saves and the stream.
EditorStep ==
  \/ UNCHANGED editorVars
  \/ EditorNext
  \/ (\E s \in Edited, had \in Videos \cup {NoVideo} : openEditor(s, had)) /\ UNCHANGED EditorRest
  \/ closeEditor /\ UNCHANGED EditorRest
  \/ ReloadEditor

LEMMA EditorFrame == Next => EditorStep
<1> SUFFICES ASSUME Next PROVE EditorStep
  OBVIOUS
<1>1. CASE UNCHANGED editorVars
  BY <1>1 DEF EditorStep
<1>2. CASE EditorNext
  BY <1>2 DEF EditorStep
<1>3. CASE ShellInput
  <2>1. UNCHANGED EditorRest
    BY <1>3 DEF ShellInput, OutOfReach, EditorRest
  <2>2. UNCHANGED editor \/ closeEditor
    BY <1>3 DEF ShellInput, goBack, dismiss
  <2> QED
    BY <2>1, <2>2 DEF EditorRest, editorVars, EditorStep
<1>4. CASE OpenClipboardPage /\ UNCHANGED <<OutOfReach, editor>>
  BY <1>4 DEF OutOfReach, editorVars, EditorStep
<1>5. CASE EditVideo
  BY <1>5 DEF EditVideo, OutOfReach, EditorRest, EditorStep
<1>6. CASE ShellIdle
  BY <1>6 DEF ShellIdle, ReloadWindow, editorVars, EditorStep
<1> QED
  BY <1>1, <1>2, <1>3, <1>4, <1>5, <1>6 DEF Next, ShellIdle, ReloadWindow

Vids == Videos \cup {NoVideo}
Submits == [song : Edited, video : Vids, from : Nat, at : {"sent", "ran", "reloading"}]
Resolves == [by : {"save", "play"}, video : Vids, direct : BOOLEAN, at : {"asked", "read", "done"}]
EditorRecord == [song : Edited \cup {NoSong}, had : Vids, field : Vids, reads : Vids,
                 asks : Edited \cup {NoSong}, mode : {"assign", "search"},
                 query : {"none", "asked", "found"}, n : Nat]

EditorTypeOK ==
  /\ linked \in [Edited -> Vids] /\ carried \in Vids /\ stream \in Vids
  /\ editor \in EditorRecord
  /\ submits \in Seq(Submits) /\ resolves \in Seq(Resolves)
  /\ meant \in [Edited -> SUBSET Vids]
  /\ crossed \in [video : BOOLEAN, stream : BOOLEAN]

\* Whatever could still be linked to a song was typed, found or answered for it.
MeantInv ==
  /\ \A s \in Edited : NoVideo \in meant[s] /\ linked[s] \in meant[s]
  /\ \A k \in DOMAIN submits : submits[k].video \in meant[submits[k].song]
  /\ \A k \in DOMAIN resolves : resolves[k].video \in meant[Current]
  /\ carried \in meant[Current]
  /\ editor.song # NoSong => editor.field \in meant[editor.song]

EditorInv ==
  /\ EditorTypeOK
  /\ editor.asks \in {NoSong, editor.song}
  /\ ~crossed.video => MeantInv

\* What a list holds is of its kind.
LEMMA MemberSeq ==
  ASSUME NEW S, NEW s \in Seq(S)
  PROVE  \A k \in DOMAIN s : s[k] \in S
  OBVIOUS

\* One save, or one stream that was asked for, moves on.
LEMMA SubmitMoves ==
  ASSUME submits \in Seq(Submits), NEW k \in DOMAIN submits,
         NEW at2 \in {"sent", "ran", "reloading"},
         submits' = [submits EXCEPT ![k].at = at2]
  PROVE  /\ submits[k] \in Submits
         /\ submits' \in Seq(Submits) /\ Len(submits') = Len(submits)
         /\ \A j \in DOMAIN submits' : /\ j \in DOMAIN submits
                                       /\ submits'[j].song = submits[j].song
                                       /\ submits'[j].video = submits[j].video
         /\ submits'[k].at = at2
<1>1. submits[k] \in Submits
  BY ElementOfSeq
<1>2. [submits[k] EXCEPT !.at = at2] \in Submits
  BY <1>1 DEF Submits
<1>3. /\ submits' \in Seq(Submits) /\ Len(submits') = Len(submits)
      /\ \A j \in 1 .. Len(submits) :
           submits'[j] = IF j = k THEN [submits[k] EXCEPT !.at = at2] ELSE submits[j]
  BY <1>2, ExceptSeq
<1> QED
  BY <1>1, <1>3 DEF Submits

LEMMA ResolveMoves ==
  ASSUME resolves \in Seq(Resolves), NEW k \in DOMAIN resolves, NEW r \in Resolves,
         resolves' = [resolves EXCEPT ![k] = r]
  PROVE  /\ resolves' \in Seq(Resolves) /\ Len(resolves') = Len(resolves)
         /\ resolves'[k] = r
         /\ \A j \in DOMAIN resolves' : /\ j \in DOMAIN resolves
                                        /\ j # k => resolves'[j] = resolves[j]
  BY ExceptSeq

\* Nothing appears in a list because a call leaves it.
LEMMA LeavesSeq ==
  ASSUME NEW S, NEW s \in Seq(S), NEW k \in DOMAIN s
  PROVE  /\ RemoveAt(s, k) \in Seq(S) /\ Len(RemoveAt(s, k)) = Len(s) - 1
         /\ \A i \in DOMAIN RemoveAt(s, k) : \E j \in DOMAIN s : RemoveAt(s, k)[i] = s[j]
<1> DEFINE t == RemoveAt(s, k)
<1>1. /\ t \in Seq(S) /\ Len(t) = Len(s) - 1
      /\ \A i \in 1 .. Len(s) - 1 : t[i] = IF i < k THEN s[i] ELSE s[i + 1]
  BY RemoveAtSeq
<1> HIDE DEF t
<1>2. DOMAIN t = 1 .. Len(s) - 1 /\ DOMAIN s = 1 .. Len(s) /\ Len(s) \in Nat
  BY <1>1
<1>3. ASSUME NEW i \in 1 .. Len(s) - 1 PROVE \E j \in 1 .. Len(s) : t[i] = s[j]
  <2>1. i \in 1 .. Len(s) /\ i + 1 \in 1 .. Len(s)
    BY <1>2
  <2> QED
    BY <1>1, <2>1
<1> QED
  BY <1>1, <1>2, <1>3 DEF t

LEMMA NoEditorType ==
  /\ NoEditor \in EditorRecord /\ NoEditor.song = NoSong /\ NoEditor.asks = NoSong
  /\ \A n \in Nat : /\ [NoEditor EXCEPT !.n = n] \in EditorRecord
                    /\ [NoEditor EXCEPT !.n = n].song = NoSong
                    /\ [NoEditor EXCEPT !.n = n].asks = NoSong
  BY DEF NoEditor, EditorRecord, Vids

\* A step of the field: nothing but the editor changes, and what was meant grows.
LEMMA FieldStep ==
  ASSUME EditorInv,
         UNCHANGED <<linked, carried, submits, resolves, stream, crossed>>,
         meant' \in [Edited -> SUBSET Vids], \A s \in Edited : meant[s] \subseteq meant'[s],
         editor' \in EditorRecord, editor'.asks \in {NoSong, editor'.song},
         ~crossed.video => (editor'.song # NoSong => editor'.field \in meant'[editor'.song])
  PROVE  EditorInv'
<1>1. EditorTypeOK'
  BY DEF EditorInv, EditorTypeOK
<1>2. ASSUME ~crossed.video PROVE MeantInv'
  <2>1. MeantInv
    BY <1>2 DEF EditorInv
  <2>2. Current \in Edited /\ submits \in Seq(Submits)
    BY EditorAssumption DEF EditorInv, EditorTypeOK
  <2>3. \A k \in DOMAIN submits : submits[k].song \in Edited
    <3>1. \A k \in DOMAIN submits : submits[k] \in Submits
      BY <2>2, MemberSeq
    <3> QED
      BY <3>1 DEF Submits
  <2> QED
    BY <1>2, <2>1, <2>2, <2>3 DEF MeantInv
<1> QED
  BY <1>1, <1>2 DEF EditorInv

LEMMA FieldSteps ==
  EditorInv /\ EditorNext
  => \/ EditorInv'
     \/ handleSubmit /\ UNCHANGED <<linked, carried, editor, resolves, stream, meant>>
     \/ PlayCurrent /\ UNCHANGED <<linked, carried, editor, submits, stream, meant>>
     \/ \E k \in DOMAIN submits : /\ UNCHANGED meant
        /\ \/ UpdateRuns(k) /\ UNCHANGED <<carried, editor, resolves, stream, crossed>>
           \/ UpdateFails(k) /\ UNCHANGED <<linked, carried, editor, resolves, stream, crossed>>
           \/ SaveAnswered(k) /\ UNCHANGED linked
           \/ SaveEnds(k) /\ UNCHANGED <<linked, carried, resolves, stream, crossed>>
     \/ \E k \in DOMAIN resolves : /\ UNCHANGED <<editor, submits, crossed>>
        /\ \/ ResolveReads(k) /\ UNCHANGED <<linked, carried, stream>>
           \/ ResolvePlays(k) /\ UNCHANGED <<carried, stream, meant>>
           \/ ResolveFails(k) /\ UNCHANGED <<linked, carried, stream, meant>>
           \/ ResolveLands(k) /\ UNCHANGED <<linked, meant>>
<1> SUFFICES ASSUME EditorInv, EditorNext,
                    UNCHANGED <<linked, carried, submits, resolves, stream, crossed>>,
                    \/ GotYouTubeId
                    \/ \E v \in Vids, aslink \in BOOLEAN : TypeVideo(v, aslink)
                    \/ \E v \in Videos : PickVideo(v)
                    \/ (closeEditor \/ submitSame) /\ UNCHANGED meant
                    \/ (ReadLink \/ SearchFound) /\ UNCHANGED meant
                    \/ (\E next \in {"assign", "search"} : switchMode(next)) /\ UNCHANGED meant
             PROVE  EditorInv'
  BY DEF EditorNext, Vids
<1>0. /\ linked \in [Edited -> Vids] /\ editor \in EditorRecord /\ meant \in [Edited -> SUBSET Vids]
      /\ editor.asks \in {NoSong, editor.song} /\ NoSong \notin Edited
      /\ ~crossed.video => (editor.song # NoSong => editor.field \in meant[editor.song])
  BY EditorAssumption DEF EditorInv, EditorTypeOK, MeantInv
<1>1. CASE GotYouTubeId
  <2>1. /\ editor.asks = editor.song /\ editor.song \in Edited
        /\ editor' = [editor EXCEPT !.field = linked[editor.song], !.asks = NoSong, !.reads = NoVideo]
        /\ meant' = [meant EXCEPT ![editor.song] = @ \cup {linked[editor.song]}]
    BY <1>0, <1>1 DEF GotYouTubeId, EditorRecord
  <2>2. /\ editor' \in EditorRecord /\ editor'.asks = NoSong
        /\ editor'.song = editor.song /\ editor'.field = linked[editor.song]
    BY <1>0, <2>1 DEF EditorRecord, Vids
  <2>3. /\ meant' \in [Edited -> SUBSET Vids] /\ \A s \in Edited : meant[s] \subseteq meant'[s]
        /\ linked[editor.song] \in meant'[editor.song]
    BY <1>0, <2>1
  <2> QED
    BY <2>2, <2>3, FieldStep
<1>2. ASSUME NEW v \in Vids, EditorOpen, meant' = [meant EXCEPT ![editor.song] = @ \cup {v}],
             editor' \in EditorRecord, editor'.asks = editor.asks, editor'.song = editor.song,
             editor'.field = v
      PROVE  EditorInv'
  <2>1. editor.song \in Edited
    BY <1>0, <1>2 DEF EditorOpen, EditorRecord
  <2>2. /\ meant' \in [Edited -> SUBSET Vids] /\ \A s \in Edited : meant[s] \subseteq meant'[s]
        /\ v \in meant'[editor.song]
    BY <1>0, <1>2, <2>1
  <2> QED
    BY <1>0, <1>2, <2>2, FieldStep
<1>3. ASSUME NEW v \in Vids, NEW aslink \in BOOLEAN, TypeVideo(v, aslink) PROVE EditorInv'
  <2>1. editor' \in EditorRecord /\ editor'.asks = editor.asks /\ editor'.song = editor.song
        /\ editor'.field = v
    BY <1>0, <1>3 DEF TypeVideo, EditorRecord, Vids
  <2> QED
    BY <1>2, <1>3, <2>1 DEF TypeVideo
<1>4. ASSUME NEW v \in Videos, PickVideo(v) PROVE EditorInv'
  <2>1. editor' \in EditorRecord /\ editor'.asks = editor.asks /\ editor'.song = editor.song
        /\ editor'.field = v
    BY <1>0, <1>4 DEF PickVideo, EditorRecord, Vids
  <2> QED
    BY <1>2, <1>4, <2>1 DEF PickVideo, Vids
<1>5. CASE UNCHANGED meant /\ editor' = [NoEditor EXCEPT !.n = editor.n]
  <2>1. editor.n \in Nat
    BY <1>0 DEF EditorRecord
  <2>2. editor' \in EditorRecord /\ editor'.song = NoSong /\ editor'.asks = NoSong
    BY <1>5, <2>1, NoEditorType
  <2> QED
    BY <1>0, <1>5, <2>2, FieldStep
<1>6. CASE /\ UNCHANGED meant /\ editor' \in EditorRecord /\ editor'.asks = editor.asks
           /\ editor'.song = editor.song /\ editor'.field = editor.field
  BY <1>0, <1>6, FieldStep
<1>7. CASE (ReadLink \/ SearchFound) /\ UNCHANGED meant
  BY <1>0, <1>6, <1>7 DEF ReadLink, SearchFound, EditorRecord, Vids
<1>8. ASSUME NEW next \in {"assign", "search"}, switchMode(next), UNCHANGED meant PROVE EditorInv'
  <2>1. editor' \in EditorRecord /\ editor'.asks = editor.asks
           /\ editor'.song = editor.song /\ editor'.field = editor.field
    BY <1>0, <1>8 DEF switchMode, EditorRecord
  <2> QED
    BY <1>6, <1>8, <2>1
<1> QED
  BY <1>1, <1>3, <1>4, <1>5, <1>7, <1>8 DEF closeEditor, submitSame

LEMMA EditorInvStep == EditorInv /\ EditorStep => EditorInv'
<1> SUFFICES ASSUME EditorInv, EditorStep PROVE EditorInv'
  OBVIOUS
<1>0. /\ linked \in [Edited -> Vids] /\ carried \in Vids /\ stream \in Vids
      /\ editor \in EditorRecord
      /\ submits \in Seq(Submits) /\ resolves \in Seq(Resolves)
      /\ meant \in [Edited -> SUBSET Vids]
      /\ crossed \in [video : BOOLEAN, stream : BOOLEAN]
      /\ editor.asks \in {NoSong, editor.song}
      /\ \A k \in DOMAIN submits : submits[k] \in Submits
      /\ \A k \in DOMAIN resolves : resolves[k] \in Resolves
  BY MemberSeq DEF EditorInv, EditorTypeOK
<1>00. /\ Current \in Edited /\ NoSong \notin Edited /\ NoVideo \notin Videos
       /\ NoVideo \in Vids /\ Videos \subseteq Vids
  BY EditorAssumption DEF Vids
<1>000. \A k \in DOMAIN submits : submits[k].song \in Edited /\ submits[k].video \in Vids
  BY <1>0 DEF Submits
<1>1. CASE UNCHANGED editorVars
  BY <1>1 DEF editorVars, EditorInv, EditorTypeOK, MeantInv
<1>2. ASSUME UNCHANGED EditorRest, editor' \in EditorRecord,
             editor'.asks \in {NoSong, editor'.song},
             ~crossed.video => (editor'.song # NoSong => editor'.field \in meant[editor'.song])
      PROVE  EditorInv'
  BY <1>0, <1>2, FieldStep DEF EditorRest
<1>3. ASSUME NEW s \in Edited, NEW had \in Vids, openEditor(s, had), UNCHANGED EditorRest
      PROVE  EditorInv'
  <2>1. editor' = [NoEditor EXCEPT !.song = s, !.had = had, !.field = had,
                       !.asks = IF had = NoVideo THEN s ELSE NoSong, !.n = editor.n + 1]
    BY <1>3 DEF openEditor
  <2>2. editor.n + 1 \in Nat
    BY <1>0 DEF EditorRecord
  <2>3. /\ editor' \in EditorRecord /\ editor'.asks \in {NoSong, editor'.song}
        /\ editor'.song = s /\ editor'.field = had
    BY <2>1, <2>2, NoEditorType DEF EditorRecord
  <2>4. ~crossed.video => had \in meant[s]
    BY <1>3 DEF openEditor, EditorInv, MeantInv
  <2> QED
    BY <1>2, <1>3, <2>3, <2>4
<1>4. CASE UNCHANGED EditorRest /\ editor' = [NoEditor EXCEPT !.n = editor.n]
  <2>1. editor.n \in Nat
    BY <1>0 DEF EditorRecord
  <2> QED
    BY <1>2, <1>4, <2>1, NoEditorType
<1>5. CASE ReloadEditor
  <2>1. EditorTypeOK'
    BY <1>0, <1>00, <1>5, NoEditorType DEF ReloadEditor, EditorTypeOK
  <2>2. editor'.asks = NoSong /\ (MeantInv => MeantInv') /\ UNCHANGED crossed
    BY <1>5, NoEditorType DEF ReloadEditor, MeantInv
  <2> QED
    BY <2>1, <2>2 DEF EditorInv
<1>6. CASE handleSubmit /\ UNCHANGED <<linked, carried, editor, resolves, stream, meant>>
  <2> DEFINE c == [song |-> editor.song, video |-> editor.field, from |-> editor.n, at |-> "sent"]
  <2>1. submits' = Append(submits, c) /\ editor.song # NoSong
    BY <1>6 DEF handleSubmit, EditorOpen
  <2>2. c \in Submits /\ c.song = editor.song /\ c.video = editor.field
    BY <1>0, <2>1 DEF EditorRecord, Submits
  <2> HIDE DEF c
  <2>3. /\ submits' \in Seq(Submits)
        /\ \A k \in DOMAIN submits' : submits'[k] = c \/ (k \in DOMAIN submits /\ submits'[k] = submits[k])
    BY <1>0, <2>1, <2>2
  <2>4. crossed' \in [video : BOOLEAN, stream : BOOLEAN] /\ crossed'.video = crossed.video
    BY <1>0, <1>6 DEF handleSubmit
  <2>5. MeantInv => MeantInv'
    BY <1>6, <2>1, <2>2, <2>3 DEF MeantInv
  <2> QED
    BY <1>0, <1>6, <2>3, <2>4, <2>5 DEF EditorInv, EditorTypeOK
<1>7. CASE PlayCurrent /\ UNCHANGED <<linked, carried, editor, submits, stream, meant>>
  <2>1. resolves' = <<Request("play", carried)>>
    BY <1>7 DEF PlayCurrent
  <2>2. Request("play", carried) \in Resolves /\ Request("play", carried).video = carried
    BY <1>0 DEF Request, Resolves
  <2>3. /\ resolves' \in Seq(Resolves)
        /\ \A k \in DOMAIN resolves' : resolves'[k].video = carried
    BY <2>1, <2>2
  <2>4. crossed' \in [video : BOOLEAN, stream : BOOLEAN] /\ crossed'.video = crossed.video
    BY <1>0, <1>7 DEF PlayCurrent
  <2>5. MeantInv => MeantInv'
    BY <1>7, <2>3 DEF MeantInv
  <2> QED
    BY <1>0, <1>7, <2>3, <2>4, <2>5 DEF EditorInv, EditorTypeOK
<1>8. ASSUME NEW k \in DOMAIN submits, UpdateRuns(k),
             UNCHANGED <<meant, carried, editor, resolves, stream, crossed>>
      PROVE  EditorInv'
  <2>1. /\ linked' = [linked EXCEPT ![submits[k].song] = submits[k].video]
        /\ submits' = [submits EXCEPT ![k].at = "ran"]
    BY <1>8 DEF UpdateRuns
  <2>2. linked' \in [Edited -> Vids]
    BY <1>0, <1>000, <2>1
  <2>3. MeantInv => MeantInv'
    BY <1>0, <1>000, <1>8, <2>1, SubmitMoves DEF MeantInv
  <2>4. submits' \in Seq(Submits)
    BY <1>0, <2>1, SubmitMoves
  <2> QED
    BY <1>0, <1>8, <2>2, <2>3, <2>4 DEF EditorInv, EditorTypeOK
<1>9. ASSUME NEW k \in DOMAIN submits, submits' = RemoveAt(submits, k),
             UNCHANGED <<meant, linked, carried, editor, resolves, stream, crossed>>
      PROVE  EditorInv'
  <2>1. submits' \in Seq(Submits) /\ \A i \in DOMAIN submits' : \E j \in DOMAIN submits : submits'[i] = submits[j]
    BY <1>0, <1>9, LeavesSeq
  <2>2. MeantInv => MeantInv'
    BY <1>9, <2>1 DEF MeantInv
  <2> QED
    BY <1>0, <1>9, <2>1, <2>2 DEF EditorInv, EditorTypeOK
<1>10. ASSUME NEW k \in DOMAIN submits, submits' = RemoveAt(submits, k),
              UNCHANGED <<meant, linked, carried, resolves, stream, crossed>>,
              editor' = [NoEditor EXCEPT !.n = editor.n]
       PROVE  EditorInv'
  <2>1. submits' \in Seq(Submits) /\ \A i \in DOMAIN submits' : \E j \in DOMAIN submits : submits'[i] = submits[j]
    BY <1>0, <1>10, LeavesSeq
  <2>2. editor' \in EditorRecord /\ editor'.asks = NoSong /\ editor'.song = NoSong
    BY <1>0, <1>10, NoEditorType DEF EditorRecord
  <2>3. MeantInv => MeantInv'
    BY <1>10, <2>1, <2>2 DEF MeantInv
  <2> QED
    BY <1>0, <1>10, <2>1, <2>2, <2>3 DEF EditorInv, EditorTypeOK
<1>11. ASSUME NEW k \in DOMAIN resolves, UNCHANGED <<editor, submits, crossed, linked, carried, stream>>,
              ResolveReads(k)
       PROVE  EditorInv'
  <2>1. resolves[k] \in Resolves
    BY <1>0
  <2>2. CASE resolves' = [resolves EXCEPT ![k].at = "done"] /\ UNCHANGED meant
    <3>1. resolves' = [resolves EXCEPT ![k] = [resolves[k] EXCEPT !.at = "done"]]
      BY <2>2
    <3>2. /\ [resolves[k] EXCEPT !.at = "done"] \in Resolves
          /\ [resolves[k] EXCEPT !.at = "done"].video = resolves[k].video
      BY <2>1 DEF Resolves
    <3>3. /\ resolves' \in Seq(Resolves)
          /\ \A j \in DOMAIN resolves' : j \in DOMAIN resolves /\ resolves'[j].video = resolves[j].video
      BY <1>0, <3>1, <3>2, ResolveMoves
    <3>4. MeantInv => MeantInv'
      BY <1>11, <2>2, <3>3 DEF MeantInv
    <3> QED
      BY <1>0, <1>11, <2>2, <3>3, <3>4 DEF EditorInv, EditorTypeOK
  <2>3. ASSUME NEW v \in Vids,
               resolves' = [resolves EXCEPT ![k].video = v, ![k].at = "read"],
               meant' = [meant EXCEPT ![Current] = @ \cup {v}]
        PROVE  EditorInv'
    <3> DEFINE r == [resolves[k] EXCEPT !.video = v, !.at = "read"]
    <3>1. resolves' = [resolves EXCEPT ![k] = r]
      BY <2>1, <2>3
    <3>2. r \in Resolves /\ r.video = v
      BY <2>1 DEF Resolves
    <3> HIDE DEF r
    <3>3. /\ resolves' \in Seq(Resolves)
          /\ \A j \in DOMAIN resolves' : /\ j \in DOMAIN resolves
                                         /\ resolves'[j].video \in {v, resolves[j].video}
      BY <1>0, <3>1, <3>2, ResolveMoves
    <3>4. /\ meant' \in [Edited -> SUBSET Vids] /\ \A s \in Edited : meant[s] \subseteq meant'[s]
          /\ v \in meant'[Current]
      BY <1>0, <1>00, <2>3
    <3>5. editor.song # NoSong => editor.song \in Edited
      BY <1>0 DEF EditorRecord
    <3>6. ASSUME MeantInv PROVE MeantInv'
      BY <1>00, <1>000, <1>11, <3>3, <3>4, <3>5, <3>6 DEF MeantInv
    <3> QED
      BY <1>0, <1>11, <3>3, <3>4, <3>6 DEF EditorInv, EditorTypeOK
  <2>4. linked[Current] \in Vids
    BY <1>0, <1>00
  <2> QED
    BY <1>00, <1>11, <2>2, <2>3, <2>4 DEF ResolveReads
<1>12. ASSUME NEW k \in DOMAIN resolves, UNCHANGED <<editor, submits, crossed, carried, stream, meant>>,
              ResolvePlays(k)
       PROVE  EditorInv'
  <2>1. resolves[k] \in Resolves
    BY <1>0
  <2>2. /\ resolves' = [resolves EXCEPT ![k] = [resolves[k] EXCEPT !.at = "done"]]
        /\ linked' = [linked EXCEPT ![Current] = resolves[k].video]
    BY <1>12 DEF ResolvePlays
  <2>3. /\ [resolves[k] EXCEPT !.at = "done"] \in Resolves
        /\ [resolves[k] EXCEPT !.at = "done"].video = resolves[k].video
        /\ resolves[k].video \in Vids
    BY <2>1 DEF Resolves
  <2>4. /\ resolves' \in Seq(Resolves)
        /\ \A j \in DOMAIN resolves' : j \in DOMAIN resolves /\ resolves'[j].video = resolves[j].video
    BY <1>0, <2>2, <2>3, ResolveMoves
  <2>5. linked' \in [Edited -> Vids]
    BY <1>0, <1>00, <2>2, <2>3
  <2>6. MeantInv => MeantInv'
    BY <1>0, <1>00, <1>12, <2>2, <2>4 DEF MeantInv
  <2> QED
    BY <1>0, <1>12, <2>4, <2>5, <2>6 DEF EditorInv, EditorTypeOK
<1>13. ASSUME NEW k \in DOMAIN resolves, UNCHANGED <<editor, submits, crossed, linked, meant>>,
              \/ ResolveFails(k) /\ UNCHANGED <<carried, stream>>
              \/ ResolveLands(k)
       PROVE  EditorInv'
  <2>1. resolves[k] \in Resolves /\ resolves[k].video \in Vids
    BY <1>0 DEF Resolves
  <2>2. /\ resolves' = RemoveAt(resolves, k)
        /\ carried' \in {carried, resolves[k].video} /\ stream' \in {stream, resolves[k].video}
    BY <1>13 DEF ResolveFails, ResolveLands
  <2>3. /\ resolves' \in Seq(Resolves)
        /\ \A i \in DOMAIN resolves' : \E j \in DOMAIN resolves : resolves'[i] = resolves[j]
    BY <1>0, <2>2, LeavesSeq
  <2>4. MeantInv => MeantInv'
    BY <1>13, <2>2, <2>3 DEF MeantInv
  <2> QED
    BY <1>0, <1>13, <2>1, <2>2, <2>3, <2>4 DEF EditorInv, EditorTypeOK
<1>14. ASSUME NEW k \in DOMAIN submits, SaveAnswered(k), UNCHANGED <<linked, meant>>
       PROVE  EditorInv'
  <2> DEFINE c == submits[k]
  <2>1. c \in Submits /\ c.song \in Edited /\ c.video \in Vids
    BY <1>0 DEF Submits
  <2>2. PICK n \in DOMAIN submits :
          /\ submits[n] = c
          /\ submits' = IF c.song = Current THEN [submits EXCEPT ![n].at = "reloading"]
                        ELSE RemoveAt(submits, n)
    <3> DEFINE j == CHOOSE j \in DOMAIN submits : submits[j] = c
    <3>1. j \in DOMAIN submits /\ submits[j] = c
      OBVIOUS
    <3>2. submits' = IF c.song = Current THEN [submits EXCEPT ![j].at = "reloading"]
                     ELSE RemoveAt(submits, j)
      BY <1>14 DEF SaveAnswered, AnswerField
    <3> HIDE DEF j
    <3> QED
      BY <3>1, <3>2
  <2>3. /\ carried' = IF c.song = Current THEN c.video ELSE carried
        /\ editor' = IF c.song = Current THEN [editor EXCEPT !.field = c.video, !.reads = NoVideo]
                     ELSE [NoEditor EXCEPT !.n = editor.n]
        /\ crossed' = [crossed EXCEPT !.video = @ \/ (EditorOpen /\ editor.song # c.song)]
        /\ stream' = IF c.song = Current THEN NoVideo ELSE stream
        /\ resolves' = IF c.song = Current THEN Append(resolves, Request("save", c.video)) ELSE resolves
    BY <1>14 DEF SaveAnswered, Carry, AnswerField, Reload
  <2>4. /\ Request("save", c.video) \in Resolves
        /\ Request("save", c.video).video = c.video
    BY <2>1 DEF Request, Resolves
  <2> HIDE DEF c
  <2>5. crossed' \in [video : BOOLEAN, stream : BOOLEAN]
    BY <1>0, <2>3
  <2>6. ~crossed'.video => ~crossed.video /\ (editor.song # NoSong => editor.song = c.song)
    BY <1>0, <2>3 DEF EditorOpen
  <2>7. carried' \in Vids /\ stream' \in Vids
    BY <1>0, <1>00, <2>1, <2>3
  <2>8. /\ submits' \in Seq(Submits)
        /\ \A i \in DOMAIN submits' : \E h \in DOMAIN submits : /\ submits'[i].song = submits[h].song
                                                                /\ submits'[i].video = submits[h].video
    <3>1. PICK j \in DOMAIN submits :
            submits' = IF c.song = Current THEN [submits EXCEPT ![j].at = "reloading"]
                       ELSE RemoveAt(submits, j)
      BY <2>2
    <3>2. CASE c.song = Current
      <4>1. submits' = [submits EXCEPT ![j].at = "reloading"]
        BY <3>1, <3>2
      <4> QED
        BY <1>0, <4>1, SubmitMoves
    <3>3. CASE c.song # Current
      <4>1. submits' = RemoveAt(submits, j)
        BY <3>1, <3>3
      <4>2. /\ submits' \in Seq(Submits)
            /\ \A i \in DOMAIN submits' : \E h \in DOMAIN submits : submits'[i] = submits[h]
        BY <1>0, <4>1, LeavesSeq
      <4> QED
        BY <4>2
    <3> QED
      BY <3>2, <3>3
  <2>9. /\ resolves' \in Seq(Resolves)
        /\ \A i \in DOMAIN resolves' : \/ c.song = Current /\ resolves'[i].video = c.video
                                       \/ i \in DOMAIN resolves /\ resolves'[i] = resolves[i]
    <3>1. CASE c.song = Current
      BY <1>0, <2>3, <2>4, <3>1
    <3>2. CASE c.song # Current
      BY <1>0, <2>3, <3>2
    <3> QED
      BY <3>1, <3>2
  <2>10. /\ editor' \in EditorRecord /\ editor'.asks \in {NoSong, editor'.song}
         /\ editor'.song # NoSong => /\ c.song = Current /\ editor'.song = editor.song
                                     /\ editor'.field = c.video
    <3>1. CASE c.song = Current
      BY <1>0, <1>00, <2>1, <2>3, <3>1 DEF EditorRecord
    <3>2. CASE c.song # Current
      <4>1. editor.n \in Nat
        BY <1>0 DEF EditorRecord
      <4> QED
        BY <2>3, <3>2, <4>1, NoEditorType
    <3> QED
      BY <3>1, <3>2
  <2>11. ASSUME ~crossed'.video PROVE MeantInv'
    <3>1. MeantInv /\ c.video \in meant[c.song] /\ (editor.song # NoSong => editor.song = c.song)
      BY <2>2, <2>6, <2>11 DEF EditorInv, MeantInv
    <3>2. carried' \in meant[Current]
      BY <2>3, <3>1 DEF MeantInv
    <3>3. editor'.song # NoSong => editor'.field \in meant[editor'.song]
      BY <2>10, <3>1
    <3> QED
      BY <1>14, <2>8, <2>9, <3>1, <3>2, <3>3 DEF MeantInv
  <2> QED
    BY <1>0, <1>14, <2>5, <2>7, <2>8, <2>9, <2>10, <2>11 DEF EditorInv, EditorTypeOK
<1>15. ASSUME EditorNext PROVE EditorInv'
  BY <1>6, <1>7, <1>8, <1>9, <1>10, <1>11, <1>12, <1>13, <1>14, <1>15, FieldSteps
     DEF UpdateFails, SaveEnds
<1> QED
  BY <1>1, <1>3, <1>4, <1>5, <1>15 DEF EditorStep, closeEditor, Vids

\* What is kept and what the song carries is what the song is linked to.
Settled == {stream, carried} \subseteq {NoVideo, linked[Current]}

\* Saves and streams that never overlapped: one of each at most, a stream beside a
\* save only while that save loads the song again, and only a save that has run
\* and was not answered leaves what is kept behind.
StreamInv ==
  /\ Len(submits) <= 1 /\ Len(resolves) <= 1
  /\ \A k \in DOMAIN submits, j \in DOMAIN resolves :
       submits[k].at = "reloading" /\ resolves[j].by = "save"
  /\ \A k \in DOMAIN submits : submits[k].at = "ran" => linked[submits[k].song] = submits[k].video
  /\ \A j \in DOMAIN resolves :
       /\ resolves[j].at = "asked" /\ resolves[j].direct => resolves[j].video = linked[Current]
       /\ resolves[j].at = "read" => linked[Current] \in {NoVideo, resolves[j].video}
       /\ resolves[j].at = "done" => linked[Current] = resolves[j].video
  /\ Settled \/ \E k \in DOMAIN submits : submits[k].at = "ran" /\ submits[k].song = Current

\* A list of one, and what is left of it.
LEMMA OneSeq ==
  ASSUME NEW S, NEW s \in Seq(S), Len(s) <= 1, NEW k \in DOMAIN s
  PROVE  k = 1 /\ DOMAIN s = {1} /\ Len(s) = 1 /\ RemoveAt(s, k) = <<>>
<1>0. Len(s) \in Nat /\ DOMAIN s = 1 .. Len(s) /\ k \in 1 .. Len(s)
  OBVIOUS
<1>1. k = 1 /\ Len(s) = 1 /\ DOMAIN s = {1}
  BY <1>0
<1>2. RemoveAt(s, k) \in Seq(S) /\ Len(RemoveAt(s, k)) = 0
  BY <1>1, LeavesSeq
<1> QED
  BY <1>1, <1>2, EmptySeq

LEMMA StreamInvStep ==
  ASSUME EditorInv, EditorStep, ~crossed.stream => StreamInv
  PROVE  ~crossed'.stream => StreamInv'
<1> SUFFICES ASSUME ~crossed'.stream PROVE StreamInv'
  OBVIOUS
<1>0. /\ linked \in [Edited -> Vids] /\ carried \in Vids /\ stream \in Vids
      /\ submits \in Seq(Submits) /\ resolves \in Seq(Resolves)
      /\ crossed \in [video : BOOLEAN, stream : BOOLEAN]
      /\ \A k \in DOMAIN submits : submits[k] \in Submits
      /\ \A k \in DOMAIN resolves : resolves[k] \in Resolves
  BY MemberSeq DEF EditorInv, EditorTypeOK
<1>00. /\ Current \in Edited /\ NoVideo \notin Videos /\ NoVideo \in Vids /\ Videos \subseteq Vids
  BY EditorAssumption DEF Vids
<1>1. CASE UNCHANGED <<linked, carried, submits, resolves, stream, crossed>>
  BY <1>1 DEF StreamInv, Settled
<1>2. CASE ReloadEditor
  BY <1>2 DEF ReloadEditor, StreamInv, Settled
<1>3. CASE handleSubmit /\ UNCHANGED <<linked, carried, resolves, stream>>
  <2>1. ~crossed.stream /\ submits = <<>> /\ resolves = <<>>
    BY <1>0, <1>3 DEF handleSubmit
  <2>2. submits' = <<[song |-> editor.song, video |-> editor.field, from |-> editor.n, at |-> "sent"]>>
    BY <1>3, <2>1 DEF handleSubmit
  <2>3. Len(submits') = 1 /\ DOMAIN submits' = {1} /\ submits'[1].at = "sent"
    BY <2>2
  <2>4. StreamInv /\ DOMAIN submits = {}
    BY <2>1
  <2> QED
    BY <1>3, <2>1, <2>3, <2>4 DEF StreamInv, Settled
<1>4. CASE PlayCurrent /\ UNCHANGED <<linked, carried, submits, stream>>
  <2>1. ~crossed.stream /\ submits = <<>> /\ resolves = <<>> /\ stream = NoVideo
    BY <1>0, <1>4 DEF PlayCurrent
  <2>2. resolves' = <<Request("play", carried)>>
    BY <1>4 DEF PlayCurrent
  <2>3. /\ Len(resolves') = 1 /\ DOMAIN resolves' = {1} /\ resolves'[1].at = "asked"
        /\ resolves'[1].video = carried /\ (resolves'[1].direct => carried # NoVideo)
    <3> DEFINE r == Request("play", carried)
    <3>1. r.at = "asked" /\ r.video = carried
      BY DEF Request
    <3>2. r.direct => carried # NoVideo
      BY Zenon DEF Request
    <3> HIDE DEF r
    <3>3. Len(resolves') = 1 /\ DOMAIN resolves' = {1} /\ resolves'[1] = r
      BY <2>2 DEF r
    <3> QED
      BY <3>1, <3>2, <3>3
  <2>4. StreamInv /\ DOMAIN submits = {}
    BY <2>1
  <2>5. carried \in {NoVideo, linked[Current]}
    BY <2>4 DEF StreamInv, Settled
  <2> QED
    BY <1>4, <2>1, <2>3, <2>4, <2>5 DEF StreamInv, Settled
<1>5. ASSUME NEW k \in DOMAIN submits, UpdateRuns(k), UNCHANGED <<carried, resolves, stream, crossed>>
      PROVE  StreamInv'
  <2>1. /\ StreamInv /\ submits[k].at = "sent"
        /\ linked' = [linked EXCEPT ![submits[k].song] = submits[k].video]
        /\ submits' = [submits EXCEPT ![k].at = "ran"]
    BY <1>5 DEF UpdateRuns
  <2>2. k = 1 /\ DOMAIN submits = {1}
    BY <1>0, <2>1, OneSeq DEF StreamInv
  <2>3. resolves = <<>>
    BY <1>0, <2>1, <2>2, EmptySeq DEF StreamInv
  <2>4. /\ Len(submits') = Len(submits) /\ DOMAIN submits' = {1} /\ submits'[1].at = "ran"
        /\ submits'[1].song = submits[1].song /\ submits'[1].video = submits[1].video
        /\ submits[1].song \in Edited
    BY <1>0, <2>1, <2>2, SubmitMoves DEF Submits
  <2>5. linked'[submits'[1].song] = submits'[1].video
    BY <1>0, <2>1, <2>2, <2>4
  <2>6. submits[1].song # Current => linked'[Current] = linked[Current] /\ Settled
    BY <1>0, <1>00, <2>1, <2>2 DEF StreamInv
  <2> QED
    BY <1>5, <2>1, <2>2, <2>3, <2>4, <2>5, <2>6 DEF StreamInv, Settled
<1>6. ASSUME NEW k \in DOMAIN submits, submits[k].at # "ran", submits' = RemoveAt(submits, k),
             UNCHANGED <<linked, carried, resolves, stream, crossed>>
      PROVE  StreamInv'
  <2>1. StreamInv
    BY <1>6
  <2>2. k = 1 /\ DOMAIN submits = {1} /\ submits' = <<>>
    BY <1>0, <1>6, <2>1, OneSeq DEF StreamInv
  <2> QED
    BY <1>6, <2>1, <2>2 DEF StreamInv, Settled
<1>7. ASSUME NEW k \in DOMAIN submits, SaveAnswered(k), UNCHANGED linked
      PROVE  StreamInv'
  <2> DEFINE c == submits[k]
  <2>1. /\ carried' = IF c.song = Current THEN c.video ELSE carried
        /\ stream' = IF c.song = Current THEN NoVideo ELSE stream
        /\ resolves' = IF c.song = Current THEN Append(resolves, Request("save", c.video)) ELSE resolves
        /\ c.at = "ran"
    BY <1>7 DEF SaveAnswered, Carry, Reload, CanReload
  <2>2. crossed' = [crossed EXCEPT !.video = @ \/ (EditorOpen /\ editor.song # c.song)]
    BY <1>7 DEF SaveAnswered, AnswerField
  <2>3. crossed'.stream = crossed.stream
    BY <1>0, <2>2
  <2>4. StreamInv
    BY <2>3
  <2>5. k = 1 /\ DOMAIN submits = {1} /\ RemoveAt(submits, k) = <<>>
    BY <1>0, <2>4, OneSeq DEF StreamInv
  <2>6. submits' = IF c.song = Current THEN [submits EXCEPT ![k].at = "reloading"] ELSE <<>>
    <3>1. (CHOOSE j \in DOMAIN submits : submits[j] = c) = k
      BY <2>5
    <3> QED
      BY <1>7, <2>5, <3>1 DEF SaveAnswered, AnswerField
  <2>7. resolves = <<>>
    BY <1>0, <2>1, <2>4, <2>5, EmptySeq DEF StreamInv
  <2>8. linked[c.song] = c.video /\ (c.song # Current => Settled)
    BY <2>1, <2>4, <2>5 DEF StreamInv
  <2>9. CASE c.song = Current
    <3>1. submits' = [submits EXCEPT ![k].at = "reloading"]
      BY <2>6, <2>9
    <3>2. Len(submits') = Len(submits) /\ DOMAIN submits' = {1} /\ submits'[1].at = "reloading"
      BY <1>0, <2>5, <3>1, SubmitMoves
    <3>3. resolves' = <<Request("save", c.video)>>
      BY <2>1, <2>7, <2>9
    <3>4. /\ Len(resolves') = 1 /\ DOMAIN resolves' = {1} /\ resolves'[1].by = "save"
          /\ resolves'[1].at = "asked" /\ resolves'[1].video = c.video
      BY <3>3 DEF Request
    <3> QED
      BY <1>7, <2>1, <2>4, <2>8, <2>9, <3>2, <3>4 DEF StreamInv, Settled
  <2>10. CASE c.song # Current
    BY <1>7, <2>1, <2>4, <2>6, <2>7, <2>8, <2>10 DEF StreamInv, Settled
  <2> QED
    BY <2>9, <2>10
<1>8. ASSUME NEW k \in DOMAIN resolves, UNCHANGED <<submits, crossed>>,
             NEW r \in Resolves, resolves' = [resolves EXCEPT ![k] = r], r.by = resolves[k].by,
             \/ /\ r.at = "done" /\ resolves[k].at = "asked" /\ resolves[k].direct
                /\ r.video = resolves[k].video /\ UNCHANGED <<linked, carried, stream>>
             \/ /\ r.at = "read" /\ linked[Current] \in {NoVideo, r.video}
                /\ UNCHANGED <<linked, carried, stream>>
             \/ /\ r.at = "done" /\ resolves[k].at = "read" /\ r.video = resolves[k].video
                /\ UNCHANGED <<carried, stream>>
                /\ linked' = [linked EXCEPT ![Current] = r.video]
      PROVE  StreamInv'
  <2>1. StreamInv
    BY <1>8
  <2>2. k = 1 /\ DOMAIN resolves = {1}
    BY <1>0, <2>1, OneSeq DEF StreamInv
  <2>3. Len(resolves') = Len(resolves) /\ DOMAIN resolves' = {1} /\ resolves'[1] = r
    BY <1>0, <1>8, <2>2, ResolveMoves
  <2>4. \A j \in DOMAIN submits : submits[j].at = "reloading" /\ r.by = "save"
    BY <1>8, <2>1, <2>2 DEF StreamInv
  <2>5. Settled
    BY <2>1, <2>4 DEF StreamInv
  <2>6. linked'[Current] = linked[Current] \/ (linked[Current] \in {NoVideo, r.video} /\ linked'[Current] = r.video)
    BY <1>0, <1>00, <1>8, <2>1, <2>2 DEF StreamInv
  <2>7. Settled'
    BY <1>8, <2>5, <2>6 DEF Settled
  <2>8. /\ r.at = "read" => linked'[Current] \in {NoVideo, r.video}
        /\ r.at = "done" => linked'[Current] = r.video
        /\ r.at # "asked"
    BY <1>0, <1>00, <1>8, <2>1, <2>2 DEF StreamInv
  <2> QED
    BY <1>8, <2>1, <2>3, <2>4, <2>7, <2>8 DEF StreamInv
<1>9. ASSUME NEW k \in DOMAIN resolves, resolves' = RemoveAt(resolves, k),
             UNCHANGED <<submits, crossed, linked>>,
             \/ UNCHANGED <<carried, stream>>
             \/ /\ resolves[k].at = "done"
                /\ stream' = resolves[k].video /\ carried' = resolves[k].video
      PROVE  StreamInv'
  <2>1. StreamInv
    BY <1>9
  <2>2. resolves' = <<>>
    BY <1>0, <1>9, <2>1, OneSeq DEF StreamInv
  <2> QED
    BY <1>9, <2>1, <2>2 DEF StreamInv, Settled
<1>10. ASSUME NEW k \in DOMAIN resolves, UNCHANGED <<submits, crossed>>,
              \/ ResolveReads(k) /\ UNCHANGED <<linked, carried, stream>>
              \/ ResolvePlays(k) /\ UNCHANGED <<carried, stream>>
       PROVE  StreamInv'
  <2>1. resolves[k] \in Resolves /\ linked[Current] \in Vids
    BY <1>0, <1>00
  <2>2. CASE resolves[k].at = "asked" /\ resolves[k].direct
    <3> DEFINE r == [resolves[k] EXCEPT !.at = "done"]
    <3>1. /\ r \in Resolves /\ r.by = resolves[k].by /\ r.at = "done" /\ r.video = resolves[k].video
      BY <2>1 DEF Resolves
    <3>2. resolves' = [resolves EXCEPT ![k] = r] /\ UNCHANGED <<linked, carried, stream>>
      BY <1>10, <2>2 DEF ResolveReads, ResolvePlays
    <3> HIDE DEF r
    <3> QED
      BY <1>8, <1>10, <2>2, <3>1, <3>2
  <2>3. CASE resolves[k].at = "asked" /\ ~resolves[k].direct
    <3>1. PICK v \in IF linked[Current] = NoVideo THEN Videos ELSE {linked[Current]} :
            resolves' = [resolves EXCEPT ![k].video = v, ![k].at = "read"]
      BY <1>10, <2>3 DEF ResolveReads, ResolvePlays
    <3> DEFINE r == [resolves[k] EXCEPT !.video = v, !.at = "read"]
    <3>2. v \in Vids /\ linked[Current] \in {NoVideo, v}
      BY <1>00, <2>1, <3>1
    <3>3. r \in Resolves /\ r.by = resolves[k].by /\ r.at = "read" /\ r.video = v
      BY <2>1, <3>2 DEF Resolves
    <3>4. resolves' = [resolves EXCEPT ![k] = r] /\ UNCHANGED <<linked, carried, stream>>
      BY <1>10, <2>1, <2>3, <3>1 DEF ResolvePlays
    <3> HIDE DEF r
    <3> QED
      BY <1>8, <1>10, <3>2, <3>3, <3>4
  <2>4. CASE resolves[k].at = "read"
    <3> DEFINE r == [resolves[k] EXCEPT !.at = "done"]
    <3>1. /\ r \in Resolves /\ r.by = resolves[k].by /\ r.at = "done" /\ r.video = resolves[k].video
      BY <2>1 DEF Resolves
    <3>2. /\ resolves' = [resolves EXCEPT ![k] = r] /\ UNCHANGED <<carried, stream>>
          /\ linked' = [linked EXCEPT ![Current] = r.video]
      BY <1>10, <2>4, <3>1 DEF ResolveReads, ResolvePlays
    <3> HIDE DEF r
    <3> QED
      BY <1>8, <1>10, <2>4, <3>1, <3>2
  <2> QED
    BY <1>10, <2>2, <2>3, <2>4 DEF ResolveReads, ResolvePlays
<1>11. CASE EditorNext
  BY <1>1, <1>3, <1>4, <1>5, <1>6, <1>7, <1>9, <1>10, <1>11
     DEF EditorNext, UpdateFails, SaveEnds, ResolveFails, ResolveLands
<1> QED
  BY <1>1, <1>2, <1>11 DEF EditorStep, EditorRest, editorVars

\* However typing, answers, saves, failures and streams come in between: a song
\* is linked only to a video typed, found or answered for it, and once a save is
\* over the stream kept is the one of the video the song is linked to
\* (youtube-editor.tsx, cache.ts); but for the overlaps both of them name.
THEOREM WindowEditorKept == Spec => []EditorKept
<1> DEFINE Inv == EditorInv /\ (~crossed.stream => StreamInv)
<1>1. Init => Inv
  <2> SUFFICES ASSUME Init PROVE Inv
    OBVIOUS
  <2>1. /\ linked = LinkedFirst /\ carried = NoVideo /\ editor = NoEditor
        /\ submits = <<>> /\ resolves = <<>> /\ stream = NoVideo
        /\ meant = [s \in Edited |-> {LinkedFirst[s], NoVideo}]
        /\ crossed = [video |-> FALSE, stream |-> FALSE]
    BY DEF Init, EditorInit
  <2>2. NoVideo \in Vids /\ LinkedFirst \in [Edited -> Vids] /\ Current \in Edited
    BY EditorAssumption DEF Vids
  <2>3. EditorTypeOK
    BY <2>1, <2>2, NoEditorType DEF EditorTypeOK
  <2>4. MeantInv /\ editor.asks = NoSong
    BY <2>1, <2>2, NoEditorType DEF MeantInv
  <2>5. StreamInv
    BY <2>1 DEF StreamInv, Settled
  <2> QED
    BY <2>3, <2>4, <2>5 DEF EditorInv
<1>2. Inv /\ [Next]_vars => Inv'
  <2> SUFFICES ASSUME Inv, [Next]_vars PROVE Inv'
    OBVIOUS
  <2>1. EditorStep
    BY EditorFrame DEF vars, EditorStep
  <2> QED
    BY <2>1, EditorInvStep, StreamInvStep
<1>3. Inv => EditorKept
  BY DEF EditorInv, MeantInv, StreamInv, Settled, EditorKept, LinkedToItsVideo, StreamFollows
<1> QED
  BY <1>1, <1>2, <1>3, PTL DEF Spec

(***************************************************************************)
(* The saved rooms                                                         *)
(***************************************************************************)

Lists == [Codes -> Passwords \cup {Absent}]
RoomFetches == {NoFetch, Asked} \cup {ReadOf(l) : l \in Lists}
Forms == [mounted : BOOLEAN, open : BOOLEAN, code : Codes \cup {NoRoom}, rooms : Lists,
          waiting : BOOLEAN, armed : BOOLEAN, n : Nat]
Sessions == [room : Codes \cup {NoRoom}, password : Passwords, role : {"off", "member"},
             status : {"idle", "connecting", "open", "closed"}]
Wanteds == [room : Codes \cup {NoRoom}, role : {"off", "member"}, retry : BOOLEAN]
RoomCalls == [does : {"save", "remove"}, code : Codes, password : Passwords, from : Nat,
              at : {"sent", "ran"}, answer : Lists]

RoomsTypeOK ==
  /\ saved \in Lists /\ rooms \in [known : BOOLEAN, list : Lists] /\ roomsFetch \in RoomFetches
  /\ form \in Forms /\ session \in Sessions /\ wanted \in Wanteds
  /\ roomCalls \in Seq(RoomCalls)
  /\ typed \in [Codes -> SUBSET Passwords]
  /\ muddled \in [password : BOOLEAN, list : BOOLEAN]
  /\ form.open => form.mounted
  /\ form.armed => form.mounted /\ form.code \in Codes

LEMMA RoomFetchCases ==
  /\ \A f \in RoomFetches : /\ f = NoFetch \/ f = Asked \/ f.at = "read"
                            /\ f.at = "read" => f.value \in Lists
                            /\ f.at = "asked" => f = Asked
  /\ NoFetch # Asked /\ NoFetch.at = "idle" /\ Asked.at = "asked"
  /\ \A v : ReadOf(v).at = "read" /\ ReadOf(v).value = v /\ ReadOf(v) # NoFetch
  /\ NoFetch \in RoomFetches /\ Asked \in RoomFetches /\ \A l \in Lists : ReadOf(l) \in RoomFetches
<1>1. /\ NoFetch.at = "idle" /\ Asked.at = "asked"
      /\ \A v : ReadOf(v).at = "read" /\ ReadOf(v).value = v
  BY DEF NoFetch, Asked, ReadOf
<1>2. NoFetch # Asked /\ \A v : ReadOf(v) # NoFetch
  BY <1>1
<1>3. NoFetch \in RoomFetches /\ Asked \in RoomFetches /\ \A l \in Lists : ReadOf(l) \in RoomFetches
  BY Zenon DEF RoomFetches
<1>4. \A f \in RoomFetches : f = NoFetch \/ f = Asked \/ \E l \in Lists : f = ReadOf(l)
  BY Zenon DEF RoomFetches
<1> QED
  BY <1>1, <1>2, <1>3, <1>4

\* Whether a room has a password of its own other than the one shown is asked of
\* the panel's copy of the list alone, and only for a code there is.
LEMMA ChangedForm ==
  ASSUME NEW f \in Forms, NEW p
  PROVE  /\ changed(f, p) => f.code \in Codes /\ savedRoom(f)
         /\ savedRoom(f) => f.code \in Codes
         /\ \A g \in Forms : g.code = f.code /\ g.rooms = f.rooms => changed(g, p) = changed(f, p)
  BY DEF changed, savedRoom, PasswordOf

\* The pause is armed by a change in an open panel; nothing else of it moves.
LEMMA ArmedForm ==
  ASSUME NEW f \in Forms, NEW p
  PROVE  LET g == Armed(f, p)
         IN  /\ g \in Forms /\ g.mounted = f.mounted /\ g.open = f.open /\ g.code = f.code
             /\ g.rooms = f.rooms /\ g.waiting = f.waiting /\ g.n = f.n
             /\ g.armed => f.open /\ changed(f, p) /\ f.code \in Codes
             /\ changed(g, p) = changed(f, p)
<1> DEFINE b == f.open /\ changed(f, p)
           g == [f EXCEPT !.armed = b]
<1>1. Armed(f, p) = g
  BY DEF Armed
<1>2. b \in BOOLEAN /\ (b => f.open /\ changed(f, p) /\ f.code \in Codes)
  BY ChangedForm
<1> HIDE DEF b
<1>3. /\ g \in Forms /\ g.mounted = f.mounted /\ g.open = f.open /\ g.code = f.code
      /\ g.rooms = f.rooms /\ g.waiting = f.waiting /\ g.n = f.n /\ g.armed = b
  BY <1>2 DEF Forms
<1> HIDE DEF g
<1> QED
  BY <1>1, <1>2, <1>3, ChangedForm

\* A call that is made goes last, and meets nothing else under way unless muddled.
LEMMA CallMade ==
  ASSUME RoomsTypeOK, NEW does \in {"save", "remove"}, NEW code \in Codes,
         NEW password \in Passwords, NEW from \in Nat, Call(does, code, password, from)
  PROVE  /\ roomCalls' \in Seq(RoomCalls) /\ Len(roomCalls') = Len(roomCalls) + 1
         /\ \A k \in DOMAIN roomCalls' :
              \/ k \in DOMAIN roomCalls /\ roomCalls'[k] = roomCalls[k]
              \/ /\ roomCalls'[k].does = does /\ roomCalls'[k].code = code
                 /\ roomCalls'[k].password = password /\ roomCalls'[k].at = "sent"
         /\ muddled' \in [password : BOOLEAN, list : BOOLEAN]
         /\ muddled'.password = muddled.password
         /\ ~muddled'.list => ~muddled.list /\ roomCalls = <<>> /\ roomsFetch = NoFetch
<1> DEFINE c == [does |-> does, code |-> code, password |-> password, from |-> from,
                 at |-> "sent", answer |-> Unread]
<1>1. roomCalls' = Append(roomCalls, c) /\ roomCalls \in Seq(RoomCalls)
  BY DEF Call, RoomsTypeOK
<1>2. Unread \in Lists
  BY DEF Unread, Lists
<1>3. /\ c \in RoomCalls /\ c.does = does /\ c.code = code /\ c.password = password
      /\ c.at = "sent"
  BY <1>2 DEF RoomCalls
<1> HIDE DEF c
<1>4. muddled' = [muddled EXCEPT !.list = @ \/ ListMuddle]
  BY DEF Call
<1>5. /\ muddled' \in [password : BOOLEAN, list : BOOLEAN]
      /\ muddled'.password = muddled.password
      /\ ~muddled'.list => ~muddled.list /\ ~ListMuddle
  BY <1>4 DEF RoomsTypeOK
<1> QED
  BY <1>1, <1>3, <1>5 DEF ListMuddle

\* Everything that makes, loses or gives up the connection and nothing else.
ConnectionStep ==
  \/ DialOpens /\ UNCHANGED typed
  \/ (DialFails \/ Drops \/ Refused) /\ UNCHANGED typed
  \/ Retry /\ UNCHANGED typed
  \/ ConnectForm \/ (LeaveForm /\ UNCHANGED typed)
  \/ (LeaveShelfRoom /\ UNCHANGED typed)

LEMMA ConnectionSteps ==
  ASSUME RoomsTypeOK, ConnectionStep
  PROVE  /\ session' \in Sessions /\ session'.password = session.password
         /\ wanted' \in Wanteds
         /\ typed' \in [Codes -> SUBSET Passwords] /\ \A c \in Codes : typed[c] \subseteq typed'[c]
<1>0. /\ session \in Sessions /\ wanted \in Wanteds /\ typed \in [Codes -> SUBSET Passwords]
  BY DEF RoomsTypeOK
<1>1. CASE ConnectForm
  <2>1. form.code \in Codes /\ session.password \in Passwords
    BY <1>0, <1>1 DEF ConnectForm, Sessions
  <2>2. /\ session' = [room |-> form.code, password |-> session.password, role |-> "off",
                       status |-> "connecting"]
        /\ wanted' = [room |-> form.code, role |-> "off", retry |-> FALSE]
        /\ typed' = [typed EXCEPT ![form.code] = @ \cup {session.password}]
    BY <1>1 DEF ConnectForm, Connect
  <2> QED
    BY <1>0, <2>1, <2>2 DEF Sessions, Wanteds
<1>2. CASE Stop /\ UNCHANGED typed
  BY <1>0, <1>2 DEF Stop, Left, GivenUp, Sessions, Wanteds
<1>3. CASE DialOpens /\ UNCHANGED typed
  BY <1>0, <1>3 DEF DialOpens, Sessions
<1>4. CASE DialFails /\ UNCHANGED typed
  BY <1>0, <1>2, <1>4 DEF DialFails, Wanteds
<1>5. CASE (Drops \/ Refused) /\ UNCHANGED typed
  <2>1. CASE Drops
    BY <1>0, <1>5, <2>1 DEF Drops, Sessions, Wanteds
  <2>2. CASE Refused
    BY <1>0, <1>5, <2>2 DEF Refused, GivenUp, Sessions, Wanteds
  <2> QED
    BY <1>5, <2>1, <2>2
<1>6. CASE Retry /\ UNCHANGED typed
  BY <1>0, <1>6 DEF Retry, Sessions, Wanteds
<1> QED
  BY <1>1, <1>2, <1>3, <1>4, <1>5, <1>6 DEF ConnectionStep, LeaveForm, LeaveShelfRoom

\* What the panel's own steps do to it, to the field and to what was meant.
PanelStep ==
  \/ /\ OpenPanel \/ \E c \in Codes : OpenRoom(c)
  \/ /\ \E c \in Codes : TypeCode(c)
     /\ UNCHANGED roomsFetch
  \/ /\ \E p \in Typing : TypePassword(p)
     /\ UNCHANGED roomsFetch
  \/ /\ form' = [form EXCEPT !.open = FALSE]
     /\ UNCHANGED <<roomsFetch, session, typed, muddled>>
  \/ Unmount /\ UNCHANGED <<roomsFetch, typed, muddled>>

\* What the field holds for the panel's room was meant for it, where a pause or a
\* press may save it by itself.
FieldKept ==
  form.armed \/ (form.open /\ changed(form, session.password))
  => session.password \in typed[form.code]

LEMMA RowPasswordType ==
  ASSUME RoomsTypeOK, NEW c \in Codes
  PROVE  RowPassword(c) \in Passwords
  BY DEF RoomsTypeOK, RowPassword, Lists, Sessions

\* Opening the panel: where it was mounted it goes on with what it had; else it
\* takes the room that is shown and the list as it is, and reads it or not.
LEMMA MountForm ==
  ASSUME RoomsTypeOK, NEW s \in Sessions, Mount(s)
  PROVE  /\ form' \in Forms /\ form'.open /\ form'.mounted
         /\ form'.armed => changed(form', s.password) /\ form'.code \in Codes
         /\ roomsFetch' \in RoomFetches
         /\ \/ /\ form.mounted /\ form'.rooms = form.rooms /\ form'.waiting = form.waiting
               /\ UNCHANGED roomsFetch
            \/ ~form.mounted /\ form'.waiting /\ roomsFetch' = Ask
            \/ /\ ~form.mounted /\ rooms.known /\ form'.rooms = rooms.list
               /\ UNCHANGED roomsFetch
<1>0. form \in Forms /\ rooms.list \in Lists /\ roomsFetch \in RoomFetches
  BY DEF RoomsTypeOK
<1>1. CASE form.mounted
  <2> DEFINE g == [form EXCEPT !.open = TRUE]
  <2>1. g \in Forms /\ g.open /\ g.mounted /\ g.rooms = form.rooms /\ g.waiting = form.waiting
    BY <1>0, <1>1 DEF Forms
  <2>2. form' = Armed(g, s.password) /\ UNCHANGED roomsFetch
    BY <1>1 DEF Mount
  <2> HIDE DEF g
  <2> QED
    BY <1>0, <1>1, <2>1, <2>2, ArmedForm
<1>2. CASE ~form.mounted
  <2> DEFINE f == [mounted |-> TRUE, open |-> TRUE, code |-> s.room, rooms |-> rooms.list,
                   waiting |-> TRUE, armed |-> FALSE, n |-> form.n + 1]
             g == [f EXCEPT !.waiting = FALSE]
  <2>1. f \in Forms /\ f.open /\ f.mounted /\ f.rooms = rooms.list /\ f.waiting
    BY <1>0 DEF Forms, Sessions
  <2>2. g \in Forms /\ g.open /\ g.mounted /\ g.rooms = rooms.list
    <3> HIDE DEF f
    <3> QED
      BY <2>1 DEF Forms
  <2>3. \/ form' = Armed(f, s.password) /\ roomsFetch' = Ask
        \/ rooms.known /\ form' = Armed(g, s.password) /\ UNCHANGED roomsFetch
    BY <1>2 DEF Mount
  <2>4. Ask \in RoomFetches
    BY <1>0, RoomFetchCases DEF Ask
  <2> HIDE DEF f, g
  <2>5. CASE form' = Armed(f, s.password) /\ roomsFetch' = Ask
    BY <1>2, <2>1, <2>4, <2>5, ArmedForm
  <2>6. CASE rooms.known /\ form' = Armed(g, s.password) /\ UNCHANGED roomsFetch
    BY <1>0, <1>2, <2>2, <2>6, ArmedForm
  <2> QED
    BY <2>3, <2>5, <2>6
<1> QED
  BY <1>1, <1>2

\* What Muddle leaves out.
LEMMA Unmuddled ==
  ASSUME NEW f \in Forms, NEW p, f.mounted, changed(f, p), ~Muddle(f, p)
  PROVE  ~muddled.password /\ p \in typed'[f.code]
  BY Zenon DEF Muddle

\* What all of them have in common.
PanelKept ==
  /\ form' \in Forms /\ session' \in Sessions /\ session'.status = session.status
  /\ roomsFetch' \in RoomFetches
  /\ typed' \in [Codes -> SUBSET Passwords] /\ \A c \in Codes : typed[c] \subseteq typed'[c]
  /\ muddled' \in [password : BOOLEAN, list : BOOLEAN]
  /\ form'.open => form'.mounted
  /\ form'.armed => form'.mounted /\ form'.code \in Codes
  /\ ~muddled'.password => ~muddled.password /\ (FieldKept => FieldKept')
  /\ ~muddled'.list => ~muddled.list
  /\ \/ /\ UNCHANGED roomsFetch
        /\ form'.mounted => /\ form.mounted /\ form'.rooms = form.rooms
                            /\ form'.waiting = form.waiting
     \/ /\ ~muddled'.list => roomCalls = <<>> /\ roomsFetch = NoFetch
        /\ \/ ~form.mounted /\ form'.waiting /\ roomsFetch' = Ask
           \/ ~form.mounted /\ rooms.known /\ form'.rooms = rooms.list /\ UNCHANGED roomsFetch

LEMMA PanelSteps == RoomsTypeOK /\ PanelStep => PanelKept
<1> SUFFICES ASSUME RoomsTypeOK, PanelStep PROVE PanelKept
  OBVIOUS
<1>0. /\ form \in Forms /\ session \in Sessions /\ roomsFetch \in RoomFetches /\ saved \in Lists
      /\ typed \in [Codes -> SUBSET Passwords] /\ muddled \in [password : BOOLEAN, list : BOOLEAN]
      /\ form.open => form.mounted
      /\ form.armed => form.mounted /\ form.code \in Codes
      /\ session.password \in Passwords /\ "" \in Passwords /\ Typing \subseteq Passwords
  BY RoomsAssumption DEF RoomsTypeOK, Sessions
<1>1. ASSUME session' \in Sessions, session'.status = session.status, Mount(session'), UNCHANGED typed,
             muddled' = [password |-> Muddle(form', session'.password),
                         list |-> muddled.list \/ ListMuddle]
      PROVE  PanelKept
  <2>1. /\ form' \in Forms /\ form'.open /\ form'.mounted
        /\ form'.armed => changed(form', session'.password) /\ form'.code \in Codes
        /\ roomsFetch' \in RoomFetches
        /\ \/ /\ form.mounted /\ form'.rooms = form.rooms /\ form'.waiting = form.waiting
              /\ UNCHANGED roomsFetch
           \/ ~form.mounted /\ form'.waiting /\ roomsFetch' = Ask
           \/ /\ ~form.mounted /\ rooms.known /\ form'.rooms = rooms.list
              /\ UNCHANGED roomsFetch
    BY <1>1, MountForm
  <2> DEFINE m == Muddle(form', session'.password)
             l == muddled.list \/ ListMuddle
  <2>2. m \in BOOLEAN /\ l \in BOOLEAN
    BY <1>0 DEF Muddle
  <2>3. ~m => ~muddled.password /\ (changed(form', session'.password) => session'.password \in typed'[form'.code])
    BY <2>1, Unmuddled DEF Muddle
  <2>4. ~l => ~muddled.list /\ roomCalls = <<>> /\ roomsFetch = NoFetch
    BY DEF ListMuddle
  <2>5. muddled' = [password |-> m, list |-> l]
    BY <1>1
  <2> HIDE DEF m, l
  <2>6. ~muddled'.password => ~muddled.password /\ FieldKept'
    BY <2>1, <2>3, <2>5 DEF FieldKept
  <2>7. muddled' \in [password : BOOLEAN, list : BOOLEAN]
    BY <2>2, <2>5
  <2>8. ~muddled'.list => ~muddled.list /\ roomCalls = <<>> /\ roomsFetch = NoFetch
    BY <2>4, <2>5
  <2>9. typed' \in [Codes -> SUBSET Passwords] /\ \A c \in Codes : typed[c] \subseteq typed'[c]
    BY <1>0, <1>1
  <2> QED
    BY <1>1, <2>1, <2>6, <2>7, <2>8, <2>9 DEF PanelKept
<1>2. CASE OpenPanel
  BY <1>0, <1>1, <1>2 DEF OpenPanel
<1>3. ASSUME NEW c \in Codes, OpenRoom(c) PROVE PanelKept
  <2>1. session' = [session EXCEPT !.room = c, !.password = RowPassword(c)]
    BY <1>3 DEF OpenRoom
  <2>2. session' \in Sessions /\ session'.status = session.status
    BY <1>0, <2>1, RowPasswordType DEF Sessions
  <2> QED
    BY <1>1, <1>3, <2>2 DEF OpenRoom
<1>4. ASSUME NEW g \in Forms, NEW p \in Passwords, g.open, g.code \in Codes,
             form.open, g.mounted = form.mounted, g.rooms = form.rooms, g.waiting = form.waiting,
             form' = Armed(g, p), session' = [session EXCEPT !.password = p],
             typed' \in [Codes -> SUBSET Passwords], \A d \in Codes : typed[d] \subseteq typed'[d],
             changed(g, p) => p \in typed'[g.code],
             UNCHANGED <<roomsFetch, muddled>>
      PROVE  PanelKept
  <2>1. session' \in Sessions /\ session'.password = p /\ session'.status = session.status
    BY <1>0, <1>4 DEF Sessions
  <2>2. /\ form' \in Forms /\ form'.open /\ form'.mounted /\ form'.rooms = form.rooms
        /\ form'.waiting = form.waiting /\ form'.code = g.code
        /\ form'.armed => changed(g, p)
        /\ changed(form', p) = changed(g, p)
    BY <1>0, <1>4, ArmedForm
  <2>3. FieldKept'
    BY <1>4, <2>1, <2>2 DEF FieldKept
  <2> QED
    BY <1>0, <1>4, <2>1, <2>2, <2>3 DEF PanelKept
<1>5. ASSUME NEW c \in Codes, TypeCode(c), UNCHANGED roomsFetch PROVE PanelKept
  <2> DEFINE own == PasswordOf(form.rooms, c)
             p == IF own = Absent THEN "" ELSE own
             g == [form EXCEPT !.code = c]
  <2>1. /\ form.open /\ form' = Armed(g, p) /\ session' = [session EXCEPT !.password = p]
        /\ typed' = [typed EXCEPT ![c] = @ \cup (IF saved[c] = Absent THEN {""} ELSE {})]
        /\ UNCHANGED muddled
    BY <1>5 DEF TypeCode
  <2>2. form.rooms \in Lists /\ own = form.rooms[c]
    BY <1>0 DEF PasswordOf, Forms
  <2>3. p \in Passwords
    BY <1>0, <2>2 DEF Lists
  <2>4. /\ g \in Forms /\ g.code = c /\ g.mounted = form.mounted /\ g.rooms = form.rooms
        /\ g.waiting = form.waiting /\ g.open = form.open
    BY <1>0 DEF Forms
  <2>5. ~changed(g, p)
    <3>1. PasswordOf(g.rooms, g.code) = own
      BY <2>4
    <3> HIDE DEF own, g
    <3> QED
      BY <3>1 DEF changed, savedRoom
  <2>6. typed' \in [Codes -> SUBSET Passwords] /\ \A d \in Codes : typed[d] \subseteq typed'[d]
    BY <1>0, <2>1
  <2> HIDE DEF own, p, g
  <2> QED
    BY <1>4, <1>5, <2>1, <2>3, <2>4, <2>5, <2>6
<1>6. ASSUME NEW p \in Typing, TypePassword(p), UNCHANGED roomsFetch PROVE PanelKept
  <2>1. /\ form.open /\ form.code \in Codes /\ form' = Armed(form, p)
        /\ session' = [session EXCEPT !.password = p]
        /\ typed' = [typed EXCEPT ![form.code] = @ \cup {p}] /\ UNCHANGED muddled
    BY <1>6 DEF TypePassword
  <2>2. /\ typed' \in [Codes -> SUBSET Passwords] /\ \A d \in Codes : typed[d] \subseteq typed'[d]
        /\ p \in typed'[form.code] /\ p \in Passwords
    BY <1>0, <2>1
  <2> QED
    BY <1>0, <1>4, <1>6, <2>1, <2>2
<1>7. CASE form' = [form EXCEPT !.open = FALSE] /\ UNCHANGED <<roomsFetch, session, typed, muddled>>
  <2>1. /\ form' \in Forms /\ ~form'.open /\ form'.mounted = form.mounted
        /\ form'.rooms = form.rooms /\ form'.waiting = form.waiting /\ form'.code = form.code
        /\ form'.armed = form.armed
    BY <1>0, <1>7 DEF Forms
  <2> QED
    BY <1>0, <1>7, <2>1 DEF PanelKept, FieldKept
<1>8. CASE Unmount /\ UNCHANGED <<roomsFetch, typed, muddled>>
  <2>1. form' = [NoForm EXCEPT !.n = form.n] /\ form.n \in Nat
    BY <1>0, <1>8 DEF Unmount, Forms
  <2>2. Unread \in Lists
    BY DEF Unread, Lists
  <2>3. form' \in Forms /\ ~form'.open /\ ~form'.mounted /\ ~form'.armed
    BY <2>1, <2>2 DEF NoForm, Forms
  <2>4. session' \in Sessions /\ session'.status = session.status
    BY <1>0, <1>8 DEF Unmount, Sessions
  <2> QED
    BY <1>0, <1>8, <2>3, <2>4 DEF PanelKept, FieldKept
<1> QED
  BY <1>2, <1>3, <1>5, <1>6, <1>7, <1>8 DEF PanelStep

\* The steps of a call: made, run or failed, answered; and of a reading.
CallStep ==
  \/ (Blur \/ Pause) /\ UNCHANGED <<typed, session, wanted>>
  \/ (SaveRoom \/ Unsave) /\ UNCHANGED <<session, wanted>>
  \/ Persist /\ UNCHANGED <<form, session, wanted>>
  \/ (\E c \in Codes : RemoveRoom(c)) /\ UNCHANGED <<form, typed>>

AnswerStep ==
  \/ ShelfAsks /\ UNCHANGED <<saved, rooms, form, roomCalls, muddled>>
  \/ RoomsRead /\ UNCHANGED <<saved, rooms, form, roomCalls, muddled>>
  \/ RoomsLand /\ UNCHANGED <<saved, roomCalls>>
  \/ \E k \in DOMAIN roomCalls :
       \/ CallRuns(k) /\ UNCHANGED <<rooms, roomsFetch, form, muddled>>
       \/ CallFails(k) /\ UNCHANGED <<saved, rooms, roomsFetch, form, muddled>>
       \/ CallAnswered(k) /\ UNCHANGED <<saved, roomsFetch>>

RoomsStep ==
  \/ UNCHANGED roomsVars
  \/ ConnectionStep /\ UNCHANGED <<saved, rooms, roomsFetch, form, roomCalls, muddled>>
  \/ (\E c \in Codes : JoinRoom(c)) /\ UNCHANGED <<saved, rooms, roomsFetch, roomCalls, muddled>>
  \/ PanelStep /\ UNCHANGED <<saved, rooms, wanted, dial, roomCalls>>
  \/ CallStep /\ UNCHANGED <<saved, rooms, roomsFetch>>
  \/ AnswerStep /\ UNCHANGED <<session, wanted, dial, typed>>
  \/ ReloadRooms

LEMMA RoomsFrame == Next => RoomsStep
<1> SUFFICES ASSUME Next PROVE RoomsStep
  OBVIOUS
<1>1. CASE UNCHANGED roomsVars
  BY <1>1 DEF RoomsStep
<1>2. CASE RoomsNext
  <2>1. CASE UNCHANGED <<list, form, roomCalls, muddled>> /\ ConnectionStep
    BY <2>1 DEF list, RoomsStep
  <2>2. CASE UNCHANGED <<saved, rooms, link, roomCalls>> /\ PanelStep
    BY <2>2 DEF link, RoomsStep
  <2>3. CASE UNCHANGED <<list, link, session>> /\ CallStep
    BY <2>3 DEF list, RoomsStep
  <2>4. CASE UNCHANGED list /\ CallStep
    BY <2>4 DEF list, RoomsStep
  <2>5. CASE AnswerStep /\ UNCHANGED <<session, link, typed>>
    BY <2>5 DEF link, RoomsStep
  <2>6. CASE (\E c \in Codes : JoinRoom(c)) /\ UNCHANGED <<list, roomCalls, muddled>>
    BY <2>6 DEF list, RoomsStep
  <2> QED
    BY <1>2, <2>1, <2>2, <2>4, <2>5, <2>6
       DEF RoomsNext, ConnectionStep, PanelStep, CallStep, AnswerStep, closePanelRooms, list, link
<1>3. CASE ShellInput
  <2>1. UNCHANGED <<saved, rooms, roomsFetch, session, wanted, dial, roomCalls, typed, muddled>>
    BY <1>3 DEF ShellInput, OutOfReach
  <2>2. UNCHANGED form \/ form' = [form EXCEPT !.open = FALSE]
    BY <1>3 DEF ShellInput, goBack, dismiss
  <2> QED
    BY <2>1, <2>2 DEF PanelStep, roomsVars, RoomsStep
<1>4. CASE OpenClipboardPage /\ UNCHANGED <<OutOfReach, form>>
  BY <1>4 DEF OutOfReach, roomsVars, RoomsStep
<1>5. CASE EditVideo
  BY <1>5 DEF EditVideo, OutOfReach, roomsVars, RoomsStep
<1>6. CASE ShellIdle
  BY <1>6 DEF ShellIdle, ReloadWindow, roomsVars, RoomsStep
<1> QED
  BY <1>1, <1>2, <1>3, <1>4, <1>5, <1>6 DEF Next

\* What the panel and the shelf need to act at all: something was listed, is being
\* read, or connects.
Busy == \/ form.mounted \/ session.status # "idle" \/ wanted.retry \/ dial # NoDial
        \/ \E c \in Codes : rooms.list[c] # Absent

CallKept ==
  /\ roomCalls' \in Seq(RoomCalls) /\ Len(roomCalls') = Len(roomCalls) + 1
  /\ \A k \in DOMAIN roomCalls' :
       \/ k \in DOMAIN roomCalls /\ roomCalls'[k] = roomCalls[k]
       \/ /\ roomCalls'[k].at = "sent"
          /\ roomCalls'[k].does = "save" /\ FieldKept
             => roomCalls'[k].password \in typed'[roomCalls'[k].code]
  /\ muddled' \in [password : BOOLEAN, list : BOOLEAN] /\ muddled'.password = muddled.password
  /\ ~muddled'.list => ~muddled.list /\ roomCalls = <<>> /\ roomsFetch = NoFetch
  /\ form' \in Forms /\ form'.mounted = form.mounted /\ form'.open = form.open
  /\ form'.code = form.code /\ form'.rooms = form.rooms /\ form'.waiting = form.waiting
  /\ form'.armed => form.armed
  /\ session' \in Sessions /\ session'.password = session.password
  /\ wanted' \in Wanteds
  /\ typed' \in [Codes -> SUBSET Passwords] /\ \A c \in Codes : typed[c] \subseteq typed'[c]
  /\ Busy

LEMMA CallSteps == RoomsTypeOK /\ CallStep => CallKept
<1> SUFFICES ASSUME RoomsTypeOK, CallStep PROVE CallKept
  OBVIOUS
<1>0. /\ form \in Forms /\ session \in Sessions /\ wanted \in Wanteds /\ rooms.list \in Lists
      /\ typed \in [Codes -> SUBSET Passwords] /\ session.password \in Passwords
      /\ form.open => form.mounted
      /\ form.n \in Nat /\ 0 \in Nat /\ "" \in Passwords
  BY RoomsAssumption DEF RoomsTypeOK, Sessions, Forms
<1>00. form.armed => form.mounted /\ form.code \in Codes
  BY DEF RoomsTypeOK
<1>1. ASSUME NEW does \in {"save", "remove"}, NEW code \in Codes, NEW password \in Passwords,
             NEW from \in Nat, Call(does, code, password, from),
             does = "save" /\ FieldKept => password \in typed'[code],
             form' \in Forms, form'.mounted = form.mounted, form'.open = form.open,
             form'.code = form.code, form'.rooms = form.rooms, form'.waiting = form.waiting,
             form'.armed => form.armed,
             session' \in Sessions, session'.password = session.password, wanted' \in Wanteds,
             typed' \in [Codes -> SUBSET Passwords], \A c \in Codes : typed[c] \subseteq typed'[c],
             Busy
      PROVE  CallKept
  BY <1>1, CallMade DEF CallKept
<1>2. ASSUME NEW code \in Codes, Mean(code)
      PROVE  /\ typed' \in [Codes -> SUBSET Passwords]
             /\ \A c \in Codes : typed[c] \subseteq typed'[c]
             /\ session.password \in typed'[code]
  BY <1>0, <1>2 DEF Mean
<1>3. CASE (Blur \/ Pause) /\ UNCHANGED <<typed, session, wanted>>
  <2>1. form.code \in Codes /\ form.mounted
    <3>1. CASE Blur
      BY <1>0, <3>1, ChangedForm DEF Blur
    <3>2. CASE Pause
      BY <1>00, <3>2 DEF Pause
    <3> QED
      BY <1>3, <3>1, <3>2
  <2>2. FieldKept => session.password \in typed'[form.code]
    BY <1>3 DEF Blur, Pause, FieldKept
  <2>3. /\ form' \in Forms /\ form'.mounted = form.mounted /\ form'.open = form.open
        /\ form'.code = form.code /\ form'.rooms = form.rooms /\ form'.waiting = form.waiting
        /\ form'.armed => form.armed
    BY <1>0, <1>3 DEF Blur, Pause, Forms
  <2> QED
    BY <1>0, <1>1, <1>3, <2>1, <2>2, <2>3 DEF Blur, Pause, commit, Busy
<1>4. CASE SaveRoom /\ UNCHANGED <<session, wanted>>
  <2>1. form.mounted /\ form.code \in Codes /\ commit /\ Mean(form.code) /\ UNCHANGED form
    BY <1>0, <1>4 DEF SaveRoom
  <2>2. Busy
    BY <2>1 DEF Busy
  <2>3. Call("save", form.code, session.password, form.n)
    BY <2>1 DEF commit
  <2>4. /\ typed' \in [Codes -> SUBSET Passwords] /\ \A c \in Codes : typed[c] \subseteq typed'[c]
        /\ session.password \in typed'[form.code]
    BY <1>2, <2>1
  <2> QED
    BY <1>0, <1>1, <1>4, <2>1, <2>2, <2>3, <2>4
<1>5. CASE Unsave /\ UNCHANGED <<session, wanted>>
  <2>1. /\ form.code \in Codes /\ form.mounted /\ UNCHANGED <<form, typed>>
        /\ Call("remove", form.code, "", form.n)
    BY <1>0, <1>5, ChangedForm DEF Unsave
  <2>2. Busy
    BY <2>1 DEF Busy
  <2> QED
    BY <1>0, <1>1, <1>5, <2>1, <2>2
<1>6. CASE Persist /\ UNCHANGED <<form, session, wanted>>
  <2>1. activeCode \in Codes /\ session.status # "idle"
    BY <1>0, <1>6, RoomsAssumption DEF Persist, ephemeral, activeCode
  <2> QED
    BY <1>0, <1>1, <1>2, <1>6, <2>1 DEF Persist, Busy
<1>7. ASSUME NEW c \in Codes, RemoveRoom(c), UNCHANGED <<form, typed>> PROVE CallKept
  <2>1. session' \in Sessions /\ session'.password = session.password /\ wanted' \in Wanteds
    <3>1. CASE Stop
      BY <1>0, <3>1 DEF Stop, Left, GivenUp, Sessions, Wanteds
    <3>2. CASE UNCHANGED <<session, wanted, dial>>
      BY <1>0, <3>2
    <3> QED
      BY <1>7, <3>1, <3>2 DEF RemoveRoom
  <2>2. Call("remove", c, "", 0) /\ rooms.list[c] # Absent
    BY <1>7 DEF RemoveRoom
  <2> QED
    BY <1>0, <1>1, <1>7, <2>1, <2>2 DEF Busy
<1> QED
  BY <1>3, <1>4, <1>5, <1>6, <1>7 DEF CallStep

\* What an answer or a reading does to the panel: it takes the list or not.
AnswerKept ==
  /\ saved' \in Lists /\ rooms' \in [known : BOOLEAN, list : Lists] /\ roomsFetch' \in RoomFetches
  /\ roomCalls' \in Seq(RoomCalls)
  /\ form' \in Forms /\ form'.mounted = form.mounted /\ form'.open = form.open
  /\ form'.code = form.code
  /\ form'.armed => form'.mounted /\ form'.code \in Codes
  /\ muddled' \in [password : BOOLEAN, list : BOOLEAN]
  /\ ~muddled'.password => ~muddled.password /\ (FieldKept => FieldKept')
  /\ ~muddled'.list => ~muddled.list

\* The list that came is put in the panel's copy: the pause is armed anew.
LEMMA RelistedForm ==
  ASSUME RoomsTypeOK, NEW f \in Forms, f.mounted = form.mounted, f.open = form.open,
         f.code = form.code, NEW l \in Lists
  PROVE  LET g == Relisted(f, l)
         IN  /\ g \in Forms /\ g.mounted = form.mounted /\ g.open = form.open /\ g.code = form.code
             /\ g.waiting = f.waiting /\ g.rooms = l /\ g.n = f.n
             /\ g.armed => g.mounted /\ g.code \in Codes /\ changed(g, session.password)
<1> DEFINE h == [f EXCEPT !.rooms = l]
<1>1. /\ h \in Forms /\ h.mounted = form.mounted /\ h.open = form.open /\ h.code = form.code
      /\ h.waiting = f.waiting /\ h.rooms = l /\ h.n = f.n
  BY DEF Forms
<1>2. Relisted(f, l) = Armed(h, session.password)
  BY DEF Relisted
<1>3. form.open => form.mounted
  BY DEF RoomsTypeOK
<1> HIDE DEF h
<1> QED
  BY <1>1, <1>2, <1>3, ArmedForm

LEMMA AnswerSteps == RoomsTypeOK /\ AnswerStep /\ UNCHANGED <<session, typed>> => AnswerKept
<1> SUFFICES ASSUME RoomsTypeOK, AnswerStep, UNCHANGED <<session, typed>> PROVE AnswerKept
  OBVIOUS
<1>0. /\ saved \in Lists /\ rooms \in [known : BOOLEAN, list : Lists] /\ roomsFetch \in RoomFetches
      /\ roomCalls \in Seq(RoomCalls) /\ form \in Forms /\ form.mounted \in BOOLEAN
      /\ muddled \in [password : BOOLEAN, list : BOOLEAN]
      /\ form.open => form.mounted
      /\ \A k \in DOMAIN roomCalls : roomCalls[k] \in RoomCalls
  BY MemberSeq DEF RoomsTypeOK, Forms
<1>00. form.armed => form.mounted /\ form.code \in Codes
  BY DEF RoomsTypeOK
<1>1. ASSUME UNCHANGED <<form, muddled>>,
             saved' \in Lists, rooms' \in [known : BOOLEAN, list : Lists],
             roomsFetch' \in RoomFetches, roomCalls' \in Seq(RoomCalls)
      PROVE  AnswerKept
  BY <1>0, <1>00, <1>1 DEF AnswerKept, FieldKept
<1>2. ASSUME NEW f \in Forms, f.mounted = form.mounted, f.open = form.open, f.code = form.code,
             NEW l \in Lists,
             form' = Relisted(f, l), NEW ml \in BOOLEAN, ~ml => ~muddled.list,
             muddled' = [password |-> Muddle(form', session.password), list |-> ml],
             saved' \in Lists, rooms' \in [known : BOOLEAN, list : Lists],
             roomsFetch' \in RoomFetches, roomCalls' \in Seq(RoomCalls)
      PROVE  AnswerKept
  <2>1. /\ form' \in Forms /\ form'.mounted = form.mounted /\ form'.open = form.open
        /\ form'.code = form.code
        /\ form'.armed => form'.mounted /\ form'.code \in Codes
        /\ form'.armed => changed(form', session.password)
    BY <1>0, <1>00, <1>2, RelistedForm
  <2> DEFINE m == Muddle(form', session.password)
  <2>2. m \in BOOLEAN
    BY <1>0 DEF Muddle
  <2>3. ~m => ~muddled.password
              /\ (form'.mounted /\ changed(form', session.password) => session.password \in typed'[form'.code])
    BY <2>1, Unmuddled DEF Muddle
  <2> HIDE DEF m
  <2>4. muddled' \in [password : BOOLEAN, list : BOOLEAN] /\ muddled'.password = m /\ muddled'.list = ml
    BY <1>2, <2>2 DEF m
  <2>5. ~m => (FieldKept => FieldKept')
    BY <1>0, <2>1, <2>3 DEF FieldKept
  <2> QED
    BY <1>2, <2>1, <2>3, <2>4, <2>5 DEF AnswerKept
<1>3. CASE ShelfAsks /\ UNCHANGED <<saved, rooms, form, roomCalls, muddled>>
  BY <1>0, <1>1, <1>3, RoomFetchCases DEF ShelfAsks
<1>4. CASE RoomsRead /\ UNCHANGED <<saved, rooms, form, roomCalls, muddled>>
  BY <1>0, <1>1, <1>4, RoomFetchCases DEF RoomsRead, Reads
<1>5. CASE RoomsLand /\ UNCHANGED <<saved, roomCalls>>
  <2>1. /\ roomsFetch.value \in Lists /\ NoFetch \in RoomFetches
        /\ roomsFetch' = NoFetch /\ rooms' = [known |-> TRUE, list |-> roomsFetch.value]
        /\ muddled' = [muddled EXCEPT !.password = Muddle(form', session.password)]
    BY <1>0, <1>5, RoomFetchCases DEF RoomsLand
  <2>2. rooms' \in [known : BOOLEAN, list : Lists]
    BY <2>1
  <2>3. muddled' = [password |-> Muddle(form', session.password), list |-> muddled.list]
        /\ muddled.list \in BOOLEAN
    BY <1>0, <2>1
  <2> DEFINE f == [form EXCEPT !.waiting = FALSE]
  <2>4. f \in Forms /\ f.mounted = form.mounted /\ f.open = form.open /\ f.code = form.code
    BY <1>0 DEF Forms
  <2>5. CASE form.mounted /\ form.waiting
    <3>1. form' = Relisted(f, roomsFetch.value)
      BY <1>5, <2>5 DEF RoomsLand
    <3> DEFINE ml == muddled.list
    <3>2. /\ ml \in BOOLEAN /\ (~ml => ~muddled.list)
          /\ muddled' = [password |-> Muddle(form', session.password), list |-> ml]
      BY <2>3
    <3>3. roomsFetch' \in RoomFetches
      BY <2>1
    <3> HIDE DEF f, ml
    <3> QED
      BY <1>0, <1>2, <1>5, <2>1, <2>2, <2>4, <3>1, <3>2, <3>3
  <2>6. CASE ~(form.mounted /\ form.waiting)
    <3>1. form' = form
      BY <1>5, <2>6 DEF RoomsLand
    <3>2. ~(Muddle(form, session.password)) => ~muddled.password
      BY DEF Muddle
    <3>3. Muddle(form, session.password) \in BOOLEAN
      BY <1>0 DEF Muddle
    <3> QED
      BY <1>0, <1>00, <1>5, <2>1, <2>2, <2>3, <3>1, <3>2, <3>3 DEF AnswerKept, FieldKept
  <2> QED
    BY <2>5, <2>6
<1>6. ASSUME NEW k \in DOMAIN roomCalls, CallRuns(k), UNCHANGED <<rooms, roomsFetch, form, muddled>>
      PROVE  AnswerKept
  <2> DEFINE c == roomCalls[k]
             d == [c EXCEPT !.at = "ran", !.answer = saved']
  <2>1. c \in RoomCalls /\ c.code \in Codes /\ c.password \in Passwords
    BY <1>0 DEF RoomCalls
  <2>2. saved' \in Lists
    BY <1>0, <1>6, <2>1 DEF CallRuns, Lists
  <2>3. roomCalls' = [roomCalls EXCEPT ![k] = d] /\ d \in RoomCalls
    BY <1>0, <1>6, <2>1, <2>2 DEF CallRuns, RoomCalls
  <2>4. roomCalls' \in Seq(RoomCalls)
    BY <1>0, <2>3, ExceptSeq
  <2> QED
    BY <1>0, <1>1, <1>6, <2>2, <2>4
<1>7. ASSUME NEW k \in DOMAIN roomCalls, CallFails(k),
             UNCHANGED <<saved, rooms, roomsFetch, form, muddled>>
      PROVE  AnswerKept
  BY <1>0, <1>1, <1>7, LeavesSeq DEF CallFails
<1>8. ASSUME NEW k \in DOMAIN roomCalls, CallAnswered(k), UNCHANGED <<saved, roomsFetch>>
      PROVE  AnswerKept
  <2> DEFINE l == roomCalls[k].answer
             ml == muddled.list \/ (form.mounted /\ roomCalls[k].from # form.n)
  <2>1. /\ roomCalls' \in Seq(RoomCalls) /\ l \in Lists
        /\ rooms' \in [known : BOOLEAN, list : Lists]
    <3>1. l \in Lists
      BY <1>0 DEF RoomCalls
    <3>2. rooms' = [known |-> TRUE, list |-> l] /\ roomCalls' = RemoveAt(roomCalls, k)
      BY <1>8 DEF CallAnswered
    <3> QED
      BY <1>0, <3>1, <3>2, LeavesSeq
  <2>2. ml \in BOOLEAN /\ (~ml => ~muddled.list)
    BY <1>0
  <2>3. /\ form' = IF form.mounted /\ roomCalls[k].from = form.n THEN Relisted(form, l) ELSE form
        /\ muddled' = [password |-> Muddle(form', session.password), list |-> ml]
    BY <1>8 DEF CallAnswered
  <2> HIDE DEF l, ml
  <2>5. CASE form.mounted /\ roomCalls[k].from = form.n
    BY <1>0, <1>2, <1>8, <2>1, <2>2, <2>3, <2>5
  <2>6. CASE ~(form.mounted /\ roomCalls[k].from = form.n)
    <3>1. form' = form
      BY <2>3, <2>6
    <3>2. ~(Muddle(form, session.password)) => ~muddled.password
      BY DEF Muddle
    <3>3. Muddle(form, session.password) \in BOOLEAN
      BY <1>0 DEF Muddle
    <3> QED
      BY <1>0, <1>00, <1>8, <2>1, <2>2, <2>3, <3>1, <3>2, <3>3 DEF AnswerKept, FieldKept
  <2> QED
    BY <2>5, <2>6
<1> QED
  BY <1>3, <1>4, <1>5, <1>6, <1>7, <1>8 DEF AnswerStep

\* Joining a room of the shelf, which no open panel covers.
LEMMA JoinSteps ==
  ASSUME RoomsTypeOK, NEW c \in Codes, JoinRoom(c)
  PROVE  /\ session' \in Sessions /\ wanted' \in Wanteds
         /\ typed' \in [Codes -> SUBSET Passwords] /\ \A d \in Codes : typed[d] \subseteq typed'[d]
         /\ form' \in Forms /\ form'.mounted = form.mounted /\ ~form'.open /\ ~form'.armed
         /\ form'.rooms = form.rooms /\ form'.waiting = form.waiting
         /\ Busy
<1>0. form \in Forms /\ typed \in [Codes -> SUBSET Passwords] /\ RowPassword(c) \in Passwords
  BY RowPasswordType DEF RoomsTypeOK
<1>1. /\ ~form.open /\ c \in Rows /\ form' = Armed(form, RowPassword(c))
      /\ Connect(c, RowPassword(c))
  BY DEF JoinRoom, OnShelf
<1>2. /\ session' \in Sessions /\ wanted' \in Wanteds
      /\ typed' \in [Codes -> SUBSET Passwords] /\ \A d \in Codes : typed[d] \subseteq typed'[d]
  BY <1>0, <1>1 DEF Connect, Sessions, Wanteds
<1>3. /\ form' \in Forms /\ form'.mounted = form.mounted /\ ~form'.open /\ ~form'.armed
      /\ form'.rooms = form.rooms /\ form'.waiting = form.waiting
  BY <1>0, <1>1, ArmedForm
<1>4. Busy
  BY <1>1, RoomsAssumption DEF Rows, ephemeral, activeCode, Busy
<1> QED
  BY <1>2, <1>3, <1>4

LEMMA RoomsTypeStep == RoomsTypeOK /\ RoomsStep => RoomsTypeOK'
<1> SUFFICES ASSUME RoomsTypeOK, RoomsStep PROVE RoomsTypeOK'
  OBVIOUS
<1>1. CASE UNCHANGED roomsVars
  BY <1>1 DEF roomsVars, RoomsTypeOK
<1>2. CASE ConnectionStep /\ UNCHANGED <<saved, rooms, roomsFetch, form, roomCalls, muddled>>
  BY <1>2, ConnectionSteps DEF RoomsTypeOK
<1>3. ASSUME NEW c \in Codes, JoinRoom(c), UNCHANGED <<saved, rooms, roomsFetch, roomCalls, muddled>>
      PROVE  RoomsTypeOK'
  BY <1>3, JoinSteps DEF RoomsTypeOK
<1>4. CASE PanelStep /\ UNCHANGED <<saved, rooms, wanted, dial, roomCalls>>
  BY <1>4, PanelSteps DEF PanelKept, RoomsTypeOK
<1>5. CASE CallStep /\ UNCHANGED <<saved, rooms, roomsFetch>>
  BY <1>5, CallSteps DEF CallKept, RoomsTypeOK
<1>6. CASE AnswerStep /\ UNCHANGED <<session, wanted, dial, typed>>
  <2>1. AnswerKept
    BY <1>6, AnswerSteps
  <2> QED
    BY <1>6, <2>1 DEF AnswerKept, RoomsTypeOK
<1>7. CASE ReloadRooms
  <2>1. NoForm \in Forms /\ ~NoForm.open /\ ~NoForm.armed /\ Unread \in Lists
    BY DEF NoForm, Unread, Lists, Forms
  <2> QED
    BY <1>7, <2>1 DEF ReloadRooms, RoomsTypeOK
<1> QED
  BY <1>1, <1>2, <1>3, <1>4, <1>5, <1>6, <1>7 DEF RoomsStep

\* What was muddled once stays so.
LEMMA MuddledStays ==
  RoomsTypeOK /\ RoomsStep => /\ ~muddled'.password => ~muddled.password
                              /\ ~muddled'.list => ~muddled.list
<1> SUFFICES ASSUME RoomsTypeOK, RoomsStep
             PROVE  (~muddled'.password => ~muddled.password) /\ (~muddled'.list => ~muddled.list)
  OBVIOUS
<1>1. CASE UNCHANGED muddled
  BY <1>1
<1>2. CASE PanelStep
  BY <1>2, PanelSteps DEF PanelKept
<1>3. CASE CallStep
  BY <1>3, CallSteps DEF CallKept
<1>4. CASE AnswerStep /\ UNCHANGED <<session, typed>>
  <2>1. AnswerKept
    BY <1>4, AnswerSteps
  <2> QED
    BY <2>1 DEF AnswerKept
<1> QED
  BY <1>1, <1>2, <1>3, <1>4 DEF RoomsStep, roomsVars, ReloadRooms

\* What is saved, what a save is bringing and what the field may save was meant.
Meant ==
  /\ \A c \in Codes : saved[c] \in typed[c] \cup {Absent}
  /\ \A k \in DOMAIN roomCalls :
       roomCalls[k].does = "save" => roomCalls[k].password \in typed[roomCalls[k].code]
  /\ FieldKept

LEMMA MeantStep == RoomsTypeOK /\ RoomsStep /\ Meant /\ ~muddled'.password => Meant'
<1> SUFFICES ASSUME RoomsTypeOK, RoomsStep, Meant, ~muddled'.password PROVE Meant'
  OBVIOUS
<1>0. /\ saved \in Lists /\ roomCalls \in Seq(RoomCalls) /\ form \in Forms
      /\ form.armed \/ (form.open /\ changed(form, session.password)) => form.code \in Codes
  <2>1. form.open /\ changed(form, session.password) => form.code \in Codes
    BY ChangedForm DEF RoomsTypeOK
  <2> QED
    BY <2>1 DEF RoomsTypeOK
<1>00. \A k \in DOMAIN roomCalls : roomCalls[k] \in RoomCalls /\ roomCalls[k].code \in Codes
  <2>1. \A k \in DOMAIN roomCalls : roomCalls[k] \in RoomCalls
    BY <1>0, MemberSeq
  <2> QED
    BY <2>1 DEF RoomCalls
<1>1. CASE UNCHANGED roomsVars
  BY <1>1 DEF roomsVars, Meant, FieldKept
<1>2. CASE ConnectionStep /\ UNCHANGED <<saved, rooms, roomsFetch, form, roomCalls, muddled>>
  <2>1. session'.password = session.password /\ \A c \in Codes : typed[c] \subseteq typed'[c]
    BY <1>2, ConnectionSteps
  <2> QED
    BY <1>0, <1>00, <1>2, <2>1 DEF Meant, FieldKept
<1>3. ASSUME NEW c \in Codes, JoinRoom(c), UNCHANGED <<saved, rooms, roomsFetch, roomCalls, muddled>>
      PROVE  Meant'
  <2>1. ~form'.open /\ ~form'.armed /\ \A d \in Codes : typed[d] \subseteq typed'[d]
    BY <1>3, JoinSteps
  <2> QED
    BY <1>0, <1>00, <1>3, <2>1 DEF Meant, FieldKept
<1>4. CASE PanelStep /\ UNCHANGED <<saved, rooms, wanted, dial, roomCalls>>
  <2>1. (FieldKept => FieldKept') /\ \A d \in Codes : typed[d] \subseteq typed'[d]
    BY <1>4, PanelSteps DEF PanelKept
  <2> QED
    BY <1>0, <1>00, <1>4, <2>1 DEF Meant
<1>5. CASE CallStep /\ UNCHANGED <<saved, rooms, roomsFetch>>
  <2>1. CallKept
    BY <1>5, CallSteps
  <2>2. FieldKept'
    <3>1. changed(form', session.password) = changed(form, session.password)
      BY <1>0, <2>1, ChangedForm DEF CallKept
    <3> QED
      BY <1>0, <2>1, <3>1 DEF CallKept, Meant, FieldKept
  <2>3. \A d \in Codes : typed[d] \subseteq typed'[d]
    BY <2>1 DEF CallKept
  <2>4. \A k \in DOMAIN roomCalls' :
          roomCalls'[k].does = "save" => roomCalls'[k].password \in typed'[roomCalls'[k].code]
    BY <1>00, <2>1, <2>3 DEF CallKept, Meant
  <2> QED
    BY <1>0, <1>5, <2>2, <2>3, <2>4 DEF Meant
<1>6. CASE AnswerStep /\ UNCHANGED <<session, wanted, dial, typed>>
  <2>1. FieldKept'
    BY <1>6, AnswerSteps DEF AnswerKept, Meant
  <2>2. CASE UNCHANGED <<saved, roomCalls>>
    BY <1>6, <2>1, <2>2 DEF Meant
  <2>3. ASSUME NEW k \in DOMAIN roomCalls, roomCalls' = RemoveAt(roomCalls, k), UNCHANGED saved
        PROVE  Meant'
    <3>1. \A i \in DOMAIN roomCalls' : \E j \in DOMAIN roomCalls : roomCalls'[i] = roomCalls[j]
      BY <1>0, <2>3, LeavesSeq
    <3> QED
      BY <1>6, <2>1, <2>3, <3>1 DEF Meant
  <2>4. ASSUME NEW k \in DOMAIN roomCalls, CallRuns(k)
        PROVE  Meant'
    <3> DEFINE c == roomCalls[k]
    <3>1. c \in RoomCalls /\ c.code \in Codes
      BY <1>00
    <3>2. /\ saved' = [saved EXCEPT ![c.code] = IF c.does = "save" THEN c.password ELSE Absent]
          /\ roomCalls' = [roomCalls EXCEPT ![k] = [c EXCEPT !.at = "ran", !.answer = saved']]
      BY <2>4 DEF CallRuns
    <3>3. \A d \in Codes : saved'[d] \in typed'[d] \cup {Absent}
      BY <1>0, <1>6, <3>1, <3>2 DEF Meant, Lists
    <3>4. \A i \in DOMAIN roomCalls' :
            /\ i \in DOMAIN roomCalls /\ roomCalls'[i].does = roomCalls[i].does
            /\ roomCalls'[i].password = roomCalls[i].password
            /\ roomCalls'[i].code = roomCalls[i].code
      BY <1>0, <1>00, <3>1, <3>2 DEF RoomCalls
    <3> QED
      BY <1>6, <2>1, <3>3, <3>4 DEF Meant
  <2> QED
    BY <1>6, <2>2, <2>3, <2>4 DEF AnswerStep, CallFails, CallAnswered
<1>7. CASE ReloadRooms
  <2>1. ~NoForm.open /\ ~NoForm.armed
    BY DEF NoForm
  <2> QED
    BY <1>7, <2>1 DEF ReloadRooms, Meant, FieldKept
<1> QED
  BY <1>1, <1>2, <1>3, <1>4, <1>5, <1>6, <1>7 DEF RoomsStep

\* Before the list is known, and while nothing reads it, nothing happens to rooms.
Unbegun == ~rooms.known /\ roomsFetch = NoFetch => ~Busy /\ roomCalls = <<>>

\* One call or one reading at a time; what it brings is what is saved, and with
\* neither on its way to the lists, what they hold is.
InStep ==
  /\ roomCalls # <<>> => roomsFetch = NoFetch /\ Len(roomCalls) = 1 /\ rooms.known
  /\ \A k \in DOMAIN roomCalls : roomCalls[k].at = "ran" => roomCalls[k].answer = saved
  /\ roomsFetch.at = "read" => roomsFetch.value = saved
  /\ form.mounted /\ roomsFetch # NoFetch => form.waiting
  /\ /\ roomsFetch = NoFetch /\ rooms.known
     /\ \A k \in DOMAIN roomCalls : roomCalls[k].at # "ran"
     => rooms.list = saved /\ (form.mounted => form.rooms = saved)

LEMMA UnbegunStep == RoomsTypeOK /\ RoomsStep /\ Unbegun => Unbegun'
<1> SUFFICES ASSUME RoomsTypeOK, RoomsStep, Unbegun PROVE Unbegun'
  OBVIOUS
<1>0. /\ form.open => form.mounted
      /\ rooms.list \in Lists /\ roomCalls \in Seq(RoomCalls)
  BY DEF RoomsTypeOK
<1>1. CASE UNCHANGED roomsVars
  BY <1>1 DEF roomsVars, Unbegun, Busy
<1>2. CASE UNCHANGED <<rooms, roomsFetch>> /\ Busy
  BY <1>2 DEF Unbegun
<1>3. CASE UNCHANGED <<rooms, roomsFetch>> /\ ConnectionStep
  <2>1. Busy
    BY <1>0, <1>3 DEF ConnectionStep, DialOpens, DialFails, Drops, Refused, Joined, Retry,
                      ConnectForm, LeaveForm, LeaveShelfRoom, Busy
  <2> QED
    BY <1>2, <1>3, <2>1
<1>4. ASSUME NEW c \in Codes, JoinRoom(c), UNCHANGED <<rooms, roomsFetch>> PROVE Unbegun'
  BY <1>2, <1>4, JoinSteps
<1>5. CASE CallStep /\ UNCHANGED <<rooms, roomsFetch>>
  BY <1>2, <1>5, CallSteps DEF CallKept
<1>6. CASE PanelStep /\ UNCHANGED <<saved, rooms, wanted, dial, roomCalls>>
  <2>1. PanelKept
    BY <1>6, PanelSteps
  <2>2. CASE roomsFetch' = Ask
    <3>1. roomsFetch' # NoFetch
      BY <2>2, RoomFetchCases DEF Ask
    <3> QED
      BY <3>1 DEF Unbegun
  <2>3. CASE rooms.known
    BY <1>6, <2>3 DEF Unbegun
  <2>4. CASE UNCHANGED roomsFetch /\ (form'.mounted => form.mounted)
    BY <1>6, <2>1, <2>4 DEF PanelKept, Unbegun, Busy
  <2> QED
    BY <2>1, <2>2, <2>3, <2>4 DEF PanelKept
<1>7. CASE AnswerStep
  <2>1. CASE ShelfAsks \/ RoomsRead
    <3>1. roomsFetch' # NoFetch
      BY <2>1, RoomFetchCases DEF ShelfAsks, RoomsRead, Reads
    <3> QED
      BY <3>1 DEF Unbegun
  <2>2. CASE RoomsLand
    BY <2>2 DEF RoomsLand, Unbegun
  <2>3. ASSUME NEW k \in DOMAIN roomCalls, CallAnswered(k) PROVE Unbegun'
    BY <2>3 DEF CallAnswered, Unbegun
  <2>4. ASSUME NEW k \in DOMAIN roomCalls, UNCHANGED <<rooms, roomsFetch>> PROVE Unbegun'
    <3>1. roomCalls # <<>>
      BY <1>0, EmptySeq
    <3> QED
      BY <2>4, <3>1 DEF Unbegun
  <2> QED
    BY <1>7, <2>1, <2>2, <2>3, <2>4 DEF AnswerStep
<1>8. CASE ReloadRooms
  BY <1>8 DEF ReloadRooms, NoForm, GivenUp, NoDial, Unread, Unbegun, Busy
<1> QED
  BY <1>1, <1>3, <1>4, <1>5, <1>6, <1>7, <1>8 DEF RoomsStep

LEMMA InStepStep ==
  RoomsTypeOK /\ RoomsStep /\ Unbegun /\ InStep /\ ~muddled'.list => InStep'
<1> SUFFICES ASSUME RoomsTypeOK, RoomsStep, Unbegun, InStep, ~muddled'.list PROVE InStep'
  OBVIOUS
<1>0. /\ roomCalls \in Seq(RoomCalls) /\ form \in Forms /\ roomsFetch \in RoomFetches
      /\ saved \in Lists
      /\ \A k \in DOMAIN roomCalls : roomCalls[k] \in RoomCalls
  BY MemberSeq DEF RoomsTypeOK
<1>00. \A k \in DOMAIN roomCalls : /\ k = 1 /\ DOMAIN roomCalls = {1} /\ Len(roomCalls) = 1
                                   /\ roomsFetch = NoFetch /\ rooms.known
                                   /\ RemoveAt(roomCalls, k) = <<>>
  BY <1>0, EmptySeq, OneSeq DEF InStep
<1>1. CASE UNCHANGED roomsVars
  BY <1>1 DEF roomsVars, InStep
<1>2. CASE UNCHANGED <<saved, rooms, roomsFetch, form, roomCalls>>
  BY <1>2 DEF InStep
<1>3. ASSUME NEW c \in Codes, JoinRoom(c), UNCHANGED <<saved, rooms, roomsFetch, roomCalls, muddled>>
      PROVE  InStep'
  <2>1. form'.mounted = form.mounted /\ form'.rooms = form.rooms /\ form'.waiting = form.waiting
    BY <1>3, JoinSteps
  <2> QED
    BY <1>3, <2>1 DEF InStep
<1>4. CASE PanelStep /\ UNCHANGED <<saved, rooms, wanted, dial, roomCalls>>
  <2>1. CASE /\ UNCHANGED roomsFetch
             /\ form'.mounted => /\ form.mounted /\ form'.rooms = form.rooms
                                 /\ form'.waiting = form.waiting
    BY <1>4, <2>1 DEF InStep
  <2>2. CASE /\ roomCalls = <<>> /\ roomsFetch = NoFetch
             /\ \/ form'.waiting /\ roomsFetch' = Ask
                \/ rooms.known /\ form'.rooms = rooms.list /\ UNCHANGED roomsFetch
    <3>1. CASE form'.waiting /\ roomsFetch' = Ask
      <4>1. roomsFetch' = Asked /\ Asked.at # "read" /\ Asked # NoFetch
        BY <2>2, <3>1, RoomFetchCases DEF Ask
      <4> QED
        BY <1>4, <2>2, <3>1, <4>1 DEF InStep
    <3>2. CASE rooms.known /\ form'.rooms = rooms.list /\ UNCHANGED roomsFetch
      BY <1>4, <2>2, <3>2 DEF InStep
    <3> QED
      BY <2>2, <3>1, <3>2
  <2> QED
    BY <1>4, <2>1, <2>2, PanelSteps DEF PanelKept
<1>5. CASE CallStep /\ UNCHANGED <<saved, rooms, roomsFetch>>
  <2>1. CallKept
    BY <1>5, CallSteps
  <2>2. roomCalls = <<>> /\ roomsFetch = NoFetch /\ Busy
    BY <2>1 DEF CallKept
  <2>3. rooms.known
    BY <2>2 DEF Unbegun
  <2>4. Len(roomCalls') = 1 /\ \A k \in DOMAIN roomCalls' : roomCalls'[k].at = "sent"
    BY <2>1, <2>2 DEF CallKept
  <2>5. /\ form'.mounted = form.mounted /\ form'.rooms = form.rooms
    BY <2>1 DEF CallKept
  <2>6. rooms.list = saved /\ (form.mounted => form.rooms = saved)
    BY <2>2, <2>3 DEF InStep
  <2> QED
    BY <1>5, <2>2, <2>3, <2>4, <2>5, <2>6, RoomFetchCases DEF InStep
<1>6. CASE AnswerStep /\ UNCHANGED <<session, wanted, dial, typed>>
  <2>1. CASE ShelfAsks /\ UNCHANGED <<saved, rooms, form, roomCalls, muddled>>
    <3>1. roomsFetch = NoFetch /\ ~rooms.known /\ roomsFetch' = Asked
      BY <2>1 DEF ShelfAsks
    <3>2. ~form.mounted /\ roomCalls = <<>>
      BY <3>1 DEF Unbegun, Busy
    <3> QED
      BY <2>1, <3>1, <3>2, RoomFetchCases DEF InStep
  <2>2. CASE RoomsRead /\ UNCHANGED <<saved, rooms, form, roomCalls, muddled>>
    <3>1. roomsFetch.at = "asked" /\ roomsFetch' = ReadOf(saved)
      BY <2>2 DEF RoomsRead, Reads
    <3>2. roomsFetch # NoFetch /\ roomsFetch' # NoFetch /\ roomsFetch'.value = saved
      BY <3>1, RoomFetchCases
    <3> QED
      BY <2>2, <3>2 DEF InStep
  <2>3. CASE RoomsLand /\ UNCHANGED <<saved, roomCalls>>
    <3>1. /\ roomsFetch # NoFetch /\ roomsFetch.value = saved
      BY <2>3, RoomFetchCases DEF RoomsLand, InStep
    <3>2. roomsFetch' = NoFetch /\ rooms'.known /\ rooms'.list = saved /\ NoFetch.at # "read"
      BY <2>3, <3>1, RoomFetchCases DEF RoomsLand
    <3>3. form'.mounted = form.mounted
      BY <1>6, AnswerSteps DEF AnswerKept
    <3>4. form.mounted => form'.rooms = saved
      <4>1. SUFFICES ASSUME form.mounted PROVE form'.rooms = saved
        OBVIOUS
      <4> DEFINE f == [form EXCEPT !.waiting = FALSE]
      <4>2. form.waiting
        BY <3>1, <4>1 DEF InStep
      <4>3. f \in Forms /\ f.mounted = form.mounted /\ f.open = form.open /\ f.code = form.code
        BY <1>0 DEF Forms
      <4>4. form' = Relisted(f, saved)
        BY <2>3, <3>1, <4>1, <4>2 DEF RoomsLand
      <4> HIDE DEF f
      <4> QED
        BY <1>0, <4>3, <4>4, RelistedForm
    <3> QED
      BY <2>3, <3>1, <3>2, <3>3, <3>4 DEF InStep
  <2>4. ASSUME NEW k \in DOMAIN roomCalls, CallRuns(k), UNCHANGED <<rooms, roomsFetch, form, muddled>>
        PROVE  InStep'
    <3>1. roomCalls' = [roomCalls EXCEPT ![k] = [roomCalls[k] EXCEPT !.at = "ran", !.answer = saved']]
      BY <1>0, <2>4 DEF CallRuns
    <3>2. /\ DOMAIN roomCalls' = {1} /\ Len(roomCalls') = 1
          /\ roomCalls'[1].at = "ran" /\ roomCalls'[1].answer = saved'
      BY <1>0, <1>00, <3>1 DEF RoomCalls
    <3> QED
      BY <1>00, <2>4, <3>2, RoomFetchCases DEF InStep
  <2>5. ASSUME NEW k \in DOMAIN roomCalls, CallFails(k),
               UNCHANGED <<saved, rooms, roomsFetch, form, muddled>>
        PROVE  InStep'
    <3>1. roomCalls' = <<>> /\ \A j \in DOMAIN roomCalls : roomCalls[j].at # "ran"
      BY <1>00, <2>5 DEF CallFails
    <3> QED
      BY <1>00, <2>5, <3>1 DEF InStep
  <2>6. ASSUME NEW k \in DOMAIN roomCalls, CallAnswered(k), UNCHANGED <<saved, roomsFetch>>
        PROVE  InStep'
    <3>1. roomCalls' = <<>> /\ roomsFetch' = NoFetch /\ NoFetch.at # "read"
      BY <1>00, <2>6, RoomFetchCases DEF CallAnswered
    <3>2. roomCalls[k].answer = saved
      BY <2>6 DEF CallAnswered, InStep
    <3>3. rooms'.known /\ rooms'.list = saved
      BY <2>6, <3>2 DEF CallAnswered
    <3>4. form.mounted => roomCalls[k].from = form.n
      BY <2>6 DEF CallAnswered
    <3>5. form'.mounted => form'.rooms = saved
      <4>1. form' = IF form.mounted THEN Relisted(form, saved) ELSE form
        BY <2>6, <3>2, <3>4 DEF CallAnswered
      <4> QED
        BY <1>0, <4>1, RelistedForm
    <3> QED
      BY <2>6, <3>1, <3>3, <3>5 DEF InStep
  <2> QED
    BY <1>6, <2>1, <2>2, <2>3, <2>4, <2>5, <2>6 DEF AnswerStep
<1>7. CASE ReloadRooms
  BY <1>7 DEF ReloadRooms, NoForm, InStep
<1> QED
  BY <1>1, <1>2, <1>3, <1>4, <1>5, <1>6, <1>7 DEF RoomsStep

\* However codes, passwords, pauses, presses, connections, answers and readings
\* come in between: no password meant for one room is saved for another, and with
\* nothing under way the shelf and the panel list what is saved
\* (use-room-form.ts, rooms.tsx); but for the overlaps both of them name.
THEOREM WindowRoomsKept == Spec => []RoomsKept
<1> DEFINE Inv == /\ RoomsTypeOK /\ Unbegun
                  /\ ~muddled.password => Meant
                  /\ ~muddled.list => InStep
<1>1. Init => Inv
  <2> SUFFICES ASSUME Init PROVE Inv
    OBVIOUS
  <2>1. /\ saved = Saved /\ rooms = [known |-> FALSE, list |-> Unread] /\ roomsFetch = NoFetch
        /\ form = NoForm /\ wanted = GivenUp /\ dial = NoDial /\ roomCalls = <<>>
        /\ typed = [c \in Codes |-> {Saved[c]} \ {Absent}]
        /\ muddled = [password |-> FALSE, list |-> FALSE]
    BY DEF Init, RoomsInit
  <2>2. PICK seed \in Seeds :
          session = Seeded(IF left.rooms = 0 THEN [room |-> NoRoom, password |-> ""] ELSE seed)
    BY DEF Init, RoomsInit
  <2>3. session \in Sessions /\ session.status = "idle"
    BY <2>2, RoomsAssumption DEF Seeded, Sessions
  <2>4. Unread \in Lists /\ Saved \in Lists
    BY RoomsAssumption DEF Unread, Lists
  <2>5. form \in Forms /\ ~form.open /\ ~form.armed /\ ~form.mounted
    BY <2>1, <2>4 DEF NoForm, Forms
  <2>6. typed \in [Codes -> SUBSET Passwords]
    BY <2>1, RoomsAssumption
  <2>7. roomsFetch \in RoomFetches /\ NoFetch.at # "read"
    BY <2>1, RoomFetchCases
  <2>8. RoomsTypeOK
    BY <2>1, <2>3, <2>4, <2>5, <2>6, <2>7 DEF RoomsTypeOK, GivenUp, Wanteds
  <2>9. Unbegun
    BY <2>1, <2>3, <2>5 DEF Unbegun, Busy, GivenUp, Unread
  <2>10. Meant
    <3>1. \A c \in Codes : saved[c] \in typed[c] \cup {Absent}
      BY <2>1
    <3>2. DOMAIN roomCalls = {}
      BY <2>1
    <3> QED
      BY <2>5, <3>1, <3>2 DEF Meant, FieldKept
  <2>11. InStep
    BY <2>1, <2>5, <2>7 DEF InStep
  <2> QED
    BY <2>8, <2>9, <2>10, <2>11
<1>2. Inv /\ [Next]_vars => Inv'
  <2> SUFFICES ASSUME Inv, [Next]_vars PROVE Inv'
    OBVIOUS
  <2>1. RoomsStep
    BY RoomsFrame DEF vars, RoomsStep
  <2> QED
    BY <2>1, RoomsTypeStep, UnbegunStep, MuddledStays, MeantStep, InStepStep
<1>3. Inv => RoomsKept
  <2> SUFFICES ASSUME Inv PROVE RoomsKept
    OBVIOUS
  <2>1. OwnPassword
    BY DEF Meant, OwnPassword
  <2>2. RoomsSettle
    BY DEF InStep, RoomsSettle
  <2> QED
    BY <2>1, <2>2 DEF RoomsKept
<1> QED
  BY <1>1, <1>2, <1>3, PTL DEF Spec

(***************************************************************************)
(* Songs by rows, and lists put together                                   *)
(***************************************************************************)

\* The songs of a list at some places, and the rows in the order of a key.
Along(s, row, m) == [k \in 1 .. m |-> s[row[k]]]
ByKey(row, m, rows, key) ==
  /\ m \in Nat /\ row \in [1 .. m -> rows]
  /\ \A i \in rows : \E k \in 1 .. m : row[k] = i
  /\ \A k, l \in 1 .. m :
       k < l => key[row[k]] <= key[row[l]] /\ (key[row[k]] = key[row[l]] => row[k] < row[l])

\* Rows by a key: each row once, in the order of the key.
LEMMA ArrangedRows ==
  ASSUME NEW T, NEW s \in Seq(T), NEW rows \in SUBSET (DOMAIN s), NEW key \in [DOMAIN s -> Int]
  PROVE  \E m, row : ByKey(row, m, rows, key) /\ Arranged(s, rows, key) = Along(s, row, m)
<1> DEFINE Before(i) == {j \in rows : key[j] < key[i] \/ (key[j] = key[i] /\ j <= i)}
           n == Cardinality(rows)
           rank == [i \in rows |-> Cardinality(Before(i))]
<1>1. /\ DOMAIN s = 1 .. Len(s) /\ Len(s) \in Nat
      /\ \A i \in rows : i \in Int /\ key[i] \in Int /\ s[i] \in T
  OBVIOUS
<1>2. IsFiniteSet(rows) /\ n \in Nat
  <2>1. IsFiniteSet(1 .. Len(s))
    BY <1>1, FS_Interval
  <2> QED
    BY <1>1, <2>1, FS_Subset, FS_CardinalityType
<1>3. \A i \in rows : /\ IsFiniteSet(Before(i)) /\ Cardinality(Before(i)) \in 1 .. n
  <2> SUFFICES ASSUME NEW i \in rows
               PROVE  IsFiniteSet(Before(i)) /\ Cardinality(Before(i)) \in 1 .. n
    OBVIOUS
  <2>1. Before(i) \in SUBSET rows /\ i \in Before(i)
    BY <1>1
  <2> HIDE DEF Before
  <2>2. /\ IsFiniteSet(Before(i)) /\ Cardinality(Before(i)) <= n
    BY <1>2, <2>1, FS_Subset
  <2>3. Cardinality(Before(i)) \in Nat /\ Cardinality(Before(i)) # 0
    BY <2>1, <2>2, FS_CardinalityType, FS_EmptySet
  <2> QED
    BY <1>2, <2>2, <2>3
<1>4. ASSUME NEW i \in rows, NEW j \in rows, j \notin Before(i)
      PROVE  Cardinality(Before(i)) # Cardinality(Before(j)) /\ Cardinality(Before(i)) <= Cardinality(Before(j))
  <2>1. Before(i) \in SUBSET Before(j) /\ j \in Before(j) /\ Before(i) # Before(j)
    <3>1. \A k \in Before(i) : k \in Before(j)
      BY <1>1, <1>4
    <3>2. j \in Before(j)
      BY <1>1
    <3> QED
      BY <1>4, <3>1, <3>2
  <2> HIDE DEF Before
  <2> QED
    BY <1>3, <2>1, FS_Subset
<1>5. \A i, j \in rows : i # j => j \notin Before(i) \/ i \notin Before(j)
  BY <1>1
<1>6. \A i, j \in rows : rank[i] = rank[j] => i = j
  <2> HIDE DEF Before
  <2> QED
    BY <1>4, <1>5
<1>7. /\ rank \in [rows -> 1 .. n] /\ \A i \in rows : rank[i] = Cardinality(Before(i))
  <2> HIDE DEF Before
  <2> QED
    BY <1>3
<1> HIDE DEF rank
<1>8. \A k \in 1 .. n : \E i \in rows : rank[i] = k
  <2>1. rank \in Injection(rows, 1 .. n)
    BY <1>6, <1>7 DEF Injection, IsInjective
  <2>2. IsFiniteSet(1 .. n) /\ Cardinality(1 .. n) = n
    BY <1>2, FS_Interval
  <2>3. rank \in Surjection(rows, 1 .. n)
    BY <2>1, <2>2, FS_Injection
  <2> QED
    BY <2>3 DEF Surjection
<1> DEFINE place(k) == CHOOSE i \in rows : Cardinality(Before(i)) = k
           row == [k \in 1 .. n |-> place(k)]
<1>9. \A k \in 1 .. n : place(k) \in rows /\ rank[place(k)] = k
  <2> SUFFICES ASSUME NEW k \in 1 .. n PROVE place(k) \in rows /\ rank[place(k)] = k
    OBVIOUS
  <2>1. \E i \in rows : Cardinality(Before(i)) = k
    BY <1>7, <1>8
  <2>2. place(k) \in rows /\ Cardinality(Before(place(k))) = k
    <3> HIDE DEF Before
    <3> QED
      BY <2>1
  <2> QED
    BY <1>7, <2>2
<1>10. Arranged(s, rows, key) = [k \in 1 .. n |-> s[place(k)]]
  BY DEF Arranged
<1> HIDE DEF place
<1>11. row \in [1 .. n -> rows] /\ \A k \in 1 .. n : row[k] = place(k)
  BY <1>9
<1>12. Arranged(s, rows, key) = [k \in 1 .. n |-> s[row[k]]]
  BY <1>10, <1>11
<1> HIDE DEF row
<1>13. \A i \in rows : rank[i] \in 1 .. n /\ row[rank[i]] = i
  BY <1>6, <1>7, <1>9, <1>11
<1>14. ASSUME NEW k \in 1 .. n, NEW l \in 1 .. n, k < l
       PROVE  key[row[k]] <= key[row[l]] /\ (key[row[k]] = key[row[l]] => row[k] < row[l])
  <2>1. row[k] \in rows /\ row[l] \in rows /\ rank[row[k]] = k /\ rank[row[l]] = l
    BY <1>9, <1>11
  <2>2. row[l] \notin Before(row[k])
    <3> SUFFICES ASSUME row[l] \in Before(row[k]) PROVE FALSE
      OBVIOUS
    <3>1. Before(row[l]) \in SUBSET Before(row[k])
      BY <1>1, <2>1
    <3> HIDE DEF Before
    <3>2. Cardinality(Before(row[l])) <= Cardinality(Before(row[k]))
      BY <1>3, <2>1, <3>1, FS_Subset
    <3> QED
      BY <1>2, <1>7, <1>14, <2>1, <3>2
  <2> QED
    BY <1>1, <2>1, <2>2
<1>15. \A i \in rows : \E k \in 1 .. n : row[k] = i
  BY <1>13
<1> HIDE DEF Before, n
<1>16. ByKey(row, n, rows, key)
  BY <1>2, <1>11, <1>14, <1>15 DEF ByKey
<1>17. Arranged(s, rows, key) = Along(s, row, n)
  BY <1>12 DEF Along
<1> QED
  BY <1>16, <1>17

\* Rows by a key: as many songs as there are rows, and none but theirs.
LEMMA ArrangedSongs ==
  ASSUME NEW T, NEW s \in Seq(T), NEW rows \in SUBSET (DOMAIN s), NEW key \in [DOMAIN s -> Int]
  PROVE  /\ Arranged(s, rows, key) \in Seq(T)
         /\ ToSet(Arranged(s, rows, key)) = {s[i] : i \in rows}
<1> DEFINE t == Arranged(s, rows, key)
<1>1. PICK n, row : ByKey(row, n, rows, key) /\ t = Along(s, row, n)
  BY ArrangedRows
<1> HIDE DEF t
<1>2. /\ n \in Nat /\ row \in [1 .. n -> rows] /\ \A i \in rows : \E k \in 1 .. n : row[k] = i
  BY <1>1 DEF ByKey
<1>3. t = [k \in 1 .. n |-> s[row[k]]]
  BY <1>1 DEF Along
<1>4. t \in [1 .. n -> T]
  BY <1>2, <1>3
<1>5. t \in Seq(T)
  BY <1>2, <1>4, IsASeq
<1>6. DOMAIN t = 1 .. n /\ \A k \in 1 .. n : t[k] = s[row[k]] /\ row[k] \in rows
  BY <1>2, <1>3
<1>7. \A x \in ToSet(t) : x \in {s[i] : i \in rows}
  BY <1>6 DEF ToSet
<1>8. \A x \in {s[i] : i \in rows} : x \in ToSet(t)
  <2> SUFFICES ASSUME NEW i \in rows PROVE s[i] \in ToSet(t)
    OBVIOUS
  <2>1. PICK k \in 1 .. n : row[k] = i
    BY <1>2
  <2>2. k \in DOMAIN t /\ t[k] = s[i]
    BY <1>6, <2>1
  <2> QED
    BY <2>2 DEF ToSet
<1> QED
  BY <1>5, <1>7, <1>8 DEF t

\* What is kept of a list is what it holds of the songs asked for.
LEMMA OnlySongs ==
  ASSUME NEW T, NEW s \in Seq(T), NEW some
  PROVE  /\ Only(s, some) \in Seq(T) /\ ToSet(Only(s, some)) = ToSet(s) \cap some
         /\ Without(s, some) \in Seq(T) /\ ToSet(Without(s, some)) = ToSet(s) \ some
<1>1. ASSUME NEW those
      PROVE  Only(s, those) \in Seq(T) /\ ToSet(Only(s, those)) = ToSet(s) \cap those
  <2> DEFINE rows == {i \in DOMAIN s : s[i] \in those}
             key == [i \in DOMAIN s |-> 0]
  <2>1. rows \in SUBSET (DOMAIN s) /\ key \in [DOMAIN s -> Int]
    OBVIOUS
  <2>2. {s[i] : i \in rows} = ToSet(s) \cap those
    BY DEF ToSet
  <2>3. Only(s, those) = Arranged(s, rows, key)
    BY DEF Only
  <2> HIDE DEF rows, key
  <2>4. /\ Arranged(s, rows, key) \in Seq(T)
        /\ ToSet(Arranged(s, rows, key)) = {s[i] : i \in rows}
    BY <2>1, ArrangedSongs
  <2> QED
    BY <2>2, <2>3, <2>4, Zenon
<1>2. Without(s, some) = Only(s, ToSet(s) \ some)
  BY DEF Without
<1> QED
  BY <1>1, <1>2

\* The songs of a set, in some order.
LEMMA SetSongs ==
  ASSUME NEW S, IsFiniteSet(S)
  PROVE  SetToSeq(S) \in Seq(S) /\ ToSet(SetToSeq(S)) = S
<1> DEFINE n == Cardinality(S)
<1>1. n \in Nat /\ ExistsBijection(1 .. n, S)
  BY FS_CardinalityType
<1>2. \E f \in [1 .. n -> S] : IsInjective(f)
  BY <1>1 DEF ExistsBijection, Bijection, Injection
<1>3. SetToSeq(S) \in [1 .. n -> S] /\ IsInjective(SetToSeq(S))
  BY <1>2 DEF SetToSeq
<1> DEFINE q == SetToSeq(S)
<1> HIDE DEF q
<1>4. q \in [1 .. n -> S] /\ q \in Injection(1 .. n, S)
  BY <1>3 DEF Injection, q
<1>5. IsFiniteSet(1 .. n) /\ Cardinality(1 .. n) = n
  BY <1>1, FS_Interval
<1>6. q \in Surjection(1 .. n, S)
  BY <1>4, <1>5, FS_Injection
<1>7. q \in Seq(S) /\ DOMAIN q = 1 .. n
  BY <1>1, <1>4, IsASeq
<1>8. ToSet(q) = S
  <2>1. \A x \in S : x \in ToSet(q)
    BY <1>6, <1>7 DEF Surjection, ToSet
  <2>2. \A x \in ToSet(q) : x \in S
    BY <1>4, <1>7 DEF ToSet
  <2> QED
    BY <2>1, <2>2
<1> QED
  BY <1>7, <1>8 DEF q

LEMMA ConcatSongs ==
  ASSUME NEW T, NEW s \in Seq(T), NEW t \in Seq(T)
  PROVE  s \o t \in Seq(T) /\ ToSet(s \o t) = ToSet(s) \cup ToSet(t)
<1>1. /\ s \o t \in Seq(T) /\ Len(s \o t) = Len(s) + Len(t)
      /\ \A i \in 1 .. Len(s) + Len(t) : (s \o t)[i] = IF i <= Len(s) THEN s[i] ELSE t[i - Len(s)]
  BY ConcatProperties
<1> DEFINE u == s \o t
<1> HIDE DEF u
<1>2. /\ DOMAIN u = 1 .. Len(s) + Len(t) /\ DOMAIN s = 1 .. Len(s) /\ DOMAIN t = 1 .. Len(t)
      /\ Len(s) \in Nat /\ Len(t) \in Nat
      /\ \A i \in 1 .. Len(s) + Len(t) : u[i] = IF i <= Len(s) THEN s[i] ELSE t[i - Len(s)]
  BY <1>1 DEF u
<1>3. \A i \in DOMAIN u : u[i] \in ToSet(s) \cup ToSet(t)
  <2> SUFFICES ASSUME NEW i \in 1 .. Len(s) + Len(t) PROVE u[i] \in ToSet(s) \cup ToSet(t)
    BY <1>2
  <2>1. CASE i <= Len(s)
    BY <1>2, <2>1 DEF ToSet
  <2>2. CASE ~(i <= Len(s))
    <3>1. i - Len(s) \in 1 .. Len(t) /\ u[i] = t[i - Len(s)]
      BY <1>2, <2>2
    <3> QED
      BY <1>2, <3>1 DEF ToSet
  <2> QED
    BY <2>1, <2>2
<1>4. \A i \in DOMAIN s : s[i] \in ToSet(u)
  <2> SUFFICES ASSUME NEW i \in 1 .. Len(s) PROVE s[i] \in ToSet(u)
    BY <1>2
  <2>1. i \in DOMAIN u /\ u[i] = s[i]
    BY <1>2
  <2> QED
    BY <2>1 DEF ToSet
<1>5. \A i \in DOMAIN t : t[i] \in ToSet(u)
  <2> SUFFICES ASSUME NEW i \in 1 .. Len(t) PROVE t[i] \in ToSet(u)
    BY <1>2
  <2>1. Len(s) + i \in DOMAIN u /\ ~(Len(s) + i <= Len(s)) /\ (Len(s) + i) - Len(s) = i
    BY <1>2
  <2>2. u[Len(s) + i] = t[i]
    BY <1>2, <2>1
  <2> QED
    BY <2>1, <2>2 DEF ToSet
<1>6. ToSet(u) = ToSet(s) \cup ToSet(t)
  <2>1. \A x \in ToSet(u) : x \in ToSet(s) \cup ToSet(t)
    BY <1>3 DEF ToSet
  <2>2. \A x \in ToSet(s) \cup ToSet(t) : x \in ToSet(u)
    BY <1>4, <1>5 DEF ToSet
  <2> QED
    BY <2>1, <2>2
<1> QED
  BY <1>1, <1>6 DEF u

\* A list of numbers that enumerates the places of some songs from first to last.
Places(row, m, s, some) ==
  /\ m \in Nat /\ row \in [1 .. m -> DOMAIN s]
  /\ \A k \in 1 .. m : s[row[k]] \in some
  /\ \A i \in DOMAIN s : s[i] \in some => \E k \in 1 .. m : row[k] = i
  /\ \A k, l \in 1 .. m : k < l => row[k] < row[l]

\* Such a list is there, and what is kept of the list of songs is read along it.
LEMMA OnlyPlaces ==
  ASSUME NEW T, NEW s \in Seq(T), NEW some
  PROVE  \E m, row : Places(row, m, s, some) /\ Only(s, some) = Along(s, row, m)
<1> DEFINE rows == {i \in DOMAIN s : s[i] \in some}
           key == [i \in DOMAIN s |-> 0]
<1>1. rows \in SUBSET (DOMAIN s) /\ key \in [DOMAIN s -> Int]
  OBVIOUS
<1>2. Only(s, some) = Arranged(s, rows, key)
  BY DEF Only
<1>3. \A i \in rows : key[i] = 0 /\ s[i] \in some /\ i \in DOMAIN s
  OBVIOUS
<1>4. \A i \in DOMAIN s : s[i] \in some => i \in rows
  OBVIOUS
<1> HIDE DEF rows, key
<1>5. PICK m, row : ByKey(row, m, rows, key) /\ Arranged(s, rows, key) = Along(s, row, m)
  BY <1>1, ArrangedRows
<1>6. Places(row, m, s, some)
  BY <1>1, <1>3, <1>4, <1>5 DEF ByKey, Places
<1> QED
  BY <1>2, <1>5, <1>6

\* There is no other such list.
LEMMA PlacesOnly ==
  ASSUME NEW T, NEW s \in Seq(T), NEW some, NEW m, NEW row, Places(row, m, s, some)
  PROVE  Only(s, some) = Along(s, row, m)
<1> DEFINE rows == {i \in DOMAIN s : s[i] \in some}
           key == [i \in DOMAIN s |-> 0]
           Before(i) == {j \in rows : key[j] < key[i] \/ (key[j] = key[i] /\ j <= i)}
<1>1. /\ m \in Nat /\ row \in [1 .. m -> rows]
      /\ \A i \in rows : \E k \in 1 .. m : row[k] = i
      /\ \A k, l \in 1 .. m : k < l => row[k] < row[l]
      /\ \A i \in rows : i \in Int /\ key[i] = 0
  BY DEF Places
<1>2. Only(s, some) = [k \in 1 .. Cardinality(rows) |-> s[CHOOSE i \in rows : Cardinality(Before(i)) = k]]
  BY DEF Only, Arranged
<1> HIDE DEF rows, key
<1>3. \A k, l \in 1 .. m : row[k] <= row[l] <=> k <= l
  BY <1>1
<1>4. ASSUME NEW S, NEW k \in 0 .. m, \A j : j \in S <=> j \in rows /\ \E l \in 1 .. k : row[l] = j
      PROVE  Cardinality(S) = k
  <2> DEFINE f == [l \in 1 .. k |-> row[l]]
  <2>1. k \in Nat /\ 1 .. k \subseteq 1 .. m
    BY <1>1
  <2>2. f \in [1 .. k -> S] /\ \A l \in 1 .. k : f[l] = row[l]
    BY <1>1, <1>4, <2>1
  <2> HIDE DEF f
  <2>3. \A j \in S : \E l \in 1 .. k : f[l] = j
    BY <1>4, <2>2
  <2>4. \A l, j \in 1 .. k : f[l] = f[j] => l = j
    BY <1>1, <2>1, <2>2
  <2>5. f \in Bijection(1 .. k, S)
    BY <2>2, <2>3, <2>4 DEF Bijection, Injection, Surjection, IsInjective
  <2>6. IsFiniteSet(1 .. k) /\ Cardinality(1 .. k) = k
    BY <2>1, FS_Interval
  <2>7. ExistsBijection(1 .. k, S)
    BY <2>5 DEF ExistsBijection
  <2> QED
    BY <2>6, <2>7, FS_Bijection
<1>5. Cardinality(rows) = m
  BY <1>1, <1>4
<1>6. \A k \in 1 .. m : Cardinality(Before(row[k])) = k
  <2> SUFFICES ASSUME NEW k \in 1 .. m PROVE Cardinality(Before(row[k])) = k
    OBVIOUS
  <2>1. k \in 0 .. m /\ \A l \in 1 .. m : l <= k <=> l \in 1 .. k
    BY <1>1
  <2>2. \A j : j \in Before(row[k]) <=> j \in rows /\ j <= row[k]
    BY <1>1
  <2>3. \A j : j \in Before(row[k]) <=> j \in rows /\ \E l \in 1 .. k : row[l] = j
    <3> HIDE DEF Before
    <3> QED
      BY <1>1, <1>3, <2>1, <2>2
  <2> HIDE DEF Before
  <2> QED
    BY <1>4, <2>1, <2>3
<1> HIDE DEF Before
<1>7. \A k \in 1 .. m : (CHOOSE i \in rows : Cardinality(Before(i)) = k) = row[k]
  <2> SUFFICES ASSUME NEW k \in 1 .. m
               PROVE  (CHOOSE i \in rows : Cardinality(Before(i)) = k) = row[k]
    OBVIOUS
  <2>1. row[k] \in rows /\ Cardinality(Before(row[k])) = k
    BY <1>1, <1>6
  <2>2. \A i \in rows : Cardinality(Before(i)) = k => i = row[k]
    BY <1>1, <1>6
  <2> QED
    BY <2>1, <2>2
<1> QED
  BY <1>2, <1>5, <1>7 DEF Along

\* What is kept of what was kept.
LEMMA OnlyOnly ==
  ASSUME NEW T, NEW s \in Seq(T), NEW A, NEW B
  PROVE  Only(Only(s, A), B) = Only(s, A \cap B)
<1> DEFINE u == Only(s, A)
<1>1. PICK m, row : Places(row, m, s, A) /\ u = Along(s, row, m)
  BY OnlyPlaces
<1> HIDE DEF u
<1>2. m \in Nat /\ row \in [1 .. m -> DOMAIN s] /\ u = [k \in 1 .. m |-> s[row[k]]]
  BY <1>1 DEF Places, Along
<1>3. u \in Seq(T) /\ DOMAIN u = 1 .. m /\ \A k \in 1 .. m : u[k] = s[row[k]]
  <2>1. \A i \in DOMAIN s : s[i] \in T
    OBVIOUS
  <2>2. u \in [1 .. m -> T]
    BY <1>2, <2>1
  <2> QED
    BY <1>2, <2>2, IsASeq
<1>4. PICK p, col : Places(col, p, u, B) /\ Only(u, B) = Along(u, col, p)
  BY <1>3, OnlyPlaces
<1>5. p \in Nat /\ col \in [1 .. p -> DOMAIN u] /\ Only(u, B) = [k \in 1 .. p |-> u[col[k]]]
  BY <1>4 DEF Places, Along
<1> DEFINE row2 == [k \in 1 .. p |-> row[col[k]]]
<1>6. /\ row2 \in [1 .. p -> DOMAIN s]
      /\ \A k \in 1 .. p : /\ col[k] \in 1 .. m /\ row2[k] = row[col[k]]
                           /\ s[row2[k]] = u[col[k]] /\ s[row2[k]] \in A \cap B
  BY <1>1, <1>2, <1>3, <1>4, <1>5 DEF Places
<1> HIDE DEF row2
<1>7. \A i \in DOMAIN s : s[i] \in A \cap B => \E k \in 1 .. p : row2[k] = i
  <2> SUFFICES ASSUME NEW i \in DOMAIN s, s[i] \in A, s[i] \in B
               PROVE  \E k \in 1 .. p : row2[k] = i
    OBVIOUS
  <2>1. PICK l \in 1 .. m : row[l] = i
    BY <1>1 DEF Places
  <2>2. PICK k \in 1 .. p : col[k] = l
    BY <1>3, <1>4, <2>1 DEF Places
  <2> QED
    BY <1>6, <2>1, <2>2
<1>8. \A k, l \in 1 .. p : k < l => row2[k] < row2[l]
  <2> SUFFICES ASSUME NEW k \in 1 .. p, NEW l \in 1 .. p, k < l PROVE row2[k] < row2[l]
    OBVIOUS
  <2>1. col[k] < col[l]
    BY <1>4 DEF Places
  <2>2. row[col[k]] < row[col[l]]
    BY <1>1, <1>6, <2>1 DEF Places
  <2> QED
    BY <1>6, <2>2
<1>9. Places(row2, p, s, A \cap B)
  BY <1>5, <1>6, <1>7, <1>8 DEF Places
<1>10. Only(s, A \cap B) = Along(s, row2, p)
  BY <1>9, PlacesOnly
<1>11. Only(u, B) = Along(s, row2, p)
  BY <1>5, <1>6 DEF Along
<1> QED
  BY <1>10, <1>11 DEF u

\* What is added to a list is not kept where none of it is asked for.
LEMMA OnlyConcat ==
  ASSUME NEW T, NEW s \in Seq(T), NEW t \in Seq(T), NEW A, ToSet(t) \cap A = {}
  PROVE  Only(s \o t, A) = Only(s, A)
<1> DEFINE u == s \o t
<1>1. /\ u \in Seq(T) /\ Len(u) = Len(s) + Len(t)
      /\ \A i \in 1 .. Len(s) + Len(t) : u[i] = IF i <= Len(s) THEN s[i] ELSE t[i - Len(s)]
  BY ConcatProperties
<1> HIDE DEF u
<1>2. /\ DOMAIN u = 1 .. Len(s) + Len(t) /\ DOMAIN s = 1 .. Len(s) /\ DOMAIN t = 1 .. Len(t)
      /\ Len(s) \in Nat /\ Len(t) \in Nat
  BY <1>1
<1>3. PICK m, row : Places(row, m, s, A) /\ Only(s, A) = Along(s, row, m)
  BY OnlyPlaces
<1>4. m \in Nat /\ row \in [1 .. m -> DOMAIN s] /\ Only(s, A) = [k \in 1 .. m |-> s[row[k]]]
  BY <1>3 DEF Places, Along
<1>5. \A i \in DOMAIN s : i \in DOMAIN u /\ u[i] = s[i]
  BY <1>1, <1>2
<1>6. \A i \in DOMAIN u : u[i] \in A => i \in DOMAIN s
  <2> SUFFICES ASSUME NEW i \in 1 .. Len(s) + Len(t), u[i] \in A, ~(i <= Len(s)) PROVE FALSE
    BY <1>2
  <2>1. i - Len(s) \in DOMAIN t /\ u[i] = t[i - Len(s)]
    BY <1>1, <1>2
  <2> QED
    BY <2>1 DEF ToSet
<1>7. Places(row, m, u, A)
  BY <1>3, <1>5, <1>6 DEF Places
<1>8. Only(u, A) = Along(u, row, m)
  BY <1>1, <1>7, PlacesOnly
<1>9. Along(u, row, m) = Along(s, row, m)
  BY <1>4, <1>5 DEF Along
<1> QED
  BY <1>3, <1>8, <1>9 DEF u

\* What is kept depends on the songs of the list alone.
LEMMA OnlySame ==
  ASSUME NEW T, NEW s \in Seq(T), NEW A, NEW B, ToSet(s) \cap A = ToSet(s) \cap B
  PROVE  Only(s, A) = Only(s, B)
<1>1. \A i \in DOMAIN s : s[i] \in ToSet(s)
  BY DEF ToSet
<1>2. {i \in DOMAIN s : s[i] \in A} = {i \in DOMAIN s : s[i] \in B}
  BY <1>1
<1> QED
  BY <1>2 DEF Only

\* A song put elsewhere in the list leaves all of them in it.
LEMMA MoveSongs ==
  ASSUME NEW T, NEW ids \in Seq(T), NEW from \in ToSet(ids), NEW to \in ToSet(ids)
  PROVE  move(ids, from, to) \in Seq(T) /\ ToSet(ids) \subseteq ToSet(move(ids, from, to))
<1> DEFINE f == CHOOSE i \in DOMAIN ids : ids[i] = from
           t == CHOOSE i \in DOMAIN ids : ids[i] = to
           n == Len(ids)
<1>1. /\ n \in Nat /\ DOMAIN ids = 1 .. n /\ f \in 1 .. n /\ ids[f] = from /\ t \in 1 .. n
      /\ from \in T
  <2>1. n \in Nat /\ DOMAIN ids = 1 .. n /\ \A i \in 1 .. n : ids[i] \in T
    OBVIOUS
  <2>2. (\E i \in DOMAIN ids : ids[i] = from) /\ (\E i \in DOMAIN ids : ids[i] = to)
    BY DEF ToSet
  <2>3. f \in DOMAIN ids /\ ids[f] = from /\ t \in DOMAIN ids
    BY <2>2
  <2> HIDE DEF f, t
  <2> QED
    BY <2>1, <2>3
<1> HIDE DEF f, t
<1> DEFINE r == RemoveAt(ids, f)
           before == SubSeq(r, 1, t - 1)
           after == SubSeq(r, t, Len(r))
<1>2. /\ r \in Seq(T) /\ Len(r) = n - 1
      /\ \A j \in 1 .. n : j # f => \E i \in 1 .. n - 1 : r[i] = ids[j]
  <2>1. /\ r \in Seq(T) /\ Len(r) = n - 1
        /\ \A j \in DOMAIN ids \ {f} : \E i \in DOMAIN r : r[i] = ids[j]
    <3>1. f \in DOMAIN ids
      BY <1>1
    <3> QED
      BY <3>1, RemoveAtSeq
  <2> HIDE DEF r
  <2> QED
    BY <1>1, <2>1
<1> HIDE DEF r
<1>3. \A i \in 1 .. n - 1 : r[i] \in T
  BY <1>2
<1>4. /\ before \in Seq(T) /\ Len(before) = t - 1
      /\ \A i \in 1 .. t - 1 : before[i] = r[i]
  BY <1>1, <1>2, <1>3, SubSeqProperties
<1>5. /\ after \in Seq(T) /\ Len(after) = n - t
      /\ \A i \in 1 .. n - t : after[i] = r[t + i - 1]
  <2>1. t \in Int /\ n - 1 \in Int /\ \A i \in t .. n - 1 : r[i] \in T
    BY <1>1, <1>3
  <2>2. after = SubSeq(r, t, n - 1)
    BY <1>2
  <2> HIDE DEF after
  <2>3. /\ after \in Seq(T)
        /\ Len(after) = IF t <= n - 1 THEN (n - 1) - t + 1 ELSE 0
        /\ \A i \in 1 .. (n - 1) - t + 1 : after[i] = r[t + i - 1]
    BY <2>1, <2>2, SubSeqProperties
  <2>4. (n - 1) - t + 1 = n - t /\ (IF t <= n - 1 THEN (n - 1) - t + 1 ELSE 0) = n - t
    <3> SUFFICES ASSUME NEW m \in Nat, NEW u \in 1 .. m
                 PROVE  (m - 1) - u + 1 = m - u /\ (IF u <= m - 1 THEN (m - 1) - u + 1 ELSE 0) = m - u
      BY <1>1
    <3>1. CASE u <= m - 1
      BY <3>1
    <3>2. CASE u = m
      BY <3>2
    <3> QED
      BY <3>1, <3>2
  <2> QED
    BY <2>3, <2>4, Zenon
<1> HIDE DEF before, after
<1>6. \A i \in 1 .. n - 1 : r[i] \in ToSet(before) \cup ToSet(after)
  <2> SUFFICES ASSUME NEW i \in 1 .. n - 1 PROVE r[i] \in ToSet(before) \cup ToSet(after)
    OBVIOUS
  <2>1. CASE i <= t - 1
    <3>1. i \in DOMAIN before /\ before[i] = r[i]
      BY <1>1, <1>4, <2>1
    <3> QED
      BY <3>1 DEF ToSet
  <2>2. CASE ~(i <= t - 1)
    <3>1. i - t + 1 \in 1 .. n - t /\ t + (i - t + 1) - 1 = i
      BY <1>1, <2>2
    <3>2. i - t + 1 \in DOMAIN after /\ after[i - t + 1] = r[i]
      BY <1>5, <3>1
    <3> QED
      BY <3>2 DEF ToSet
  <2> QED
    BY <2>1, <2>2
<1>7. /\ before \o <<from>> \o after \in Seq(T)
      /\ ToSet(before \o <<from>> \o after) = ToSet(before) \cup {from} \cup ToSet(after)
  <2> DEFINE one == <<from>>
             head == before \o one
  <2>1. one \in Seq(T) /\ ToSet(one) = {from}
    BY <1>1 DEF ToSet
  <2> HIDE DEF one
  <2>2. head \in Seq(T) /\ ToSet(head) = ToSet(before) \cup {from}
    <3>1. ToSet(before \o one) = ToSet(before) \cup ToSet(one) /\ before \o one \in Seq(T)
      BY <1>4, <2>1, ConcatSongs, Zenon
    <3> QED
      BY <2>1, <3>1, Zenon
  <2> HIDE DEF head
  <2>3. head \o after \in Seq(T) /\ ToSet(head \o after) = ToSet(head) \cup ToSet(after)
    BY <1>5, <2>2, ConcatSongs, Zenon
  <2> QED
    BY <2>2, <2>3 DEF head, one
<1>8. move(ids, from, to) = before \o <<from>> \o after
  BY DEF move, InsertAt, before, after, r, f, t
<1>9. \A j \in 1 .. n : ids[j] \in ToSet(before) \cup {from} \cup ToSet(after)
  BY <1>1, <1>2, <1>6
<1>10. ToSet(ids) \subseteq ToSet(before) \cup {from} \cup ToSet(after)
  BY <1>1, <1>9 DEF ToSet
<1> QED
  BY <1>7, <1>8, <1>10, Zenon

(***************************************************************************)
(* The page of a local playlist                                            *)
(***************************************************************************)

Targets == {"this", "other", "new", "made"}
Takes == {None} \cup [at : {"sent", "ran"}, refs : SUBSET Songs]
OrderCalls == [at : {"sent", "ran"}, refs : Seq(Songs), known : SUBSET Songs]
ServiceCalls == [take : Takes, orders : Seq(OrderCalls), delete : {"none", "sent", "ran"},
                 rename : {"none", "sent", "reading"}]
Removals == {None} \cup [at : {"staged"}, refs : SUBSET Songs, order : Seq(Songs), clean : BOOLEAN]
UndoRecords == [at : {"adding", "added", "ordering", "ordered"}, refs : SUBSET Songs,
                order : Seq(Songs), before : Seq(Songs), send : Seq(Songs),
                known : SUBSET Songs, clean : BOOLEAN]
Undos == {None} \cup UndoRecords
Additions == {None} \cup [at : {"running"}, refs : SUBSET Songs, done : SUBSET Targets,
                          todo : Seq(Targets)]
ListFetches == {NoFetch, Stale, Outdated, Asked} \cup [at : {"read", "passed"}, value : Seq(Songs)]
Views == [query : BOOLEAN, order : Orders, selected : SUBSET Songs, anchor : Nat]
Dialogs == [removing : SUBSET Songs, deleting : BOOLEAN, renaming : BOOLEAN]
Pickers == [songs : SUBSET Songs, targets : SUBSET {"this", "other"}, name : BOOLEAN]
Histories == [known : SUBSET Songs, confirmed : SUBSET Songs, overlooked : SUBSET Songs,
              halfway : BOOLEAN]

\* The list and the store, the calls between them, and what the user works with.
StoreTypeOK ==
  /\ stored \in Seq(Songs) /\ listed \in Seq(Songs) /\ fetch \in ListFetches
  /\ gone \in BOOLEAN /\ news \in BOOLEAN /\ raced \in BOOLEAN
ServiceTypeOK ==
  /\ calls \in ServiceCalls /\ removal \in Removals /\ undo \in Undos /\ submit \in Additions
  /\ seen \in Histories
MenuTypeOK == menu.of \in {"row", "bar", "header"} => menu.songs \subseteq Songs
ViewTypeOK == view \in Views /\ dialog \in Dialogs /\ picker \in Pickers /\ MenuTypeOK

\* What a step may do to the view, the dialogs, the picker and the menu.
ViewChange ==
  \/ UNCHANGED view
  \/ \E i \in 1 .. Cardinality(Songs), how \in {"plain", "shift", "ctrl"} : RowClick(i, how)
  \/ \E item \in {"picker", "remove", "toggle", "all", "rename", "delete"} : Choose(item)
  \/ clearSelection
  \/ \E on \in BOOLEAN : view' = [view EXCEPT !.query = on]
  \/ \E o \in Orders : view' = [view EXCEPT !.order = o]
  \/ \E to : view' = [view EXCEPT !.selected = {}, !.anchor = 0, !.query = @ /\ to # PageRoute]
  \/ view' = [view EXCEPT !.selected = {}, !.anchor = 0]
  \/ view' = [view EXCEPT !.query = FALSE, !.selected = {}, !.anchor = 0]
DialogChange ==
  \/ UNCHANGED dialog
  \/ \E item \in {"picker", "remove", "toggle", "all", "rename", "delete"} : Choose(item)
  \/ ConfirmRemove
  \/ dialog' = NoDialog
  \/ \E which \in {"removing", "deleting", "renaming"} : CloseDialog(which)
  \/ \E top : dialog' = IF top \in DOMAIN dialog THEN [dialog EXCEPT ![top] = NoDialog[top]]
                                                 ELSE dialog
  \/ dialog' = [dialog EXCEPT !.renaming = FALSE]
PickerChange ==
  \/ UNCHANGED picker
  \/ \E item \in {"picker", "remove", "toggle", "all", "rename", "delete"} : Choose(item)
  \/ \E s \in Songs : PickElsewhere(s)
  \/ \E id \in {"this", "other"} : toggleTarget(id)
  \/ PickerName
  \/ picker' = NoPicker
MenuChange ==
  \/ menu' \in {menu, NoMenu}
  \/ menu'.of \in {"save", "follow", "cover"}
  \/ \E i \in 1 .. Cardinality(Songs) : RowMenu(i)
  \/ BarMenu \/ PageMenu

LEMMA ViewFrame == Next => ViewChange /\ DialogChange /\ PickerChange /\ MenuChange
<1> SUFFICES ASSUME Next PROVE ViewChange /\ DialogChange /\ PickerChange /\ MenuChange
  OBVIOUS
<1>1. CASE PageInput
  <2>1. ViewChange
    BY <1>1 DEF PageInput, Deselect, Search, OrderBy, ConfirmRemove, ViewChange
  <2>2. DialogChange
    BY <1>1 DEF PageInput, dialogs, DialogChange
  <2>3. PickerChange
    BY <1>1 DEF PageInput, dialogs, closePicker, PickerChange
  <2>4. MenuChange
    BY <1>1 DEF PageInput, Choose, CloseMenu, MenuChange, ConfirmRemove
  <2> QED
    BY <2>1, <2>2, <2>3, <2>4
<1>2. CASE PageQuery
  BY <1>2 DEF PageQuery, dialogs, ViewChange, DialogChange, PickerChange, MenuChange
<1>3. CASE PageCalls
  BY <1>3 DEF PageCalls, dialogs, RenameEnds, SubmitEnds, ViewChange, DialogChange, PickerChange,
              MenuChange
<1>4. CASE DeleteAnswered /\ UNCHANGED <<menu, picker>>
  BY <1>4 DEF DeleteAnswered, Leave, ViewChange, DialogChange, PickerChange, MenuChange
<1>5. CASE ShelfNext
  <2>1. ViewChange
    BY <1>5 DEF ShelfNext, CreateAnswered, Leave, ViewChange
  <2>2. DialogChange
    BY <1>5 DEF ShelfNext, CreateAnswered, Leave, DialogChange
  <2>3. PickerChange
    BY <1>5 DEF ShelfNext, PickerChange
  <2>4. MenuChange
    BY <1>5 DEF ShelfNext, SaveMenu, FollowMenu, ShelfMenu, OpenMenu, CloseMenu, ChooseSave,
                ChooseFollow, ChooseErase, MenuChange
  <2> QED
    BY <2>1, <2>2, <2>3, <2>4
<1>6. CASE (RoomsNext \/ LinkNext \/ EditorNext) /\ UNCHANGED pageVars
  BY <1>6 DEF RoomsNext, LinkNext, EditorNext, pageVars, ViewChange, DialogChange, PickerChange,
              MenuChange
<1>7. CASE ShellInput
  <2>1. ViewChange
    BY <1>7 DEF ShellInput, LinkTo, onSearchSubmit, goForward, nativeBack, goBack, Arrive, Leave,
                dismiss, Escape, ViewChange
  <2>2. DialogChange
    BY <1>7 DEF ShellInput, LinkTo, onSearchSubmit, goForward, nativeBack, goBack, Arrive, Leave,
                dismiss, Escape, DialogChange
  <2>3. PickerChange
    BY <1>7 DEF ShellInput, goBack, dismiss, PickerChange
  <2>4. MenuChange
    BY <1>7 DEF ShellInput, goBack, dismiss, Escape, PressOutside, CloseMenu, showQueue, onExpand,
                MenuChange
  <2> QED
    BY <2>1, <2>2, <2>3, <2>4
<1>8. CASE OpenClipboardPage /\ UNCHANGED <<picker, menu>>
  BY <1>8 DEF OpenClipboardPage, Arrive, Leave, ViewChange, DialogChange, PickerChange, MenuChange
<1>9. CASE EditVideo
  BY <1>9 DEF EditVideo, ViewChange, DialogChange, PickerChange, MenuChange
<1>10. CASE ShellIdle
  BY <1>10 DEF ShellIdle, ReloadWindow, ViewChange, DialogChange, PickerChange, MenuChange
<1> QED
  BY <1>1, <1>2, <1>3, <1>4, <1>5, <1>6, <1>7, <1>8, <1>9, <1>10 DEF Next, PageNext

\* The list as it is shown, whatever the order and the search box.
LEMMA ShownSongs == StoreTypeOK => Shown \in Seq(Songs)
<1> SUFFICES ASSUME StoreTypeOK PROVE Shown \in Seq(Songs)
  OBVIOUS
<1>1. ASSUME NEW songs \in Seq(Songs), NEW o PROVE sortSongs(songs, o) \in Seq(Songs)
  <2>1. Reverse(songs) \in Seq(Songs)
    <3>1. \A i \in 1 .. Len(songs) : songs[Len(songs) - i + 1] \in Songs
      <4> SUFFICES ASSUME NEW i \in 1 .. Len(songs) PROVE songs[Len(songs) - i + 1] \in Songs
        OBVIOUS
      <4>1. Len(songs) - i + 1 \in 1 .. Len(songs)
        OBVIOUS
      <4> QED
        BY <4>1
    <3>2. Len(songs) \in Nat
      OBVIOUS
    <3> QED
      BY <3>1, <3>2, IsASeq DEF Reverse
  <2> DEFINE asc == [i \in DOMAIN songs |-> Duration[songs[i]]]
             desc == [i \in DOMAIN songs |-> -Duration[songs[i]]]
  <2>2. asc \in [DOMAIN songs -> Int] /\ desc \in [DOMAIN songs -> Int]
    <3>1. \A i \in DOMAIN songs : Duration[songs[i]] \in Nat
      BY PageAssumption DEF PageAssumption
    <3> QED
      BY <3>1
  <2>3. DOMAIN songs \in SUBSET (DOMAIN songs)
    OBVIOUS
  <2> HIDE DEF asc, desc
  <2>4. /\ Arranged(songs, DOMAIN songs, asc) \in Seq(Songs)
        /\ Arranged(songs, DOMAIN songs, desc) \in Seq(Songs)
    BY <2>2, <2>3, ArrangedSongs
  <2>5. sortSongs(songs, o) \in {songs, Reverse(songs), Arranged(songs, DOMAIN songs, asc),
                                 Arranged(songs, DOMAIN songs, desc)}
    BY DEF sortSongs, asc, desc
  <2> QED
    BY <2>1, <2>4, <2>5
<1>2. Narrowed(listed) \in Seq(Songs) /\ listed \in Seq(Songs)
  BY OnlySongs DEF Narrowed, StoreTypeOK
<1> QED
  BY <1>1, <1>2 DEF Shown

LEMMA SelectsSongs ==
  ASSUME view \in Views, NEW q \in BOOLEAN, NEW o \in Orders, NEW songs \in SUBSET Songs, NEW a \in Nat
  PROVE  /\ [view EXCEPT !.query = q] \in Views /\ [view EXCEPT !.order = o] \in Views
         /\ [view EXCEPT !.selected = songs, !.anchor = a] \in Views
         /\ [view EXCEPT !.selected = songs, !.anchor = a, !.query = q] \in Views
         /\ [view EXCEPT !.query = q, !.selected = songs, !.anchor = a] \in Views
  BY DEF Views

LEMMA TogglesSongs ==
  ASSUME view \in Views, NEW s \in Songs, NEW a \in Nat, toggleSelection(s, a)
  PROVE  view' \in Views
<1> DEFINE next == IF s \in view.selected THEN view.selected \ {s} ELSE view.selected \cup {s}
<1>1. next \in SUBSET Songs
  BY DEF Views
<1>2. (IF next = {} THEN 0 ELSE a) \in Nat
  OBVIOUS
<1>3. view' = [view EXCEPT !.selected = next, !.anchor = IF next = {} THEN 0 ELSE a]
  BY DEF toggleSelection, Select
<1> HIDE DEF next
<1> QED
  BY <1>1, <1>2, <1>3, SelectsSongs, Zenon, TRUE \in BOOLEAN, "added" \in Orders DEF Orders

LEMMA ClickTypes ==
  ASSUME StoreTypeOK, ViewTypeOK, NEW i \in 1 .. Cardinality(Songs), NEW how, RowClick(i, how)
  PROVE  view' \in Views
<1>1. /\ i \in Nat /\ Shown \in Seq(Songs) /\ i \in DOMAIN Shown /\ Shown[i] \in Songs
      /\ \A k \in DOMAIN Shown : Shown[k] \in Songs
  <2>1. Cardinality(Songs) \in Nat
    BY PageAssumption, FS_CardinalityType DEF PageAssumption
  <2>2. Shown \in Seq(Songs) /\ i \in DOMAIN Shown
    BY ShownSongs DEF RowClick
  <2>3. \A k \in DOMAIN Shown : Shown[k] \in Songs
    BY <2>2, MemberSeq
  <2> QED
    BY <2>1, <2>2, <2>3
<1>2. view \in Views /\ view.anchor \in Nat /\ view.selected \in SUBSET Songs
  BY DEF ViewTypeOK, Views
<1>3. /\ selectRange(view.anchor, i) \in SUBSET Songs
      /\ ((view.selected \cup {Shown[i]}) \ (view.selected \cap {Shown[i]})) \in SUBSET Songs
      /\ {Shown[i]} \in SUBSET Songs
  BY <1>1, <1>2 DEF selectRange
<1>4. \/ UNCHANGED view
      \/ toggleSelection(Shown[i], view.anchor)
      \/ Select(selectRange(view.anchor, i), view.anchor)
      \/ Select((view.selected \cup {Shown[i]}) \ (view.selected \cap {Shown[i]}), i)
      \/ Select({Shown[i]}, i)
  <2> HIDE DEF Shown
  <2> QED
    BY DEF RowClick
<1>5. ASSUME NEW songs \in SUBSET Songs, NEW a \in Nat, Select(songs, a) PROVE view' \in Views
  BY <1>2, <1>5, SelectsSongs, Zenon, TRUE \in BOOLEAN, "added" \in Orders DEF Select, Orders
<1>6. CASE toggleSelection(Shown[i], view.anchor)
  BY <1>1, <1>2, <1>6, TogglesSongs
<1> QED
  BY <1>1, <1>2, <1>3, <1>4, <1>5, <1>6, Zenon

\* What a menu's songs are good for.
LEMMA ChoiceTypes ==
  ASSUME ViewTypeOK, NEW item, item \in {"picker", "remove", "toggle", "all", "rename", "delete"},
         Choose(item)
  PROVE  view' \in Views /\ dialog' \in Dialogs /\ picker' \in Pickers
<1>1. view \in Views /\ view.anchor \in Nat /\ view.selected \in SUBSET Songs
  BY DEF ViewTypeOK, Views
<1>2. menu.of \in {"row", "bar", "header"} /\ menu.songs \in SUBSET Songs
  <2>1. item \in buildActions(menu)
    BY DEF Choose
  <2>2. menu.of \in {"row", "bar", "header"}
    BY <2>1 DEF buildActions
  <2> QED
    BY <2>2 DEF ViewTypeOK, MenuTypeOK
<1>3. picker' \in Pickers
  <2>1. picker' = [picker EXCEPT !.songs = menu.songs] \/ UNCHANGED picker
    BY DEF Choose
  <2> QED
    BY <1>2, <2>1 DEF ViewTypeOK, Pickers
<1>4. dialog' \in Dialogs
  <2>1. \/ UNCHANGED dialog
        \/ dialog' = [dialog EXCEPT !.removing = menu.songs]
        \/ dialog' = [dialog EXCEPT !.deleting = TRUE]
        \/ dialog' = [dialog EXCEPT !.renaming = TRUE]
    BY DEF Choose
  <2> QED
    BY <1>2, <2>1 DEF ViewTypeOK, Dialogs
<1>5. view' \in Views
  <2>1. \/ item = "toggle" /\ toggleSelection(CHOOSE s \in menu.songs : TRUE, view.anchor)
        \/ Select({}, 0)
        \/ Select(view.selected \cup menu.songs, view.anchor)
        \/ UNCHANGED view
    BY DEF Choose, clearSelection
  <2>2. CASE item = "toggle" /\ toggleSelection(CHOOSE s \in menu.songs : TRUE, view.anchor)
    <3>1. menu.songs # {}
      <4>1. Cardinality(menu.songs) = 1
        BY <2>2 DEF Choose, buildActions
      <4> QED
        BY <4>1, FS_EmptySet
    <3>2. (CHOOSE s \in menu.songs : TRUE) \in Songs
      BY <1>2, <3>1
    <3> QED
      BY <1>1, <2>2, <3>2, TogglesSongs
  <2>3. ASSUME NEW songs \in SUBSET Songs, NEW a \in Nat, Select(songs, a) PROVE view' \in Views
    BY <1>1, <2>3, SelectsSongs, Zenon, TRUE \in BOOLEAN, "added" \in Orders DEF Select, Orders
  <2>4. {} \in SUBSET Songs /\ (view.selected \cup menu.songs) \in SUBSET Songs /\ 0 \in Nat
    BY <1>1, <1>2
  <2> QED
    BY <1>1, <2>1, <2>2, <2>3, <2>4
<1> QED
  BY <1>3, <1>4, <1>5

LEMMA ViewTypeStep ==
  StoreTypeOK /\ ViewTypeOK /\ ViewChange /\ DialogChange /\ PickerChange /\ MenuChange => ViewTypeOK'
<1> SUFFICES ASSUME StoreTypeOK, ViewTypeOK, ViewChange, DialogChange, PickerChange, MenuChange
             PROVE  ViewTypeOK'
  OBVIOUS
<1>1. view' \in Views
  <2>1. view \in Views /\ {} \in SUBSET Songs /\ 0 \in Nat /\ FALSE \in BOOLEAN
    BY DEF ViewTypeOK
  <2>2. CASE clearSelection
    BY <2>1, <2>2 DEF clearSelection, Select, Views
  <2>3. ASSUME NEW to, view' = [view EXCEPT !.selected = {}, !.anchor = 0, !.query = @ /\ to # PageRoute]
        PROVE  view' \in Views
    BY <2>1, <2>3 DEF Views
  <2>4. CASE \/ view' = [view EXCEPT !.selected = {}, !.anchor = 0]
             \/ view' = [view EXCEPT !.query = FALSE, !.selected = {}, !.anchor = 0]
    BY <2>1, <2>4 DEF Views
  <2>5. ASSUME NEW on \in BOOLEAN, view' = [view EXCEPT !.query = on] PROVE view' \in Views
    BY <2>1, <2>5 DEF Views
  <2>6. ASSUME NEW o \in Orders, view' = [view EXCEPT !.order = o] PROVE view' \in Views
    BY <2>1, <2>6 DEF Views
  <2> QED
    BY <2>1, <2>2, <2>3, <2>4, <2>5, <2>6, ClickTypes, ChoiceTypes DEF ViewChange
<1>2. dialog' \in Dialogs
  <2>1. dialog \in Dialogs /\ dialog.removing \in SUBSET Songs
    BY DEF ViewTypeOK, Dialogs
  <2>2. NoDialog \in Dialogs
    BY DEF NoDialog, Dialogs
  <2>3. CASE ConfirmRemove
    BY <2>1, <2>3 DEF ConfirmRemove, Dialogs
  <2>4. \A top \in {"removing", "deleting", "renaming"} : [dialog EXCEPT ![top] = NoDialog[top]] \in Dialogs
    <3>1. [dialog EXCEPT !["removing"] = NoDialog["removing"]] \in Dialogs
      BY <2>1 DEF NoDialog, Dialogs
    <3>2. [dialog EXCEPT !["deleting"] = NoDialog["deleting"]] \in Dialogs
      BY <2>1 DEF NoDialog, Dialogs
    <3>3. [dialog EXCEPT !["renaming"] = NoDialog["renaming"]] \in Dialogs
      BY <2>1 DEF NoDialog, Dialogs
    <3> QED
      BY <3>1, <3>2, <3>3
  <2>6. DOMAIN dialog = {"removing", "deleting", "renaming"}
    BY <2>1 DEF Dialogs
  <2>5. CASE dialog' = [dialog EXCEPT !.renaming = FALSE]
    BY <2>1, <2>5 DEF Dialogs
  <2> QED
    BY <2>1, <2>2, <2>3, <2>4, <2>5, <2>6, ChoiceTypes DEF DialogChange, CloseDialog
<1>3. picker' \in Pickers
  <2>1. picker \in Pickers /\ NoPicker \in Pickers
    BY DEF ViewTypeOK, NoPicker, Pickers
  <2>2. ASSUME NEW s \in Songs, PickElsewhere(s) PROVE picker' \in Pickers
    BY <2>1, <2>2 DEF PickElsewhere, Pickers
  <2>3. ASSUME NEW id \in {"this", "other"}, toggleTarget(id) PROVE picker' \in Pickers
    BY <2>1, <2>3 DEF toggleTarget, Pickers
  <2>4. CASE PickerName
    BY <2>1, <2>4 DEF PickerName, Pickers
  <2> QED
    BY <2>1, <2>2, <2>3, <2>4, ChoiceTypes DEF PickerChange
<1>4. MenuTypeOK'
  <2>1. view.selected \in SUBSET Songs
    BY DEF ViewTypeOK, Views
  <2>2. CASE menu' \in {menu, NoMenu} \/ menu'.of \in {"save", "follow", "cover"}
    BY <2>2 DEF ViewTypeOK, MenuTypeOK, NoMenu
  <2>3. ASSUME NEW i \in 1 .. Cardinality(Songs), RowMenu(i) PROVE MenuTypeOK'
    <3>1. Shown[i] \in Songs
      BY <2>3, ShownSongs, MemberSeq DEF RowMenu
    <3>2. RowSongs(Shown[i]) \subseteq Songs
      BY <2>1, <3>1 DEF RowSongs
    <3>3. menu' = MenuFor("row", RowSongs(Shown[i]))
      BY <2>3 DEF RowMenu, OpenMenu
    <3> QED
      BY <3>2, <3>3 DEF MenuFor, MenuTypeOK
  <2>4. CASE BarMenu
    BY <2>1, <2>4 DEF BarMenu, OpenMenu, MenuFor, MenuTypeOK
  <2>5. CASE PageMenu
    <3>1. Playable \subseteq Songs
      BY DEF Playable, ToSet, StoreTypeOK
    <3> QED
      BY <2>5, <3>1 DEF PageMenu, OpenMenu, MenuFor, MenuTypeOK
  <2> QED
    BY <2>2, <2>3, <2>4, <2>5 DEF MenuChange
<1> QED
  BY <1>1, <1>2, <1>3, <1>4 DEF ViewTypeOK

\* What a step may do to the list, the store and the calls between them: most of
\* the window's steps only ask for the list again or move a call that does not
\* touch it.
CallMoves ==
  \/ UNCHANGED calls
  \/ \E d \in {"none", "sent", "ran"} : calls' = [calls EXCEPT !.delete = d]
  \/ \E r \in {"none", "sent", "reading"} : calls' = [calls EXCEPT !.rename = r]
AsksAgain ==
  \/ fetch' \in {Asked, Stale}
  \/ fetch.at \in {"read", "passed"} /\ fetch' = Passed(fetch.value)
FetchMoves ==
  \/ UNCHANGED <<gone, news, fetch>>
  \/ gone' = TRUE /\ UNCHANGED <<news, fetch>>
  \/ fetch' = Remounted(fetch) /\ UNCHANGED <<gone, news>>
  \/ news' \in {news, FALSE} /\ AsksAgain /\ UNCHANGED gone
  \/ gone /\ fetch' = NoFetch /\ UNCHANGED <<gone, news>>
ListKept ==
  /\ CallMoves /\ FetchMoves
  /\ removal' \in {removal, None}
  /\ UNCHANGED <<stored, listed, undo, submit, seen>>

PressStep ==
  \/ ConfirmRemove /\ UNCHANGED <<store, listed, fetch, submit, undo>>
  \/ Undo /\ UNCHANGED <<store, listed, fetch, submit, calls, seen>>
  \/ Drop /\ UNCHANGED <<store, fetch, submit, removal, undo, seen>>
  \/ Submit /\ UNCHANGED <<store, listed, fetch, service, seen>>
QueryStep ==
  \/ FetchReads /\ UNCHANGED <<store, listed, submit, service, seen>>
  \/ FetchLands /\ UNCHANGED <<store, submit, service, seen>>
  \/ (\E s \in Songs : Import(s)) /\ UNCHANGED <<gone, listed, fetch, submit, service>>
  \/ /\ listed' = <<>> /\ AsksAgain /\ removal' = None
     /\ UNCHANGED <<store, submit, calls, undo, seen>>
TakeStep ==
  /\ UNCHANGED <<gone, news, listed, submit, removal, undo, seen>>
  /\ \/ TakeRuns /\ UNCHANGED fetch
     \/ TakeFails /\ UNCHANGED <<stored, fetch>>
     \/ TakeAnswered /\ UNCHANGED stored
UndoStep ==
  /\ UNCHANGED <<gone, news, listed, submit, removal, calls>>
  /\ \/ (UndoAdds \/ UndoOrders) /\ UNCHANGED fetch
     \/ UndoSends /\ UNCHANGED <<stored, fetch, seen>>
     \/ UndoEnds /\ UNCHANGED <<stored, seen>>
     \/ UndoFails /\ UNCHANGED <<stored, fetch>>
OrderStep ==
  /\ UNCHANGED <<gone, news, listed, submit, undo>>
  /\ \E k \in DOMAIN calls.orders :
       \/ OrderRuns(k) /\ UNCHANGED <<fetch, removal>>
       \/ OrderAnswered(k) /\ UNCHANGED <<stored, fetch, seen>>
       \/ OrderFails(k) /\ UNCHANGED <<stored, removal, seen>>
SubmitStep ==
  /\ UNCHANGED <<gone, news, listed, calls, undo>>
  /\ \/ SubmitRuns /\ UNCHANGED <<fetch, removal>>
     \/ SubmitFails /\ UNCHANGED <<stored, fetch, removal>>
     \/ SubmitEnds /\ UNCHANGED <<stored, seen>>
ServiceStep ==
  ListKept \/ PressStep \/ QueryStep \/ TakeStep \/ UndoStep \/ OrderStep \/ SubmitStep

LEMMA FetchAsked == Invalidate => AsksAgain
  BY DEF Invalidate, Invalidated, Running, Resting, AsksAgain

LEMMA ServiceFrame == Next => ServiceStep
<1> SUFFICES ASSUME Next PROVE ServiceStep
  OBVIOUS
<1> USE DEF store, service, dialogs
<1>1. CASE PageInput
  <2>1. CASE UNCHANGED <<stored, listed, gone, news, fetch, removal, undo, submit, seen>> /\ CallMoves
    BY <2>1 DEF ListKept, FetchMoves, ServiceStep
  <2>2. ConfirmDelete \/ RenameSave => CallMoves
    BY DEF ConfirmDelete, RenameSave, CallMoves
  <2>3. UNCHANGED calls => CallMoves
    BY DEF CallMoves
  <2>4. CASE PressStep
    BY <2>4 DEF ServiceStep
  <2> QED
    BY <1>1, <2>1, <2>2, <2>3, <2>4 DEF PageInput, PressStep
<1>2. CASE PageQuery
  <2>1. CASE FetchFails /\ UNCHANGED <<store, listed, submit, service, seen>>
    BY <2>1 DEF FetchFails, ListKept, FetchMoves, CallMoves, ServiceStep
  <2>2. CASE Announce /\ UNCHANGED <<gone, stored, listed, submit, service, seen>>
    BY <2>2, FetchAsked DEF Announce, ListKept, FetchMoves, CallMoves, ServiceStep
  <2> QED
    BY <1>2, <2>1, <2>2 DEF PageQuery, QueryStep, ServiceStep
<1>3. CASE PageCalls
  <2>1. CASE /\ DeleteFails \/ RenameFails
             /\ UNCHANGED <<store, listed, submit, fetch, removal, undo, seen>>
    <3>1. CallMoves
      BY <2>1 DEF DeleteFails, RenameFails, CallMoves
    <3> QED
      BY <2>1, <3>1 DEF ListKept, FetchMoves, ServiceStep
  <2>2. CASE RenameRuns /\ UNCHANGED <<store, listed, submit, removal, undo, seen>>
    <3>1. CallMoves /\ AsksAgain
      BY <2>2, FetchAsked DEF RenameRuns, CallMoves
    <3> QED
      BY <2>2, <3>1 DEF ListKept, FetchMoves, ServiceStep
  <2>3. CASE DeleteRuns /\ UNCHANGED <<stored, news, listed, submit, fetch, removal, undo, seen>>
    <3>1. CallMoves /\ gone' = TRUE
      BY <2>3 DEF DeleteRuns, CallMoves
    <3> QED
      BY <2>3, <3>1 DEF ListKept, FetchMoves, ServiceStep
  <2>4. CASE RenameEnds /\ UNCHANGED <<store, listed, submit, fetch, removal, undo, seen>>
    <3>1. CallMoves
      BY <2>4 DEF RenameEnds, CallMoves
    <3> QED
      BY <2>4, <3>1 DEF ListKept, FetchMoves, ServiceStep
  <2>5. CASE TakeStep \/ UndoStep \/ OrderStep \/ SubmitStep
    BY <2>5 DEF ServiceStep
  <2> QED
    BY <1>3, <2>1, <2>2, <2>3, <2>4, <2>5 DEF PageCalls, TakeStep, UndoStep, OrderStep, SubmitStep
<1>4. CASE DeleteAnswered /\ UNCHANGED <<store, listed, submit, removal, undo, seen>>
  <2>1. CallMoves
    BY <1>4 DEF DeleteAnswered, CallMoves
  <2>2. fetch' \in {fetch, Remounted(fetch)}
    BY <1>4 DEF DeleteAnswered, Leave
  <2> QED
    BY <1>4, <2>1, <2>2 DEF ListKept, FetchMoves, ServiceStep
<1>5. CASE ShelfNext
  <2>1. UNCHANGED <<stored, listed, news, submit, calls, undo, seen>>
    BY <1>5 DEF ShelfNext
  <2>2. \/ UNCHANGED <<gone, fetch, removal>>
        \/ UNCHANGED <<gone, removal>> /\ fetch' \in {fetch, Remounted(fetch)}
        \/ gone' = TRUE /\ UNCHANGED <<fetch, removal>>
        \/ removal' = None /\ UNCHANGED <<gone, fetch>>
    BY <1>5 DEF ShelfNext, CreateAnswered, Leave, EraseRuns, EraseAnswered, expireRemoval
  <2> QED
    BY <2>1, <2>2 DEF ListKept, FetchMoves, CallMoves, ServiceStep
<1>6. CASE (RoomsNext \/ LinkNext \/ EditorNext) /\ UNCHANGED pageVars
  BY <1>6 DEF pageVars, ListKept, FetchMoves, CallMoves, ServiceStep
<1>7. CASE ShellInput \/ (OpenClipboardPage /\ UNCHANGED OutOfReach)
  <2>1. UNCHANGED <<stored, gone, listed, news, submit, calls, removal, undo, seen>>
    BY <1>7 DEF ShellInput, OutOfReach
  <2>2. fetch' \in {fetch, Remounted(fetch)}
    BY <1>7 DEF ShellInput, LinkTo, onSearchSubmit, goForward, nativeBack, goBack, Arrive, Leave, dismiss,
                OpenClipboardPage
  <2> QED
    BY <2>1, <2>2 DEF ListKept, FetchMoves, CallMoves, ServiceStep
<1>8. CASE EditVideo
  BY <1>8 DEF EditVideo, OutOfReach, ListKept, FetchMoves, CallMoves, ServiceStep
<1>9. CASE ShellIdle
  <2>1. UNCHANGED <<stored, gone, news, submit, calls, undo, seen>>
    BY <1>9 DEF ShellIdle
  <2>2. CASE ReloadWindow
    <3>1. listed' = <<>> /\ AsksAgain /\ removal' = None
      BY <2>2 DEF ReloadWindow, Invalidated, NoFetch, Running, Resting, AsksAgain
    <3> QED
      BY <2>1, <3>1 DEF QueryStep, ServiceStep
  <2>3. CASE UNCHANGED <<listed, removal>> /\ (UNCHANGED fetch \/ Invalidate)
    BY <2>1, <2>3, FetchAsked DEF ListKept, FetchMoves, CallMoves, ServiceStep
  <2> QED
    BY <1>9, <2>2, <2>3 DEF ShellIdle, Shed
<1> QED
  BY <1>1, <1>2, <1>3, <1>4, <1>5, <1>6, <1>7, <1>8, <1>9 DEF Next, PageNext

\* The calls of the page with another removal under way, or other orders.
LEMMA CallsWith ==
  ASSUME calls \in ServiceCalls, NEW t \in Takes, NEW o \in Seq(OrderCalls),
         NEW d \in {"none", "sent", "ran"}, NEW r \in {"none", "sent", "reading"}
  PROVE  /\ [calls EXCEPT !.take = t] \in ServiceCalls
         /\ [calls EXCEPT !.take = t].take = t /\ [calls EXCEPT !.take = t].orders = calls.orders
         /\ [calls EXCEPT !.orders = o] \in ServiceCalls
         /\ [calls EXCEPT !.orders = o].orders = o /\ [calls EXCEPT !.orders = o].take = calls.take
         /\ [calls EXCEPT !.delete = d] \in ServiceCalls
         /\ [calls EXCEPT !.delete = d].take = calls.take /\ [calls EXCEPT !.delete = d].orders = calls.orders
         /\ [calls EXCEPT !.rename = r] \in ServiceCalls
         /\ [calls EXCEPT !.rename = r].take = calls.take /\ [calls EXCEPT !.rename = r].orders = calls.orders
  BY DEF ServiceCalls

LEMMA CallsParts ==
  ASSUME calls \in ServiceCalls
  PROVE  /\ calls.take \in Takes /\ calls.orders \in Seq(OrderCalls)
         /\ calls.take.at \in {"none", "sent", "ran"}
         /\ calls.take.at = "none" <=> calls.take = None
         /\ calls.take.at # "none" => calls.take.refs \in SUBSET Songs
  BY DEF ServiceCalls, Takes, None

LEMMA UndoParts ==
  ASSUME undo \in Undos
  PROVE  /\ undo.at \in {"none", "adding", "added", "ordering", "ordered"}
         /\ undo.at = "none" <=> undo = None
         /\ undo.at # "none" => /\ undo.refs \in SUBSET Songs /\ undo.order \in Seq(Songs)
                                /\ undo.send \in Seq(Songs) /\ undo.known \in SUBSET Songs
  BY DEF Undos, UndoRecords, None

LEMMA UndoWith ==
  ASSUME undo \in Undos, undo.at # "none", NEW a \in {"adding", "added", "ordering", "ordered"}
  PROVE  /\ [undo EXCEPT !.at = a] \in Undos /\ [undo EXCEPT !.at = a].at = a
<1>1. undo \in UndoRecords
  BY DEF Undos, None
<1>2. /\ [undo EXCEPT !.at = a] \in UndoRecords /\ [undo EXCEPT !.at = a].at = a
  BY <1>1 DEF UndoRecords
<1> QED
  BY <1>2 DEF Undos

LEMMA SubmitParts ==
  ASSUME submit \in Additions
  PROVE  submit # None => /\ submit.refs \in SUBSET Songs /\ submit.done \in SUBSET Targets
                          /\ submit.todo \in Seq(Targets)
  BY DEF Additions, None

\* The page has still to read the list, or shows what it read too early.
Owing == {"asked", "stale", "passed", "outdated"}

LEMMA FetchParts ==
  ASSUME fetch \in ListFetches
  PROVE  /\ fetch.at \in {"idle", "stale", "outdated", "asked", "read", "passed"}
         /\ fetch.at = "idle" <=> fetch = NoFetch
         /\ fetch.at \in {"read", "passed"} => fetch.value \in Seq(Songs)
         /\ Remounted(fetch) \in {fetch, Asked} /\ (fetch.at # "stale" => Remounted(fetch) = fetch)
         /\ NoFetch.at = "idle" /\ Stale.at = "stale" /\ Asked.at = "asked"
         /\ {NoFetch, Stale, Outdated, Asked} \subseteq ListFetches /\ Outdated.at = "outdated"
         /\ \A s \in Seq(Songs) : /\ ReadOf(s) \in ListFetches /\ ReadOf(s).at = "read"
                                  /\ ReadOf(s).value = s
  BY DEF ListFetches, NoFetch, Stale, Outdated, Asked, ReadOf, Remounted

LEMMA AskedParts ==
  ASSUME fetch \in ListFetches, AsksAgain
  PROVE  fetch' \in ListFetches /\ fetch'.at \in Owing
<1>1. CASE fetch' \in {Asked, Stale}
  BY <1>1, FetchParts DEF Owing
<1>2. CASE fetch.at \in {"read", "passed"} /\ fetch' = Passed(fetch.value)
  BY <1>2, FetchParts DEF Owing, Passed, ListFetches
<1> QED
  BY <1>1, <1>2 DEF AsksAgain

\* An order that was sent, and one of them moving on.
LEMMA OrderMoves ==
  ASSUME calls \in ServiceCalls, NEW k \in DOMAIN calls.orders
  PROVE  LET next == [calls EXCEPT !.orders[k].at = "ran"]
         IN  /\ calls.orders[k] \in OrderCalls
             /\ next \in ServiceCalls /\ next.take = calls.take
             /\ Len(next.orders) = Len(calls.orders) /\ next.orders[k].at = "ran"
             /\ \A j \in DOMAIN next.orders : /\ j \in DOMAIN calls.orders
                                              /\ next.orders[j].refs = calls.orders[j].refs
                                              /\ next.orders[j].known = calls.orders[j].known
                                              /\ j # k => next.orders[j] = calls.orders[j]
<1> DEFINE o == calls.orders
           moved == [o[k] EXCEPT !.at = "ran"]
           q == [o EXCEPT ![k] = moved]
<1>1. o \in Seq(OrderCalls) /\ k \in DOMAIN o
  BY CallsParts
<1>2. o[k] \in OrderCalls
  BY <1>1, ElementOfSeq
<1>3. /\ moved \in OrderCalls /\ moved.at = "ran" /\ moved.refs = o[k].refs /\ moved.known = o[k].known
  BY <1>2 DEF OrderCalls
<1> DEFINE next == [calls EXCEPT !.orders[k].at = "ran"]
<1>4. next = [calls EXCEPT !.orders = q]
  BY DEF ServiceCalls
<1>10. calls.orders = o
  OBVIOUS
<1> HIDE DEF o, moved, next
<1>5. /\ q \in Seq(OrderCalls) /\ Len(q) = Len(o) /\ DOMAIN q = DOMAIN o
      /\ \A i \in 1 .. Len(o) : q[i] = IF i = k THEN moved ELSE o[i]
  BY <1>1, <1>3, ExceptSeq
<1> HIDE DEF q
<1>6. /\ [calls EXCEPT !.orders = q] \in ServiceCalls
      /\ [calls EXCEPT !.orders = q].orders = q /\ [calls EXCEPT !.orders = q].take = calls.take
  BY <1>5 DEF ServiceCalls
<1>7. DOMAIN o = 1 .. Len(o)
  BY <1>1
<1>8. \A j \in DOMAIN q : /\ j \in DOMAIN o /\ q[j].refs = o[j].refs /\ q[j].known = o[j].known
                          /\ j # k => q[j] = o[j]
  BY <1>3, <1>5, <1>7
<1>9. q[k].at = "ran"
  BY <1>1, <1>3, <1>5, <1>7
<1>11. next \in ServiceCalls /\ next.take = calls.take /\ next.orders = q
  BY <1>4, <1>6
<1>12. /\ calls.orders[k] \in OrderCalls
       /\ next \in ServiceCalls /\ next.take = calls.take
       /\ Len(next.orders) = Len(calls.orders) /\ next.orders[k].at = "ran"
       /\ \A j \in DOMAIN next.orders : /\ j \in DOMAIN calls.orders
                                        /\ next.orders[j].refs = calls.orders[j].refs
                                        /\ next.orders[j].known = calls.orders[j].known
                                        /\ j # k => next.orders[j] = calls.orders[j]
  BY <1>2, <1>5, <1>8, <1>9, <1>10, <1>11
<1> QED
  BY <1>12 DEF next

\* The removal under way is one that was confirmed; what an order or an undo is to
\* send names every song its sender knew of.
Sends ==
  /\ calls.take.at = "sent" => calls.take.refs \subseteq seen.confirmed
  /\ \A k \in DOMAIN calls.orders : calls.orders[k].known \subseteq ToSet(calls.orders[k].refs)
  /\ undo.at = "ordering" => undo.known \subseteq ToSet(undo.send)
LeavesInv == OnlyConfirmedLeaves /\ Sends

\* Somebody has still to make the page read the list again.
Owed ==
  \/ news \/ fetch.at \in Owing
  \/ calls.take.at = "ran"
  \/ undo.at \in {"added", "ordering", "ordered"}
  \/ submit # None /\ "this" \in submit.done
\* The page shows what is stored, what a reading brings is, or the page shows what
\* will be once the one order under way has run.
ListTrue ==
  /\ fetch.at = "read" => fetch.value = stored
  /\ fetch.at = "idle" =>
       listed = IF \E k \in DOMAIN calls.orders : calls.orders[k].at = "sent"
                THEN Only(calls.orders[1].refs, ToSet(stored)) ELSE stored
Excused == gone \/ raced \/ seen.halfway
SettlesInv ==
  /\ Overlaps => raced
  /\ Excused \/ Owed \/ ListTrue

RacedStep == (raced => raced') /\ (Overlaps' => raced') /\ raced' \in BOOLEAN

PageInv == StoreTypeOK /\ ServiceTypeOK /\ LeavesInv /\ SettlesInv

LEMMA ListKeptStep == PageInv /\ RacedStep /\ ListKept => PageInv'
<1> SUFFICES ASSUME PageInv, RacedStep, ListKept PROVE PageInv'
  OBVIOUS
<1>1. /\ StoreTypeOK /\ ServiceTypeOK /\ LeavesInv /\ SettlesInv
      /\ UNCHANGED <<stored, listed, undo, submit, seen>>
      /\ removal' \in {removal, None}
  BY DEF PageInv, ListKept
<1>2. calls' \in ServiceCalls /\ calls'.take = calls.take /\ calls'.orders = calls.orders
  <2>1. calls \in ServiceCalls /\ None \in Takes /\ <<>> \in Seq(OrderCalls)
    BY <1>1 DEF ServiceTypeOK, Takes
  <2>2. ASSUME NEW d \in {"none", "sent", "ran"}, calls' = [calls EXCEPT !.delete = d]
        PROVE  calls' \in ServiceCalls /\ calls'.take = calls.take /\ calls'.orders = calls.orders
    BY <2>1, <2>2, CallsWith
  <2>3. ASSUME NEW r \in {"none", "sent", "reading"}, calls' = [calls EXCEPT !.rename = r]
        PROVE  calls' \in ServiceCalls /\ calls'.take = calls.take /\ calls'.orders = calls.orders
    BY <2>1, <2>3, CallsWith
  <2> QED
    BY <2>1, <2>2, <2>3 DEF ListKept, CallMoves
<1>3. fetch \in ListFetches /\ gone \in BOOLEAN /\ news \in BOOLEAN
  BY <1>1 DEF StoreTypeOK
<1>4. /\ fetch' \in ListFetches /\ gone' \in BOOLEAN /\ news' \in BOOLEAN /\ (gone => gone')
      /\ \/ gone'
         \/ fetch'.at \in Owing
         \/ UNCHANGED <<gone, news, fetch>>
  <2>1. CASE gone' = TRUE /\ UNCHANGED <<news, fetch>>
    BY <1>3, <2>1
  <2>2. CASE fetch' = Remounted(fetch) /\ UNCHANGED <<gone, news>>
    BY <1>3, <2>2, FetchParts DEF Owing
  <2>3. CASE news' \in {news, FALSE} /\ AsksAgain /\ UNCHANGED gone
    BY <1>3, <2>3, AskedParts
  <2>4. CASE gone /\ fetch' = NoFetch /\ UNCHANGED <<gone, news>>
    BY <1>3, <2>4, FetchParts
  <2> QED
    BY <1>3, <2>1, <2>2, <2>3, <2>4 DEF ListKept, FetchMoves
<1>5. StoreTypeOK' /\ ServiceTypeOK'
  BY <1>1, <1>2, <1>4 DEF StoreTypeOK, ServiceTypeOK, Removals, RacedStep
<1>6. LeavesInv'
  BY <1>1, <1>2, <1>4 DEF LeavesInv, OnlyConfirmedLeaves, Sends
<1>7. SettlesInv'
  BY <1>1, <1>2, <1>4 DEF SettlesInv, Excused, Owed, ListTrue, RacedStep
<1> QED
  BY <1>5, <1>6, <1>7 DEF PageInv

LEMMA TakeSteps == PageInv /\ RacedStep /\ TakeStep => PageInv'
<1> SUFFICES ASSUME PageInv, RacedStep, TakeStep PROVE PageInv'
  OBVIOUS
<1>1. /\ StoreTypeOK /\ ServiceTypeOK /\ LeavesInv /\ SettlesInv
      /\ UNCHANGED <<gone, news, listed, submit, removal, undo, seen>>
  BY DEF PageInv, TakeStep
<1>2. calls \in ServiceCalls /\ stored \in Seq(Songs) /\ fetch \in ListFetches /\ seen \in Histories
  BY <1>1 DEF ServiceTypeOK, StoreTypeOK
<1>3. <<>> \in Seq(OrderCalls)
  OBVIOUS
<1>4. CASE TakeRuns /\ UNCHANGED fetch
  <2> DEFINE t == [calls.take EXCEPT !.at = "ran"]
             refs == calls.take.refs
  <2>1. t \in Takes /\ t.at = "ran" /\ calls.take.at = "sent" /\ refs \in SUBSET Songs
    BY <1>2, <1>4, CallsParts DEF Takes, TakeRuns, None
  <2>2. calls' = [calls EXCEPT !.take = t]
    BY <1>2, <1>4 DEF TakeRuns, ServiceCalls
  <2>3. stored' = Without(stored, refs)
    BY <1>4 DEF TakeRuns, RemoveSongs
  <2> HIDE DEF t, refs
  <2>4. calls' \in ServiceCalls /\ calls'.take = t /\ calls'.orders = calls.orders
    BY <1>2, <1>3, <2>1, <2>2, CallsWith
  <2>5. stored' \in Seq(Songs) /\ ToSet(stored') = ToSet(stored) \ refs
    BY <1>2, <2>3, OnlySongs
  <2>6. StoreTypeOK' /\ ServiceTypeOK'
    BY <1>1, <1>4, <2>4, <2>5 DEF StoreTypeOK, ServiceTypeOK, RacedStep
  <2>7. refs \subseteq seen.confirmed
    BY <1>1, <2>1 DEF LeavesInv, Sends, refs
  <2>8. LeavesInv'
    BY <1>1, <2>1, <2>4, <2>5, <2>7 DEF LeavesInv, OnlyConfirmedLeaves, Sends
  <2>9. SettlesInv'
    BY <2>1, <2>4 DEF SettlesInv, Owed, RacedStep
  <2> QED
    BY <2>6, <2>8, <2>9 DEF PageInv
<1>5. CASE TakeFails /\ UNCHANGED <<stored, fetch>>
  <2>1. None \in Takes /\ None.at = "none" /\ calls.take.at = "sent" /\ calls' = [calls EXCEPT !.take = None]
    BY <1>5 DEF TakeFails, Takes, None
  <2>2. calls' \in ServiceCalls /\ calls'.take = None /\ calls'.orders = calls.orders
    BY <1>2, <1>3, <2>1, CallsWith
  <2>3. StoreTypeOK' /\ ServiceTypeOK'
    BY <1>1, <1>5, <2>2 DEF StoreTypeOK, ServiceTypeOK, RacedStep
  <2>4. LeavesInv'
    BY <1>1, <1>5, <2>1, <2>2 DEF LeavesInv, OnlyConfirmedLeaves, Sends
  <2>5. SettlesInv'
    BY <1>1, <1>5, <2>1, <2>2 DEF SettlesInv, Excused, Owed, ListTrue, RacedStep
  <2> QED
    BY <2>3, <2>4, <2>5 DEF PageInv
<1>6. CASE TakeAnswered /\ UNCHANGED stored
  <2>1. None \in Takes /\ None.at = "none" /\ calls' = [calls EXCEPT !.take = None] /\ AsksAgain
    BY <1>6, FetchAsked DEF TakeAnswered, Takes, None
  <2>2. calls' \in ServiceCalls /\ calls'.take = None /\ calls'.orders = calls.orders
    BY <1>2, <1>3, <2>1, CallsWith
  <2>3. fetch' \in ListFetches /\ fetch'.at \in Owing
    BY <1>2, <2>1, AskedParts
  <2>4. StoreTypeOK' /\ ServiceTypeOK'
    BY <1>1, <1>6, <2>2, <2>3 DEF StoreTypeOK, ServiceTypeOK, RacedStep
  <2>5. LeavesInv'
    BY <1>1, <1>6, <2>1, <2>2 DEF LeavesInv, OnlyConfirmedLeaves, Sends
  <2>6. SettlesInv'
    BY <2>3 DEF SettlesInv, Owed, RacedStep
  <2> QED
    BY <2>4, <2>5, <2>6 DEF PageInv
<1> QED
  BY <1>4, <1>5, <1>6 DEF TakeStep

LEMMA AddsSongs ==
  ASSUME stored \in Seq(Songs), NEW refs \in SUBSET Songs, AddSongs(SetToSeq(refs))
  PROVE  stored' \in Seq(Songs) /\ ToSet(stored') = ToSet(stored) \cup refs
<1> DEFINE q == SetToSeq(refs)
           more == Without(q, ToSet(stored))
<1>1. IsFiniteSet(refs)
  BY FS_Subset, PageAssumption DEF PageAssumption
<1>2. q \in Seq(refs) /\ ToSet(q) = refs
  BY <1>1, SetSongs
<1>3. stored' = stored \o more
  BY DEF AddSongs
<1> HIDE DEF q
<1>4. q \in Seq(Songs)
  BY <1>2, SeqMonotonic
<1>5. more \in Seq(Songs) /\ ToSet(more) = ToSet(q) \ ToSet(stored)
  BY <1>4, OnlySongs
<1> HIDE DEF more
<1>6. stored' \in Seq(Songs) /\ ToSet(stored') = ToSet(stored) \cup ToSet(more)
  BY <1>3, <1>5, ConcatSongs
<1> QED
  BY <1>2, <1>5, <1>6

LEMMA SeenWith ==
  ASSUME seen \in Histories, NEW s \in SUBSET Songs, NEW b \in BOOLEAN
  PROVE  /\ [seen EXCEPT !.confirmed = s] \in Histories
         /\ [seen EXCEPT !.confirmed = s] = [known |-> seen.known, confirmed |-> s,
                overlooked |-> seen.overlooked, halfway |-> seen.halfway]
         /\ [seen EXCEPT !.known = s] \in Histories
         /\ [seen EXCEPT !.known = s] = [known |-> s, confirmed |-> seen.confirmed,
                overlooked |-> seen.overlooked, halfway |-> seen.halfway]
         /\ [seen EXCEPT !.overlooked = s] \in Histories
         /\ [seen EXCEPT !.overlooked = s] = [known |-> seen.known, confirmed |-> seen.confirmed,
                overlooked |-> s, halfway |-> seen.halfway]
         /\ [seen EXCEPT !.halfway = b] \in Histories
         /\ [seen EXCEPT !.halfway = b] = [known |-> seen.known, confirmed |-> seen.confirmed,
                overlooked |-> seen.overlooked, halfway |-> b]
  BY DEF Histories

\* What an order leaves, and what its sender could not know of.
LEMMA ReorderEffect ==
  ASSUME stored \in Seq(Songs), seen \in Histories, NEW refs \in Seq(Songs), NEW known,
         Reorder(refs, known)
  PROVE  /\ stored' \in Seq(Songs) /\ stored' = Only(refs, ToSet(stored))
         /\ ToSet(stored') = ToSet(refs) \cap ToSet(stored)
         /\ seen' \in Histories /\ seen'.known = seen.known /\ seen'.confirmed = seen.confirmed
         /\ seen'.overlooked = seen.overlooked \cup (ToSet(stored) \ known)
         /\ seen'.halfway = seen.halfway
<1>1. stored' = Only(refs, ToSet(stored))
  BY DEF Reorder
<1>2. stored' \in Seq(Songs) /\ ToSet(stored') = ToSet(refs) \cap ToSet(stored)
  BY <1>1, OnlySongs
<1> DEFINE s == seen.overlooked \cup (ToSet(stored) \ known)
<1>3. ToSet(stored) \in SUBSET Songs
  BY DEF ToSet
<1>4. s \in SUBSET Songs
  BY <1>3 DEF Histories
<1>5. seen' = [seen EXCEPT !.overlooked = s]
  BY DEF Reorder
<1> HIDE DEF s
<1>6. /\ seen' \in Histories /\ seen'.known = seen.known /\ seen'.confirmed = seen.confirmed
      /\ seen'.overlooked = s /\ seen'.halfway = seen.halfway
  BY <1>4, <1>5, SeenWith, TRUE \in BOOLEAN
<1> QED
  BY <1>1, <1>2, <1>6 DEF s

LEMMA UndoAddsStep ==
  ASSUME PageInv, RacedStep, UndoAdds, UNCHANGED <<gone, news, listed, submit, removal, calls, fetch>>
  PROVE  PageInv'
<1>1. /\ StoreTypeOK /\ ServiceTypeOK /\ LeavesInv /\ SettlesInv
      /\ stored \in Seq(Songs) /\ undo \in Undos /\ seen \in Histories
  BY DEF PageInv, StoreTypeOK, ServiceTypeOK
<1> DEFINE refs == undo.refs
           u == [undo EXCEPT !.at = "added"]
<1>2. /\ refs \in SUBSET Songs /\ u \in Undos /\ u.at = "added" /\ undo' = u
  <2>1. undo.at = "adding"
    BY DEF UndoAdds
  <2>2. undo' = u
    BY DEF UndoAdds
  <2>3. u \in Undos /\ u.at = "added"
    <3>1. <<>> \in Seq(Songs) /\ {} \in SUBSET Songs
      OBVIOUS
    <3> QED
      BY <1>1, <2>1, <3>1, UndoWith
  <2>4. undo.refs \in SUBSET Songs /\ undo.send \in Seq(Songs)
    BY <1>1, <2>1, UndoParts
  <2> QED
    BY <2>1, <2>2, <2>3, <2>4
<1>3. AddSongs(SetToSeq(refs))
  BY DEF UndoAdds
<1>4. \/ seen' = seen /\ calls.take.at = "sent"
      \/ seen' = [seen EXCEPT !.confirmed = seen.confirmed \ refs] /\ calls.take.at # "sent"
  BY DEF UndoAdds
<1> HIDE DEF refs, u
<1>5. stored' \in Seq(Songs) /\ ToSet(stored') = ToSet(stored) \cup refs
  BY <1>1, <1>2, <1>3, AddsSongs
<1>6. /\ seen' \in Histories /\ seen'.known = seen.known /\ seen'.overlooked = seen.overlooked
      /\ seen.confirmed \ refs \subseteq seen'.confirmed
      /\ calls.take.at = "sent" => seen'.confirmed = seen.confirmed
  <2>1. (seen.confirmed \ refs) \in SUBSET Songs
    BY <1>1 DEF Histories
  <2> QED
    BY <1>1, <1>4, <2>1, SeenWith, TRUE \in BOOLEAN
<1>7. StoreTypeOK' /\ ServiceTypeOK'
  BY <1>1, <1>2, <1>5, <1>6 DEF StoreTypeOK, ServiceTypeOK, RacedStep
<1>8. LeavesInv'
  <2>1. OnlyConfirmedLeaves'
    BY <1>1, <1>5, <1>6 DEF LeavesInv, OnlyConfirmedLeaves
  <2> QED
    BY <1>1, <1>2, <1>6, <2>1 DEF LeavesInv, Sends
<1>9. SettlesInv'
  BY <1>2 DEF SettlesInv, Owed, RacedStep
<1> QED
  BY <1>7, <1>8, <1>9 DEF PageInv

LEMMA UndoOrdersStep ==
  ASSUME PageInv, RacedStep, UndoOrders, UNCHANGED <<gone, news, listed, submit, removal, calls, fetch>>
  PROVE  PageInv'
<1>1. /\ StoreTypeOK /\ ServiceTypeOK /\ LeavesInv /\ SettlesInv
      /\ stored \in Seq(Songs) /\ undo \in Undos /\ seen \in Histories
  BY DEF PageInv, StoreTypeOK, ServiceTypeOK
<1> DEFINE u == [undo EXCEPT !.at = "ordered"]
           refs == undo.send
           known == undo.known
<1>2. /\ refs \in Seq(Songs) /\ u \in Undos /\ u.at = "ordered" /\ undo' = u /\ undo.at = "ordering"
  <2>1. undo.at = "ordering"
    BY DEF UndoOrders
  <2>2. undo' = u
    BY DEF UndoOrders
  <2>3. u \in Undos /\ u.at = "ordered"
    <3>1. <<>> \in Seq(Songs) /\ {} \in SUBSET Songs
      OBVIOUS
    <3> QED
      BY <1>1, <2>1, <3>1, UndoWith
  <2>4. undo.refs \in SUBSET Songs /\ undo.send \in Seq(Songs)
    BY <1>1, <2>1, UndoParts
  <2> QED
    BY <2>1, <2>2, <2>3, <2>4
<1>3. Reorder(refs, known)
  BY DEF UndoOrders
<1>4. known \subseteq ToSet(refs)
  BY <1>1, <1>2 DEF LeavesInv, Sends
<1> HIDE DEF refs, u, known
<1>5. /\ stored' \in Seq(Songs) /\ ToSet(stored') = ToSet(refs) \cap ToSet(stored)
      /\ seen' \in Histories /\ seen'.known = seen.known /\ seen'.confirmed = seen.confirmed
      /\ seen'.overlooked = seen.overlooked \cup (ToSet(stored) \ known)
  BY <1>1, <1>2, <1>3, ReorderEffect
<1>6. StoreTypeOK' /\ ServiceTypeOK'
  BY <1>1, <1>2, <1>5 DEF StoreTypeOK, ServiceTypeOK, RacedStep
<1>7. LeavesInv'
  <2>1. OnlyConfirmedLeaves'
    BY <1>1, <1>4, <1>5 DEF LeavesInv, OnlyConfirmedLeaves
  <2> QED
    BY <1>1, <1>2, <1>5, <2>1 DEF LeavesInv, Sends
<1>8. SettlesInv'
  BY <1>2 DEF SettlesInv, Owed, RacedStep
<1> QED
  BY <1>6, <1>7, <1>8 DEF PageInv

LEMMA UndoSendsStep ==
  ASSUME PageInv, RacedStep, UndoSends,
         UNCHANGED <<gone, news, listed, submit, removal, calls, stored, fetch, seen>>
  PROVE  PageInv'
<1>1. /\ StoreTypeOK /\ ServiceTypeOK /\ LeavesInv /\ SettlesInv
      /\ listed \in Seq(Songs) /\ undo \in Undos
  BY DEF PageInv, StoreTypeOK, ServiceTypeOK
<1> DEFINE first == undo.order
           more == Without(listed, ToSet(first))
           send == first \o more
           known == ToSet(first) \cup ToSet(listed)
           u == [undo EXCEPT !.at = "ordering", !.send = send, !.known = known]
<1>2. undo.at = "added" /\ undo' = u
  BY DEF UndoSends
<1>3. first \in Seq(Songs)
  BY <1>1, <1>2, UndoParts
<1> HIDE DEF first
<1>4. more \in Seq(Songs) /\ ToSet(more) = ToSet(listed) \ ToSet(first)
  BY <1>1, OnlySongs
<1> HIDE DEF more
<1>5. send \in Seq(Songs) /\ ToSet(send) = ToSet(first) \cup ToSet(more)
  BY <1>3, <1>4, ConcatSongs
<1> HIDE DEF send
<1>6. known \in SUBSET Songs /\ known \subseteq ToSet(send)
  <2>1. ToSet(first) \in SUBSET Songs /\ ToSet(listed) \in SUBSET Songs
    BY <1>1, <1>3 DEF ToSet
  <2> QED
    BY <1>4, <1>5, <2>1
<1> HIDE DEF known
<1>7. u \in Undos /\ u.at = "ordering" /\ u.send = send /\ u.known = known
  <2>1. undo \in Undos /\ undo.at # "none" /\ send \in Seq(Songs) /\ known \in SUBSET Songs
    BY <1>1, <1>2, <1>5, <1>6
  <2>2. undo \in UndoRecords
    BY <2>1 DEF Undos, None
  <2>3. u \in UndoRecords /\ u.at = "ordering" /\ u.send = send /\ u.known = known
    BY <2>1, <2>2 DEF UndoRecords
  <2> QED
    BY <2>3 DEF Undos
<1> HIDE DEF u
<1>8. StoreTypeOK' /\ ServiceTypeOK'
  BY <1>1, <1>2, <1>7 DEF StoreTypeOK, ServiceTypeOK, RacedStep
<1>9. LeavesInv'
  BY <1>1, <1>2, <1>6, <1>7 DEF LeavesInv, OnlyConfirmedLeaves, Sends
<1>10. SettlesInv'
  BY <1>2, <1>7 DEF SettlesInv, Owed, RacedStep
<1> QED
  BY <1>8, <1>9, <1>10 DEF PageInv

LEMMA UndoSteps == PageInv /\ RacedStep /\ UndoStep => PageInv'
<1> SUFFICES ASSUME PageInv, RacedStep, UndoStep PROVE PageInv'
  OBVIOUS
<1>1. /\ StoreTypeOK /\ ServiceTypeOK /\ LeavesInv /\ SettlesInv
      /\ undo \in Undos /\ seen \in Histories /\ fetch \in ListFetches
      /\ UNCHANGED <<gone, news, listed, submit, removal, calls>>
  BY DEF PageInv, StoreTypeOK, ServiceTypeOK, UndoStep
<1>2. CASE UndoEnds /\ UNCHANGED <<stored, seen>>
  <2>1. None \in Undos /\ None.at = "none" /\ undo' = None /\ AsksAgain
    BY <1>2, FetchAsked DEF UndoEnds, Undos, None
  <2>2. fetch' \in ListFetches /\ fetch'.at \in Owing
    BY <1>1, <2>1, AskedParts
  <2>3. StoreTypeOK' /\ ServiceTypeOK'
    BY <1>1, <1>2, <2>1, <2>2 DEF StoreTypeOK, ServiceTypeOK, RacedStep
  <2>4. LeavesInv'
    BY <1>1, <1>2, <2>1 DEF LeavesInv, OnlyConfirmedLeaves, Sends
  <2>5. SettlesInv'
    BY <2>2 DEF SettlesInv, Owed, RacedStep
  <2> QED
    BY <2>3, <2>4, <2>5 DEF PageInv
<1>3. CASE UndoFails /\ UNCHANGED <<stored, fetch>>
  <2> DEFINE half == seen.halfway \/ undo.at = "ordering"
  <2>1. None \in Undos /\ None.at = "none" /\ undo' = None /\ undo.at \in {"adding", "ordering"}
    BY <1>3 DEF UndoFails, Undos, None
  <2>2. half \in BOOLEAN /\ seen' = [seen EXCEPT !.halfway = half]
    BY <1>3 DEF UndoFails
  <2>3. (seen.halfway => half) /\ (undo.at = "ordering" => half)
    OBVIOUS
  <2> HIDE DEF half
  <2>4. /\ seen' \in Histories /\ seen'.known = seen.known /\ seen'.confirmed = seen.confirmed
        /\ seen'.overlooked = seen.overlooked /\ seen'.halfway = half
    BY <1>1, <2>2, SeenWith
  <2>5. StoreTypeOK' /\ ServiceTypeOK'
    BY <1>1, <1>3, <2>1, <2>4 DEF StoreTypeOK, ServiceTypeOK, RacedStep
  <2>6. LeavesInv'
    BY <1>1, <1>3, <2>1, <2>4 DEF LeavesInv, OnlyConfirmedLeaves, Sends
  <2>7. SettlesInv'
    BY <1>1, <1>3, <2>1, <2>3, <2>4 DEF SettlesInv, Excused, Owed, ListTrue, RacedStep
  <2> QED
    BY <2>5, <2>6, <2>7 DEF PageInv
<1> QED
  BY <1>1, <1>2, <1>3, UndoAddsStep, UndoOrdersStep, UndoSendsStep DEF UndoStep

\* With nothing excused, no order is under way beside a fetch or another order.
LEMMA OneOrder ==
  ASSUME calls \in ServiceCalls, Overlaps => raced, ~raced
  PROVE  /\ Len(calls.orders) \in {0, 1}
         /\ calls.orders # <<>> => fetch.at \notin {"asked", "read"}
         /\ DOMAIN calls.orders \subseteq {1}
         /\ Len(calls.orders) = 0 => calls.orders = <<>> /\ DOMAIN calls.orders = {}
<1>1. calls.orders \in Seq(OrderCalls)
  BY CallsParts
<1>2. calls.orders # <<>> => fetch.at \notin {"asked", "read"} /\ ~(Len(calls.orders) > 1)
  BY DEF Overlaps, Running
<1>3. DOMAIN calls.orders = 1 .. Len(calls.orders) /\ Len(calls.orders) \in Nat
  BY <1>1
<1>4. Len(calls.orders) = 0 <=> calls.orders = <<>>
  BY <1>1, EmptySeq
<1>5. CASE calls.orders = <<>>
  <2>1. Len(calls.orders) = 0
    BY <1>4, <1>5
  <2> QED
    BY <1>3, <1>5, <2>1
<1>6. CASE calls.orders # <<>>
  <2>1. Len(calls.orders) = 1 /\ fetch.at \notin {"asked", "read"}
    <3> DEFINE n == Len(calls.orders)
    <3>1. n \in Nat /\ n # 0 /\ ~(n > 1) /\ fetch.at \notin {"asked", "read"}
      BY <1>2, <1>3, <1>4, <1>6
    <3> HIDE DEF n
    <3>2. n = 1
      BY <3>1
    <3> QED
      BY <3>1, <3>2 DEF n
  <2> QED
    BY <1>3, <1>6, <2>1
<1> QED
  BY <1>5, <1>6

LEMMA OrderRunsStep ==
  ASSUME PageInv, RacedStep, NEW k \in DOMAIN calls.orders, OrderRuns(k),
         UNCHANGED <<gone, news, listed, submit, undo, fetch, removal>>
  PROVE  PageInv'
<1>1. /\ StoreTypeOK /\ ServiceTypeOK /\ LeavesInv /\ SettlesInv
      /\ stored \in Seq(Songs) /\ seen \in Histories /\ calls \in ServiceCalls
  BY DEF PageInv, StoreTypeOK, ServiceTypeOK
<1>2. calls.orders[k].at = "sent" /\ Reorder(calls.orders[k].refs, calls.orders[k].known)
  BY DEF OrderRuns
<1>3. /\ calls.orders[k] \in OrderCalls
      /\ calls' \in ServiceCalls /\ calls'.take = calls.take
      /\ Len(calls'.orders) = Len(calls.orders) /\ calls'.orders[k].at = "ran"
      /\ \A j \in DOMAIN calls'.orders : /\ j \in DOMAIN calls.orders
                                         /\ calls'.orders[j].refs = calls.orders[j].refs
                                         /\ calls'.orders[j].known = calls.orders[j].known
                                         /\ j # k => calls'.orders[j] = calls.orders[j]
  BY <1>1, OrderMoves DEF OrderRuns
<1> DEFINE refs == calls.orders[k].refs
           known == calls.orders[k].known
<1>4. refs \in Seq(Songs) /\ known \subseteq ToSet(refs)
  BY <1>1, <1>3 DEF OrderCalls, LeavesInv, Sends
<1>5. Reorder(refs, known)
  BY <1>2
<1> HIDE DEF refs, known
<1>6. /\ stored' \in Seq(Songs) /\ stored' = Only(refs, ToSet(stored))
      /\ ToSet(stored') = ToSet(refs) \cap ToSet(stored)
      /\ seen' \in Histories /\ seen'.known = seen.known /\ seen'.confirmed = seen.confirmed
      /\ seen'.overlooked = seen.overlooked \cup (ToSet(stored) \ known)
      /\ seen'.halfway = seen.halfway
  BY <1>1, <1>4, <1>5, ReorderEffect
<1>7. StoreTypeOK' /\ ServiceTypeOK'
  BY <1>1, <1>3, <1>6 DEF StoreTypeOK, ServiceTypeOK, RacedStep
<1>8. LeavesInv'
  <2>1. OnlyConfirmedLeaves'
    BY <1>1, <1>4, <1>6 DEF LeavesInv, OnlyConfirmedLeaves
  <2> QED
    BY <1>1, <1>3, <1>6, <2>1 DEF LeavesInv, Sends
<1>9. SettlesInv'
  <2> SUFFICES ASSUME ~Excused', ~Owed' PROVE ListTrue'
    BY DEF SettlesInv, RacedStep
  <2>1. ~Excused /\ ~Owed /\ ~raced
    BY <1>1, <1>3, <1>6 DEF Excused, Owed, RacedStep
  <2>2. ListTrue
    BY <1>1, <2>1 DEF SettlesInv
  <2>3. /\ DOMAIN calls.orders \subseteq {1} /\ DOMAIN calls.orders # {}
        /\ fetch.at \notin {"asked", "read"}
    BY <1>1, <2>1, OneOrder DEF SettlesInv
  <2>4. k = 1
    BY <2>3
  <2>5. \A j \in DOMAIN calls'.orders : j = 1 /\ calls'.orders[j].at # "sent"
    BY <1>3, <2>3, <2>4
  <2>6. fetch.at = "idle" => listed = Only(calls.orders[1].refs, ToSet(stored))
    BY <1>2, <2>2, <2>4 DEF ListTrue
  <2> QED
    BY <1>6, <2>3, <2>4, <2>5, <2>6 DEF ListTrue, refs
<1> QED
  BY <1>7, <1>8, <1>9 DEF PageInv

LEMMA OrderSteps == PageInv /\ RacedStep /\ OrderStep => PageInv'
<1> SUFFICES ASSUME PageInv, RacedStep, OrderStep PROVE PageInv'
  OBVIOUS
<1>1. /\ StoreTypeOK /\ ServiceTypeOK /\ LeavesInv /\ SettlesInv
      /\ calls \in ServiceCalls /\ fetch \in ListFetches
      /\ UNCHANGED <<gone, news, listed, submit, undo>>
  BY DEF PageInv, StoreTypeOK, ServiceTypeOK, OrderStep
<1>2. ASSUME NEW k \in DOMAIN calls.orders, calls' = [calls EXCEPT !.orders = RemoveAt(@, k)],
             UNCHANGED stored, UNCHANGED seen, removal' \in {removal, None},
             \/ AsksAgain
             \/ UNCHANGED fetch /\ calls.orders[k].at = "ran"
      PROVE  PageInv'
  <2> DEFINE q == RemoveAt(calls.orders, k)
  <2>1. calls.orders \in Seq(OrderCalls)
    BY <1>1, CallsParts
  <2>2. /\ q \in Seq(OrderCalls) /\ Len(q) = Len(calls.orders) - 1
        /\ \A i \in DOMAIN q : \E j \in DOMAIN calls.orders : q[i] = calls.orders[j]
    BY <2>1, LeavesSeq
  <2>3. calls' = [calls EXCEPT !.orders = q]
    BY <1>2
  <2> HIDE DEF q
  <2>4. calls' \in ServiceCalls /\ calls'.orders = q /\ calls'.take = calls.take
    <3>1. None \in Takes
      BY DEF Takes
    <3> QED
      BY <1>1, <2>2, <2>3, <3>1, CallsWith
  <2>5. fetch' \in ListFetches /\ (fetch'.at \in Owing \/ (UNCHANGED fetch /\ calls.orders[k].at = "ran"))
    BY <1>1, <1>2, AskedParts
  <2>6. StoreTypeOK' /\ ServiceTypeOK'
    BY <1>1, <1>2, <2>4, <2>5 DEF StoreTypeOK, ServiceTypeOK, RacedStep, Removals
  <2>7. LeavesInv'
    BY <1>1, <1>2, <2>2, <2>4 DEF LeavesInv, OnlyConfirmedLeaves, Sends
  <2>8. SettlesInv'
    <3> SUFFICES ASSUME ~Excused', ~Owed' PROVE ListTrue'
      BY DEF SettlesInv, RacedStep
    <3>1. UNCHANGED fetch /\ calls.orders[k].at = "ran"
      BY <2>5 DEF Owed
    <3>2. ~Excused /\ ~Owed /\ ~raced
      BY <1>1, <1>2, <2>4, <3>1 DEF Excused, Owed, RacedStep
    <3>3. ListTrue
      BY <1>1, <3>2 DEF SettlesInv
    <3>4. DOMAIN calls.orders \subseteq {1} /\ Len(calls.orders) \in {0, 1}
      BY <1>1, <3>2, OneOrder DEF SettlesInv
    <3>5. k = 1 /\ Len(q) = 0
      <4>1. DOMAIN calls.orders = 1 .. Len(calls.orders)
        BY <2>1
      <4> QED
        BY <2>2, <3>4, <4>1
    <3>6. DOMAIN q = {}
      BY <2>2, <3>5
    <3> QED
      BY <1>1, <1>2, <2>4, <3>1, <3>3, <3>4, <3>5, <3>6 DEF ListTrue
  <2> QED
    BY <2>6, <2>7, <2>8 DEF PageInv
<1>3. ASSUME NEW k \in DOMAIN calls.orders,
             \/ OrderAnswered(k) /\ UNCHANGED <<stored, fetch, seen>>
             \/ OrderFails(k) /\ UNCHANGED <<stored, removal, seen>>
      PROVE  PageInv'
  <2>1. /\ calls' = [calls EXCEPT !.orders = RemoveAt(@, k)] /\ UNCHANGED <<stored, seen>>
        /\ removal' \in {removal, None}
        /\ AsksAgain \/ (UNCHANGED fetch /\ calls.orders[k].at = "ran")
    BY <1>3, FetchAsked DEF OrderAnswered, OrderFails, expireRemoval
  <2> QED
    BY <1>2, <2>1
<1> QED
  BY <1>1, <1>3, OrderRunsStep DEF OrderStep

LEMMA SubmitSteps == PageInv /\ RacedStep /\ SubmitStep => PageInv'
<1> SUFFICES ASSUME PageInv, RacedStep, SubmitStep PROVE PageInv'
  OBVIOUS
<1>1. /\ StoreTypeOK /\ ServiceTypeOK /\ LeavesInv /\ SettlesInv
      /\ submit \in Additions /\ seen \in Histories /\ fetch \in ListFetches /\ stored \in Seq(Songs)
      /\ None \in Additions
      /\ UNCHANGED <<gone, news, listed, calls, undo>>
  BY DEF PageInv, StoreTypeOK, ServiceTypeOK, SubmitStep, Additions
<1>2. CASE SubmitRuns /\ UNCHANGED <<fetch, removal>>
  <2> DEFINE head == Head(submit.todo)
             next == [submit EXCEPT !.todo = Tail(submit.todo), !.done = submit.done \cup {head}]
             refs == submit.refs
  <2>1. submit # None /\ submit.todo # <<>> /\ submit' = next
    BY <1>2 DEF SubmitRuns
  <2>2. submit.done \in SUBSET Targets /\ submit.todo \in Seq(Targets) /\ refs \in SUBSET Songs
    BY <1>1, <2>1, SubmitParts
  <2>3. head \in Targets /\ Tail(submit.todo) \in Seq(Targets)
    BY <2>1, <2>2, HeadTailProperties
  <2>4. next \in Additions /\ next # None /\ next.done = submit.done \cup {head}
    <3> HIDE DEF head
    <3>1. (submit.done \cup {head}) \in SUBSET Targets
      BY <2>2, <2>3
    <3> QED
      BY <1>1, <2>1, <2>3, <3>1 DEF Additions, None
  <2>5. \/ /\ head = "this" /\ AddSongs(SetToSeq(refs))
           /\ \/ calls.take.at = "sent" /\ seen' = [seen EXCEPT !.known = @ \cup refs, !.confirmed = @]
              \/ calls.take.at # "sent"
                 /\ seen' = [seen EXCEPT !.known = @ \cup refs, !.confirmed = @ \ refs]
        \/ head # "this" /\ UNCHANGED <<stored, seen>>
    BY <1>2 DEF SubmitRuns
  <2> HIDE DEF head, next, refs
  <2>6. CASE head # "this" /\ UNCHANGED <<stored, seen>>
    <3>1. StoreTypeOK' /\ ServiceTypeOK'
      BY <1>1, <1>2, <2>1, <2>4, <2>6 DEF StoreTypeOK, ServiceTypeOK, RacedStep
    <3>2. LeavesInv'
      BY <1>1, <2>6 DEF LeavesInv, OnlyConfirmedLeaves, Sends
    <3>3. SettlesInv'
      BY <1>1, <1>2, <2>1, <2>4, <2>6 DEF SettlesInv, Excused, Owed, ListTrue, RacedStep
    <3> QED
      BY <3>1, <3>2, <3>3 DEF PageInv
  <2>7. CASE head = "this" /\ AddSongs(SetToSeq(refs))
    <3>1. stored' \in Seq(Songs) /\ ToSet(stored') = ToSet(stored) \cup refs
      BY <1>1, <2>2, <2>7, AddsSongs
    <3>2. /\ seen' \in Histories /\ seen'.known = seen.known \cup refs
          /\ seen'.overlooked = seen.overlooked
          /\ seen.confirmed \ refs \subseteq seen'.confirmed
          /\ calls.take.at = "sent" => seen'.confirmed = seen.confirmed
      BY <1>1, <2>2, <2>5, <2>7 DEF Histories
    <3>3. StoreTypeOK' /\ ServiceTypeOK'
      BY <1>1, <1>2, <2>1, <2>4, <3>1, <3>2 DEF StoreTypeOK, ServiceTypeOK, RacedStep
    <3>4. LeavesInv'
      <4>1. OnlyConfirmedLeaves'
        BY <1>1, <3>1, <3>2 DEF LeavesInv, OnlyConfirmedLeaves
      <4> QED
        BY <1>1, <3>2, <4>1 DEF LeavesInv, Sends
    <3>5. SettlesInv'
      BY <2>1, <2>4, <2>7 DEF SettlesInv, Owed, RacedStep
    <3> QED
      BY <3>3, <3>4, <3>5 DEF PageInv
  <2> QED
    BY <2>5, <2>6, <2>7
<1>3. CASE SubmitFails /\ UNCHANGED <<stored, fetch, removal>>
  <2> DEFINE half == seen.halfway \/ "this" \in submit.done
  <2>1. submit' = None /\ half \in BOOLEAN /\ seen' = [seen EXCEPT !.halfway = half]
    BY <1>3 DEF SubmitFails
  <2>2. (seen.halfway => half) /\ ("this" \in submit.done => half)
    OBVIOUS
  <2> HIDE DEF half
  <2>3. /\ seen' \in Histories /\ seen'.known = seen.known /\ seen'.confirmed = seen.confirmed
        /\ seen'.overlooked = seen.overlooked /\ seen'.halfway = half
    BY <1>1, <2>1, SeenWith
  <2>4. StoreTypeOK' /\ ServiceTypeOK'
    BY <1>1, <1>3, <2>1, <2>3 DEF StoreTypeOK, ServiceTypeOK, RacedStep
  <2>5. LeavesInv'
    BY <1>1, <1>3, <2>3 DEF LeavesInv, OnlyConfirmedLeaves, Sends
  <2>6. SettlesInv'
    BY <1>1, <1>3, <2>1, <2>2, <2>3 DEF SettlesInv, Excused, Owed, ListTrue, RacedStep
  <2> QED
    BY <2>4, <2>5, <2>6 DEF PageInv
<1>4. CASE SubmitEnds /\ UNCHANGED <<stored, seen>>
  <2>1. submit' = None /\ removal' \in {removal, None} /\ AsksAgain
    BY <1>4, FetchAsked DEF SubmitEnds, expireRemoval
  <2>2. fetch' \in ListFetches /\ fetch'.at \in Owing
    BY <1>1, <2>1, AskedParts
  <2>3. StoreTypeOK' /\ ServiceTypeOK'
    BY <1>1, <1>4, <2>1, <2>2 DEF StoreTypeOK, ServiceTypeOK, RacedStep, Removals
  <2>4. LeavesInv'
    BY <1>1, <1>4 DEF LeavesInv, OnlyConfirmedLeaves, Sends
  <2>5. SettlesInv'
    BY <2>2 DEF SettlesInv, Owed, RacedStep
  <2> QED
    BY <2>3, <2>4, <2>5 DEF PageInv
<1> QED
  BY <1>2, <1>3, <1>4 DEF SubmitStep

LEMMA ConfirmStep ==
  ASSUME PageInv, ViewTypeOK, RacedStep, ConfirmRemove, UNCHANGED <<store, listed, fetch, submit, undo>>
  PROVE  PageInv'
<1>1. /\ StoreTypeOK /\ ServiceTypeOK /\ LeavesInv /\ SettlesInv
      /\ calls \in ServiceCalls /\ seen \in Histories /\ listed \in Seq(Songs)
      /\ UNCHANGED <<stored, gone, news, listed, fetch, submit, undo>>
  BY DEF PageInv, StoreTypeOK, ServiceTypeOK, store
<1> DEFINE refs == dialog.removing
           t == [at |-> "sent", refs |-> refs]
           clean == undo = None /\ InOrder
<1>2. refs \in SUBSET Songs /\ clean \in BOOLEAN
  BY DEF ViewTypeOK, Dialogs, InOrder
<1>3. /\ calls.take = None /\ calls' = [calls EXCEPT !.take = t]
      /\ removal' = [at |-> "staged", refs |-> refs, order |-> listed, clean |-> clean]
      /\ seen' = [seen EXCEPT !.confirmed = seen.confirmed \cup refs]
  BY DEF ConfirmRemove
<1> HIDE DEF refs, clean
<1>4. t \in Takes /\ t.at = "sent" /\ t.refs = refs
  BY <1>2 DEF Takes
<1> HIDE DEF t
<1>5. calls' \in ServiceCalls /\ calls'.take = t /\ calls'.orders = calls.orders
  <2>1. <<>> \in Seq(OrderCalls)
    OBVIOUS
  <2> QED
    BY <1>1, <1>3, <1>4, <2>1, CallsWith
<1>6. removal' \in Removals
  BY <1>1, <1>2, <1>3 DEF Removals
<1>7. /\ seen' \in Histories /\ seen'.known = seen.known /\ seen'.overlooked = seen.overlooked
      /\ seen'.confirmed = seen.confirmed \cup refs /\ seen'.halfway = seen.halfway
  BY <1>1, <1>2, <1>3 DEF Histories
<1>8. StoreTypeOK' /\ ServiceTypeOK'
  BY <1>1, <1>5, <1>6, <1>7 DEF StoreTypeOK, ServiceTypeOK, RacedStep
<1>9. LeavesInv'
  BY <1>1, <1>4, <1>5, <1>7 DEF LeavesInv, OnlyConfirmedLeaves, Sends
<1>10. SettlesInv'
  BY <1>1, <1>3, <1>4, <1>5, <1>7 DEF SettlesInv, Excused, Owed, ListTrue, RacedStep, None
<1> QED
  BY <1>8, <1>9, <1>10 DEF PageInv

LEMMA UndoPress ==
  ASSUME PageInv, RacedStep, Undo, UNCHANGED <<store, listed, fetch, submit, calls, seen>>
  PROVE  PageInv'
<1>1. /\ StoreTypeOK /\ ServiceTypeOK /\ LeavesInv /\ SettlesInv
      /\ removal \in Removals /\ stored \in Seq(Songs)
      /\ UNCHANGED <<stored, gone, news, listed, fetch, submit, calls, seen>>
  BY DEF PageInv, StoreTypeOK, ServiceTypeOK, store
<1> DEFINE clean == removal.clean /\ calls.orders = <<>>
<1>2. /\ removal # None /\ undo = None /\ removal' = None
      /\ undo' = [at |-> "adding", refs |-> removal.refs, order |-> removal.order,
                  before |-> stored, send |-> <<>>, known |-> {}, clean |-> clean]
  BY DEF Undo
<1>3. removal.refs \in SUBSET Songs /\ removal.order \in Seq(Songs)
  BY <1>1, <1>2 DEF Removals
<1>4. clean \in BOOLEAN /\ <<>> \in Seq(Songs)
  OBVIOUS
<1> HIDE DEF clean
<1>5. undo' \in Undos /\ undo'.at = "adding" /\ None \in Removals
  <2>1. undo' \in UndoRecords /\ undo'.at = "adding"
    BY <1>1, <1>2, <1>3, <1>4 DEF UndoRecords
  <2> QED
    BY <2>1 DEF Undos, Removals
<1>6. StoreTypeOK' /\ ServiceTypeOK'
  BY <1>1, <1>2, <1>5 DEF StoreTypeOK, ServiceTypeOK, RacedStep
<1>7. LeavesInv'
  BY <1>1, <1>5 DEF LeavesInv, OnlyConfirmedLeaves, Sends
<1>8. SettlesInv'
  BY <1>1, <1>2, <1>5 DEF SettlesInv, Excused, Owed, ListTrue, RacedStep, None
<1> QED
  BY <1>6, <1>7, <1>8 DEF PageInv

LEMMA SubmitPress ==
  ASSUME PageInv, ViewTypeOK, RacedStep, Submit, UNCHANGED <<store, listed, fetch, service, seen>>
  PROVE  PageInv'
<1>1. /\ StoreTypeOK /\ ServiceTypeOK /\ LeavesInv /\ SettlesInv
      /\ UNCHANGED <<stored, gone, news, listed, fetch, calls, removal, undo, seen>>
  BY DEF PageInv, store, service
<1> DEFINE refs == picker.songs \ Broken
           first == IF picker.name THEN <<"new">> ELSE <<>>
           final == IF picker.name THEN <<"made">> ELSE <<>>
           mid == SetToSeq(picker.targets)
           todo == first \o mid \o final
<1>2. /\ submit = None
      /\ submit' = [at |-> "running", refs |-> refs, done |-> {}, todo |-> todo]
  BY DEF Submit
<1>3. refs \in SUBSET Songs /\ picker.targets \in SUBSET {"this", "other"}
  BY DEF ViewTypeOK, Pickers
<1>4. first \in Seq(Targets) /\ final \in Seq(Targets)
  <2>1. <<"new">> \in Seq(Targets) /\ <<"made">> \in Seq(Targets) /\ <<>> \in Seq(Targets)
    BY DEF Targets
  <2> QED
    BY <2>1
<1>5. mid \in Seq(Targets)
  <2>1. IsFiniteSet({"this"}) /\ IsFiniteSet({"this"} \cup {"other"})
    BY FS_Singleton, FS_AddElement
  <2>2. {"this", "other"} = {"this"} \cup {"other"}
    OBVIOUS
  <2>3. IsFiniteSet(picker.targets)
    BY <1>3, <2>1, <2>2, FS_Subset
  <2>4. mid \in Seq(picker.targets)
    BY <2>3, SetSongs
  <2>5. picker.targets \subseteq Targets
    BY <1>3 DEF Targets
  <2> HIDE DEF mid
  <2> QED
    BY <2>4, <2>5, SeqMonotonic
<1> HIDE DEF refs, first, final, mid
<1>6. todo \in Seq(Targets)
  BY <1>4, <1>5, ConcatProperties
<1> HIDE DEF todo
<1>7. submit' \in Additions /\ submit'.done = {}
  BY <1>2, <1>3, <1>6 DEF Additions
<1>8. StoreTypeOK' /\ ServiceTypeOK'
  BY <1>1, <1>7 DEF StoreTypeOK, ServiceTypeOK, RacedStep
<1>9. LeavesInv'
  BY <1>1 DEF LeavesInv, OnlyConfirmedLeaves, Sends
<1>10. SettlesInv'
  BY <1>1, <1>2, <1>7 DEF SettlesInv, Excused, Owed, ListTrue, RacedStep
<1> QED
  BY <1>8, <1>9, <1>10 DEF PageInv

LEMMA DropStep ==
  ASSUME PageInv, RacedStep, Drop, UNCHANGED <<store, fetch, submit, removal, undo, seen>>
  PROVE  PageInv'
<1>1. /\ StoreTypeOK /\ ServiceTypeOK /\ LeavesInv /\ SettlesInv
      /\ calls \in ServiceCalls /\ listed \in Seq(Songs)
      /\ UNCHANGED <<stored, gone, news, fetch, submit, removal, undo, seen>>
  BY DEF PageInv, StoreTypeOK, ServiceTypeOK, store
<1>2. CASE UNCHANGED <<calls, listed>>
  <2>1. StoreTypeOK' /\ ServiceTypeOK'
    BY <1>1, <1>2 DEF StoreTypeOK, ServiceTypeOK, RacedStep
  <2>2. LeavesInv'
    BY <1>1, <1>2 DEF LeavesInv, OnlyConfirmedLeaves, Sends
  <2>3. SettlesInv'
    BY <1>1, <1>2 DEF SettlesInv, Excused, Owed, ListTrue, RacedStep
  <2> QED
    BY <2>1, <2>2, <2>3 DEF PageInv
<1>3. ASSUME NEW from \in DOMAIN listed, NEW over \in DOMAIN listed,
             calls' = [calls EXCEPT !.orders = Append(@,
                         [at |-> "sent", refs |-> move(listed, listed[from], listed[over]),
                          known |-> ToSet(listed)])],
             listed' = Only(move(listed, listed[from], listed[over]), ToSet(listed))
      PROVE  PageInv'
  <2> DEFINE refs == move(listed, listed[from], listed[over])
             o == [at |-> "sent", refs |-> refs, known |-> ToSet(listed)]
             q == Append(calls.orders, o)
  <2>1. refs \in Seq(Songs) /\ ToSet(listed) \subseteq ToSet(refs)
    <3>1. listed[from] \in ToSet(listed) /\ listed[over] \in ToSet(listed)
      BY DEF ToSet
    <3> QED
      BY <1>1, <3>1, MoveSongs
  <2>2. ToSet(listed) \in SUBSET Songs
    BY <1>1 DEF ToSet
  <2>3. calls' = [calls EXCEPT !.orders = q] /\ listed' = Only(refs, ToSet(listed))
    BY <1>3
  <2> HIDE DEF refs
  <2>4. o \in OrderCalls /\ o.at = "sent" /\ o.refs = refs /\ o.known = ToSet(listed)
    BY <2>1, <2>2 DEF OrderCalls
  <2> HIDE DEF o
  <2>5. calls.orders \in Seq(OrderCalls)
    BY <1>1, CallsParts
  <2>6. /\ q \in Seq(OrderCalls) /\ Len(q) = Len(calls.orders) + 1
        /\ \A i \in 1 .. Len(calls.orders) : q[i] = calls.orders[i]
        /\ q[Len(calls.orders) + 1] = o
    BY <2>4, <2>5, AppendProperties
  <2> HIDE DEF q
  <2>7. calls' \in ServiceCalls /\ calls'.orders = q /\ calls'.take = calls.take
    <3>1. None \in Takes
      BY DEF Takes
    <3> QED
      BY <1>1, <2>3, <2>6, <3>1, CallsWith
  <2>8. listed' \in Seq(Songs)
    BY <2>1, <2>3, OnlySongs
  <2>9. StoreTypeOK' /\ ServiceTypeOK'
    BY <1>1, <2>7, <2>8 DEF StoreTypeOK, ServiceTypeOK, RacedStep
  <2>10. LeavesInv'
    <3>1. DOMAIN q = 1 .. Len(calls.orders) + 1 /\ DOMAIN calls.orders = 1 .. Len(calls.orders)
          /\ Len(calls.orders) \in Nat
      BY <2>5, <2>6
    <3>2. \A k \in DOMAIN q : q[k].known \subseteq ToSet(q[k].refs)
      <4> SUFFICES ASSUME NEW k \in 1 .. Len(calls.orders) + 1
                   PROVE  q[k].known \subseteq ToSet(q[k].refs)
        BY <3>1
      <4>1. CASE k = Len(calls.orders) + 1
        BY <2>1, <2>4, <2>6, <4>1
      <4>2. CASE k # Len(calls.orders) + 1
        <5>1. k \in DOMAIN calls.orders /\ q[k] = calls.orders[k]
          BY <2>6, <3>1, <4>2
        <5> QED
          BY <1>1, <5>1 DEF LeavesInv, Sends
      <4> QED
        BY <4>1, <4>2
    <3> QED
      BY <1>1, <2>7, <3>2 DEF LeavesInv, OnlyConfirmedLeaves, Sends
  <2>11. SettlesInv'
    <3> SUFFICES ASSUME ~Excused', ~Owed' PROVE ListTrue'
      BY DEF SettlesInv, RacedStep
    <3>1. ~Excused /\ ~Owed /\ ~raced /\ ~raced'
      BY <1>1, <2>7 DEF Excused, Owed, RacedStep
    <3>2. ListTrue
      BY <1>1, <3>1 DEF SettlesInv
    <3>3. Len(q) \in {0, 1} /\ (q # <<>> => fetch.at \notin {"asked", "read"})
      <4>1. (Overlaps => raced)'
        BY DEF RacedStep
      <4>2. q # <<>> => fetch.at \notin {"asked", "read"} /\ ~(Len(q) > 1)
        BY <1>1, <2>7, <3>1, <4>1 DEF Overlaps, Running
      <4>3. Len(q) = 0 <=> q = <<>>
        BY <2>6, EmptySeq
      <4>4. Len(q) \in Nat
        BY <2>6
      <4>5. Len(q) = 0 \/ ~(Len(q) > 1)
        BY <4>2, <4>3
      <4> DEFINE n == Len(q)
      <4>6. n \in Nat /\ (n = 0 \/ ~(n > 1))
        BY <4>4, <4>5
      <4> HIDE DEF n
      <4>7. n \in {0, 1}
        BY <4>6
      <4> QED
        BY <4>2, <4>7 DEF n
    <3>4. Len(calls.orders) = 0 /\ q[1] = o /\ DOMAIN q = {1} /\ q # <<>>
      <4>1. Len(calls.orders) \in Nat
        BY <2>5
      <4>2. Len(calls.orders) = 0 /\ Len(q) = 1
        BY <2>6, <3>3, <4>1
      <4> QED
        BY <2>6, <4>2, EmptySeq
    <3>5. DOMAIN calls.orders = {} /\ fetch.at \notin {"asked", "read"}
      BY <2>5, <3>3, <3>4
    <3>6. fetch.at = "idle" => listed = stored
      BY <3>2, <3>5 DEF ListTrue
    <3>7. fetch.at = "idle" => listed' = Only(q[1].refs, ToSet(stored))
      BY <2>3, <2>4, <3>4, <3>6
    <3>8. \E k \in DOMAIN q : q[k].at = "sent"
      BY <2>4, <3>4
    <3> QED
      BY <1>1, <2>7, <3>5, <3>7, <3>8 DEF ListTrue
  <2> QED
    BY <2>9, <2>10, <2>11 DEF PageInv
<1>4. \/ UNCHANGED <<calls, listed>>
      \/ \E from, over \in DOMAIN listed :
           /\ calls' = [calls EXCEPT !.orders = Append(@,
                         [at |-> "sent", refs |-> move(listed, listed[from], listed[over]),
                          known |-> ToSet(listed)])]
           /\ listed' = Only(move(listed, listed[from], listed[over]), ToSet(listed))
  BY DEF Drop
<1> QED
  BY <1>2, <1>3, <1>4

LEMMA QuerySteps == PageInv /\ RacedStep /\ QueryStep => PageInv'
<1> SUFFICES ASSUME PageInv, RacedStep, QueryStep PROVE PageInv'
  OBVIOUS
<1> USE DEF store, service
<1>1. /\ StoreTypeOK /\ ServiceTypeOK /\ LeavesInv /\ SettlesInv
      /\ stored \in Seq(Songs) /\ listed \in Seq(Songs) /\ fetch \in ListFetches /\ seen \in Histories
      /\ calls \in ServiceCalls
  BY DEF PageInv, StoreTypeOK, ServiceTypeOK
<1>2. CASE FetchReads /\ UNCHANGED <<store, listed, submit, service, seen>>
  <2>1. fetch.at = "asked" /\ fetch' = ReadOf(stored)
    BY <1>2 DEF FetchReads, Reads
  <2>2. fetch' \in ListFetches /\ fetch'.at = "read" /\ fetch'.value = stored
    BY <1>1, <2>1, FetchParts
  <2>3. StoreTypeOK' /\ ServiceTypeOK'
    BY <1>1, <1>2, <2>2 DEF StoreTypeOK, ServiceTypeOK, RacedStep
  <2>4. LeavesInv'
    BY <1>1, <1>2 DEF LeavesInv, OnlyConfirmedLeaves, Sends
  <2>5. SettlesInv'
    BY <1>2, <2>2 DEF SettlesInv, ListTrue, RacedStep
  <2> QED
    BY <2>3, <2>4, <2>5 DEF PageInv
<1>3. CASE FetchLands /\ UNCHANGED <<store, submit, service, seen>>
  <2>1. /\ fetch.at \in {"read", "passed"} /\ listed' = fetch.value
        /\ fetch' = IF fetch.at = "read" THEN NoFetch ELSE Outdated
    BY <1>3 DEF FetchLands, Lands
  <2>2. fetch' \in ListFetches /\ listed' \in Seq(Songs)
    BY <1>1, <2>1, FetchParts
  <2>3. StoreTypeOK' /\ ServiceTypeOK'
    BY <1>1, <1>3, <2>2 DEF StoreTypeOK, ServiceTypeOK, RacedStep
  <2>4. LeavesInv'
    BY <1>1, <1>3 DEF LeavesInv, OnlyConfirmedLeaves, Sends
  <2>5. SettlesInv'
    <3> SUFFICES ASSUME ~Excused', ~Owed' PROVE ListTrue'
      BY DEF SettlesInv, RacedStep
    <3>1. fetch.at = "read" /\ fetch'.at = "idle"
      <4>1. fetch'.at # "outdated"
        BY DEF Owed, Owing
      <4> QED
        BY <2>1, <4>1, <1>1, FetchParts
    <3>2. ~Excused /\ ~Owed /\ ~raced
      BY <1>3, <3>1 DEF Excused, Owed, Owing, RacedStep
    <3>3. ListTrue
      BY <1>1, <3>2 DEF SettlesInv
    <3>4. DOMAIN calls.orders = {}
      BY <1>1, <3>1, <3>2, OneOrder DEF SettlesInv
    <3> QED
      BY <1>3, <2>1, <3>1, <3>3, <3>4 DEF ListTrue
  <2> QED
    BY <2>3, <2>4, <2>5 DEF PageInv
<1>4. ASSUME NEW s \in Songs, Import(s), UNCHANGED <<gone, listed, fetch, submit, service>>
      PROVE  PageInv'
  <2>1. stored' = Append(stored, s) /\ news' = TRUE /\ seen' = [seen EXCEPT !.known = seen.known \cup {s}]
    BY <1>4 DEF Import
  <2>2. stored' \in Seq(Songs) /\ ToSet(stored') = ToSet(stored) \cup {s}
    <3> DEFINE one == <<s>>
    <3>1. one \in Seq(Songs) /\ ToSet(one) = {s}
      BY DEF ToSet
    <3>2. stored' = stored \o one
      BY <1>1, <2>1, AppendIsConcat
    <3> HIDE DEF one
    <3> QED
      BY <1>1, <3>1, <3>2, ConcatSongs
  <2>3. /\ seen' \in Histories /\ seen'.known = seen.known \cup {s} /\ seen'.confirmed = seen.confirmed
        /\ seen'.overlooked = seen.overlooked
    BY <1>1, <2>1 DEF Histories
  <2>4. StoreTypeOK' /\ ServiceTypeOK'
    BY <1>1, <1>4, <2>1, <2>2, <2>3 DEF StoreTypeOK, ServiceTypeOK, RacedStep
  <2>5. LeavesInv'
    <3>1. OnlyConfirmedLeaves'
      BY <1>1, <1>4, <2>2, <2>3 DEF LeavesInv, OnlyConfirmedLeaves
    <3> QED
      BY <1>1, <1>4, <2>3, <3>1 DEF LeavesInv, Sends
  <2>6. SettlesInv'
    BY <2>1 DEF SettlesInv, Owed, RacedStep
  <2> QED
    BY <2>4, <2>5, <2>6 DEF PageInv
<1>5. CASE /\ listed' = <<>> /\ AsksAgain /\ removal' = None
           /\ UNCHANGED <<store, submit, calls, undo, seen>>
  <2>1. fetch' \in ListFetches /\ fetch'.at \in Owing /\ <<>> \in Seq(Songs)
    BY <1>1, <1>5, AskedParts
  <2>2. StoreTypeOK' /\ ServiceTypeOK'
    BY <1>1, <1>5, <2>1 DEF StoreTypeOK, ServiceTypeOK, RacedStep, Removals
  <2>3. LeavesInv'
    BY <1>1, <1>5 DEF LeavesInv, OnlyConfirmedLeaves, Sends
  <2>4. SettlesInv'
    BY <2>1 DEF SettlesInv, Owed, RacedStep
  <2> QED
    BY <2>2, <2>3, <2>4 DEF PageInv
<1> QED
  BY <1>2, <1>3, <1>4, <1>5 DEF QueryStep

LEMMA PressSteps == PageInv /\ ViewTypeOK /\ RacedStep /\ PressStep => PageInv'
  BY ConfirmStep, UndoPress, SubmitPress, DropStep DEF PressStep

LEMMA PageStep == PageInv /\ ViewTypeOK /\ [Next]_vars => PageInv' /\ ViewTypeOK'
<1> SUFFICES ASSUME PageInv, ViewTypeOK, [Next]_vars PROVE PageInv' /\ ViewTypeOK'
  OBVIOUS
<1>1. raced \in BOOLEAN /\ (Overlaps => raced) /\ StoreTypeOK
  BY DEF PageInv, StoreTypeOK, SettlesInv
<1>2. CASE Next
  <2>1. RacedStep
    <3>1. raced' = (raced \/ Overlaps')
      BY <1>2 DEF Next
    <3>2. Overlaps' \in BOOLEAN
      BY DEF Overlaps
    <3> QED
      BY <1>1, <3>1, <3>2 DEF RacedStep
  <2>2. PageInv'
    BY <1>2, <2>1, ServiceFrame, ListKeptStep, PressSteps, QuerySteps, TakeSteps, UndoSteps,
       OrderSteps, SubmitSteps DEF ServiceStep
  <2>3. ViewTypeOK'
    BY <1>1, <1>2, ViewFrame, ViewTypeStep
  <2> QED
    BY <2>2, <2>3
<1>3. CASE UNCHANGED vars
  <2>1. UNCHANGED <<pageVars, menu>>
    BY <1>3 DEF vars, windowVars
  <2>2. UNCHANGED <<stored, gone, listed, fetch, news, view, dialog, picker, submit,
                    calls, removal, undo, raced, seen, menu>>
    BY <2>1 DEF pageVars
  <2>3. ViewTypeOK'
    BY <2>2 DEF ViewTypeOK, MenuTypeOK
  <2>4. RacedStep /\ ListKept
    BY <1>1, <2>2 DEF RacedStep, Overlaps, ListKept, CallMoves, FetchMoves
  <2> QED
    BY <2>3, <2>4, ListKeptStep
<1> QED
  BY <1>2, <1>3

LEMMA PageStart == Init => PageInv /\ ViewTypeOK
<1> SUFFICES ASSUME Init PROVE PageInv /\ ViewTypeOK
  OBVIOUS
<1>1. /\ stored = Home /\ listed = Home /\ gone = FALSE /\ fetch = NoFetch /\ news = FALSE
      /\ view = [query |-> FALSE, order |-> "added", selected |-> {}, anchor |-> 0]
      /\ dialog = NoDialog /\ picker = NoPicker /\ submit = None
      /\ calls = [take |-> None, orders |-> <<>>, delete |-> "none", rename |-> "none"]
      /\ removal = None /\ undo = None /\ raced = FALSE
      /\ seen = [known |-> ToSet(Home), confirmed |-> {}, overlooked |-> {}, halfway |-> FALSE]
      /\ menu = NoMenu
  BY DEF Init, PageInit, WindowInit
<1>2. Home \in Seq(Songs) /\ ToSet(Home) \in SUBSET Songs /\ <<>> \in Seq(OrderCalls)
  BY PageAssumption DEF PageAssumption, ToSet
<1>3. StoreTypeOK
  BY <1>1, <1>2 DEF StoreTypeOK, ListFetches
<1>4. calls \in ServiceCalls /\ seen \in Histories
  BY <1>1, <1>2 DEF ServiceCalls, Takes, Histories
<1>5. ServiceTypeOK
  BY <1>1, <1>4 DEF ServiceTypeOK, Removals, Undos, Additions
<1>6. ViewTypeOK
  BY <1>1 DEF ViewTypeOK, MenuTypeOK, Views, Dialogs, Pickers, NoDialog, NoPicker, NoMenu, Orders
<1>7. calls.take.at = "none" /\ calls.orders = <<>> /\ DOMAIN calls.orders = {} /\ undo.at = "none"
  BY <1>1 DEF None
<1>8. LeavesInv
  BY <1>1, <1>7 DEF LeavesInv, OnlyConfirmedLeaves, Sends
<1>9. SettlesInv
  BY <1>1, <1>7 DEF SettlesInv, Overlaps, ListTrue, NoFetch
<1> QED
  BY <1>3, <1>5, <1>6, <1>8, <1>9 DEF PageInv

\* The state of the page has its types, the calls between the page and the store
\* among it, in every window. About playlist.tsx, removal.ts, picker.tsx and the
\* state they keep while their calls are under way.
THEOREM WindowPageTyped == Spec => [](StoreTypeOK /\ ServiceTypeOK /\ ViewTypeOK)
<1>1. PageInv => StoreTypeOK /\ ServiceTypeOK
  BY DEF PageInv
<1> QED
  BY <1>1, PageStart, PageStep, PTL DEF Spec

\* A song leaves the playlist only because its removal was confirmed, or in an order
\* sent by a page that did not list it yet, however its drags, undos, removals,
\* additions and readings interleave with each other and with what another device
\* adds. About playlist.tsx and removal.ts and what the store drops for each call.
THEOREM WindowLeaves == Spec => []OnlyConfirmedLeaves
<1>1. PageInv => OnlyConfirmedLeaves
  BY DEF PageInv, LeavesInv
<1> QED
  BY <1>1, PageStart, PageStep, PTL DEF Spec

\* With nothing under way the page lists what is stored, unless an order overlapped
\* a fetch or another order, a call failed halfway, or the page was left while it was
\* reading and what it read was changed before it landed: every other answer, failed
\* or not, whether the page is shown by then or not, makes it read the playlist again. About the invalidations of playlist.tsx,
\* removal.ts and picker.tsx.
THEOREM WindowPageSettles == Spec => []PageSettles
<1>1. PageInv => PageSettles
  <2> SUFFICES ASSUME PageInv, calls.take = None, calls.orders = <<>>, undo = None, submit = None,
                      fetch = NoFetch, ~news, ~gone, ~raced, ~seen.halfway
               PROVE  listed = stored
    BY DEF PageSettles
  <2>1. fetch.at = "idle" /\ calls.take.at = "none" /\ undo.at = "none" /\ DOMAIN calls.orders = {}
    BY DEF NoFetch, None
  <2>2. ~Excused /\ ~Owed
    BY <2>1 DEF Excused, Owed, Owing
  <2>3. ListTrue
    BY <2>2 DEF PageInv, SettlesInv
  <2> QED
    BY <2>1, <2>3 DEF ListTrue
<1> QED
  BY <1>1, PageStart, PageStep, PTL DEF Spec

(***************************************************************************)
(* An undo moves nothing else                                              *)
(***************************************************************************)

\* What of an order stays when the removed songs are put back into it.
Kept(of) == ToSet(of.order) \ of.refs
AllSent == \A k \in DOMAIN calls.orders : calls.orders[k].at = "sent"

\* Until an order has run, the store keeps the songs that stay in the order the
\* removal was offered with; an order that has run takes the offer away when it is
\* answered, and until then no undo counts as clean.
OfferInv ==
  removal # None /\ removal.clean =>
    /\ undo = None
    /\ calls.take # None => calls.take.refs = removal.refs
    /\ AllSent => Only(stored, Kept(removal)) = Only(removal.order, Kept(removal))
\* An undo sends the songs that stay in the order they had when it was pressed.
RestoreInv ==
  undo # None /\ undo.clean =>
    /\ Only(undo.before, Kept(undo)) = Only(undo.order, Kept(undo))
    /\ undo.at = "ordering" => Only(undo.send, Kept(undo)) = Only(undo.order, Kept(undo))
UndoInv == OfferInv /\ RestoreInv

\* An offer that stays as it is, over a store that keeps the songs that stay.
LEMMA OfferKept ==
  ASSUME OfferInv, removal \in Removals, stored \in Seq(Songs),
         removal' \in {removal, None}, UNCHANGED undo,
         calls'.take # None => calls.take # None /\ calls'.take.refs = calls.take.refs,
         AllSent' => AllSent,
         \A K \in SUBSET ToSet(stored) :
           (calls.take.at = "sent" => K \cap calls.take.refs = {}) => Only(stored', K) = Only(stored, K)
  PROVE  OfferInv'
<1> SUFFICES ASSUME removal' # None, removal'.clean
             PROVE  /\ undo' = None
                    /\ calls'.take # None => calls'.take.refs = removal'.refs
                    /\ AllSent' => Only(stored', Kept(removal')) = Only(removal'.order, Kept(removal'))
  BY DEF OfferInv, Kept
<1>1. /\ removal' = removal /\ removal # None /\ removal.clean
      /\ undo = None /\ (calls.take # None => calls.take.refs = removal.refs)
      /\ AllSent => Only(stored, Kept(removal)) = Only(removal.order, Kept(removal))
  BY DEF OfferInv
<1>2. ASSUME AllSent PROVE Only(stored', Kept(removal)) = Only(removal.order, Kept(removal))
  <2> DEFINE K == Kept(removal)
  <2>1. removal.order \in Seq(Songs)
    BY <1>1 DEF Removals
  <2>2. K \subseteq ToSet(removal.order) /\ K \cap removal.refs = {}
    BY DEF Kept
  <2>3. Only(stored, K) = Only(removal.order, K)
    BY <1>1, <1>2
  <2> HIDE DEF K
  <2>4. ToSet(Only(stored, K)) = ToSet(stored) \cap K
    BY OnlySongs
  <2>5. ToSet(Only(removal.order, K)) = ToSet(removal.order) \cap K
    BY <2>1, OnlySongs
  <2>6. K \in SUBSET ToSet(stored)
    BY <2>2, <2>3, <2>4, <2>5
  <2>7. calls.take.at = "sent" => K \cap calls.take.refs = {}
    BY <1>1, <2>2 DEF None
  <2>8. Only(stored', K) = Only(stored, K)
    BY <2>6, <2>7
  <2> QED
    BY <2>3, <2>8 DEF K
<1> QED
  BY <1>1, <1>2

\* Songs the playlist lacks are added behind the others.
LEMMA AddsKept ==
  ASSUME stored \in Seq(Songs), NEW refs \in SUBSET Songs, AddSongs(SetToSeq(refs)),
         NEW K \in SUBSET ToSet(stored)
  PROVE  Only(stored', K) = Only(stored, K)
<1> DEFINE q == SetToSeq(refs)
           more == Without(q, ToSet(stored))
<1>1. IsFiniteSet(refs)
  BY FS_Subset, PageAssumption DEF PageAssumption
<1>2. q \in Seq(refs)
  BY <1>1, SetSongs
<1>3. stored' = stored \o more
  BY DEF AddSongs
<1> HIDE DEF q
<1>4. q \in Seq(Songs)
  BY <1>2, SeqMonotonic
<1>5. more \in Seq(Songs) /\ ToSet(more) = ToSet(q) \ ToSet(stored)
  BY <1>4, OnlySongs
<1> HIDE DEF more
<1>6. ToSet(more) \cap K = {}
  BY <1>5
<1>7. Only(stored \o more, K) = Only(stored, K)
  BY <1>5, <1>6, OnlyConcat
<1> QED
  BY <1>3, <1>7

LEMMA OfferListKept ==
  ASSUME PageInv, UndoInv, ListKept
  PROVE  UndoInv'
<1>1. /\ removal \in Removals /\ stored \in Seq(Songs) /\ calls \in ServiceCalls
      /\ removal' \in {removal, None} /\ UNCHANGED <<stored, undo>>
  BY DEF PageInv, StoreTypeOK, ServiceTypeOK, ListKept
<1>2. calls'.take = calls.take /\ calls'.orders = calls.orders
  <2>1. None \in Takes /\ <<>> \in Seq(OrderCalls)
    BY DEF Takes
  <2>2. ASSUME NEW d \in {"none", "sent", "ran"}, calls' = [calls EXCEPT !.delete = d]
        PROVE  calls'.take = calls.take /\ calls'.orders = calls.orders
    BY <1>1, <2>1, <2>2, CallsWith
  <2>3. ASSUME NEW r \in {"none", "sent", "reading"}, calls' = [calls EXCEPT !.rename = r]
        PROVE  calls'.take = calls.take /\ calls'.orders = calls.orders
    BY <1>1, <2>1, <2>3, CallsWith
  <2> QED
    BY <2>2, <2>3 DEF ListKept, CallMoves
<1>3. AllSent' => AllSent
  BY <1>2 DEF AllSent
<1>4. OfferInv'
  BY <1>1, <1>2, <1>3, OfferKept DEF UndoInv
<1>5. RestoreInv'
  BY <1>1 DEF UndoInv, RestoreInv, Kept
<1> QED
  BY <1>4, <1>5 DEF UndoInv

LEMMA OfferMade ==
  ASSUME PageInv, UndoInv, ConfirmRemove, UNCHANGED <<store, listed, fetch, submit, undo>>
  PROVE  UndoInv'
<1>1. stored \in Seq(Songs) /\ listed \in Seq(Songs) /\ calls \in ServiceCalls /\ UNCHANGED <<stored, undo>>
  BY DEF PageInv, StoreTypeOK, ServiceTypeOK, store
<1> DEFINE refs == dialog.removing
           t == [at |-> "sent", refs |-> refs]
           K == ToSet(listed) \ refs
<1>2. /\ calls'.take = t
      /\ removal' = [at |-> "staged", refs |-> refs, order |-> listed, clean |-> undo = None /\ InOrder]
  BY <1>1 DEF ConfirmRemove, ServiceCalls
<1>3. /\ removal'.refs = refs /\ removal'.order = listed /\ t.refs = refs
      /\ removal'.clean <=> undo = None /\ InOrder
  BY <1>2
<1> HIDE DEF refs, t
<1>4. ASSUME InOrder PROVE Only(stored, K) = Only(listed, K)
  <2> DEFINE all == ToSet(listed)
  <2>1. listed = Only(stored, all)
    BY <1>4 DEF InOrder
  <2>2. K = all \cap K
    OBVIOUS
  <2> HIDE DEF K, all
  <2>3. Only(Only(stored, all), K) = Only(stored, all \cap K)
    BY <1>1, OnlyOnly
  <2> QED
    BY <2>1, <2>2, <2>3
<1>5. OfferInv'
  <2>1. Kept(removal') = K
    BY <1>3 DEF Kept
  <2> HIDE DEF K
  <2>2. Kept(removal)' = K
    BY <2>1 DEF Kept
  <2>3. (undo = None /\ InOrder => Only(stored', Kept(removal)') = Only(removal'.order, Kept(removal)'))
    BY <1>1, <1>3, <1>4, <2>2
  <2>4. calls'.take.refs = removal'.refs
    BY <1>2, <1>3
  <2> QED
    BY <1>1, <1>3, <2>3, <2>4 DEF OfferInv
<1>6. RestoreInv'
  BY <1>1 DEF UndoInv, RestoreInv, Kept
<1> QED
  BY <1>5, <1>6 DEF UndoInv

LEMMA OfferTaken ==
  ASSUME PageInv, UndoInv, Undo, UNCHANGED <<store, listed, fetch, submit, calls, seen>>
  PROVE  UndoInv'
<1>1. /\ removal # None /\ undo = None /\ removal' = None
      /\ undo' = [at |-> "adding", refs |-> removal.refs, order |-> removal.order,
                  before |-> stored, send |-> <<>>, known |-> {},
                  clean |-> removal.clean /\ calls.orders = <<>>]
  BY DEF Undo
<1>2. /\ undo'.at = "adding" /\ undo'.before = stored /\ undo'.order = removal.order
      /\ undo'.refs = removal.refs /\ (undo'.clean => removal.clean /\ calls.orders = <<>>)
  BY <1>1
<1>3. Kept(undo)' = Kept(removal)
  BY <1>2 DEF Kept
<1>4. calls.orders = <<>> => AllSent
  BY DEF AllSent
<1>5. undo'.clean => Only(stored, Kept(removal)) = Only(removal.order, Kept(removal))
  BY <1>1, <1>2, <1>4 DEF UndoInv, OfferInv
<1>6. RestoreInv'
  BY <1>2, <1>3, <1>5 DEF RestoreInv
<1>7. OfferInv'
  BY <1>1 DEF OfferInv
<1> QED
  BY <1>6, <1>7 DEF UndoInv

LEMMA OfferOver ==
  ASSUME PageInv, UndoInv, Drop, UNCHANGED <<store, fetch, submit, removal, undo, seen>>
  PROVE  UndoInv'
<1>1. /\ removal \in Removals /\ stored \in Seq(Songs) /\ calls \in ServiceCalls
      /\ UNCHANGED <<stored, removal, undo>>
  BY DEF PageInv, StoreTypeOK, ServiceTypeOK, store
<1>2. RestoreInv'
  BY <1>1 DEF UndoInv, RestoreInv, Kept
<1>3. calls'.take = calls.take /\ (AllSent' => AllSent)
  <2>1. CASE UNCHANGED calls
    BY <2>1 DEF AllSent
  <2>2. ASSUME NEW o, calls' = [calls EXCEPT !.orders = Append(@, o)]
        PROVE  calls'.take = calls.take /\ (AllSent' => AllSent)
    <3> DEFINE q == Append(calls.orders, o)
    <3>1. calls'.take = calls.take /\ calls'.orders = q
      BY <1>1, <2>2 DEF ServiceCalls
    <3>2. calls.orders \in Seq(OrderCalls)
      BY <1>1, CallsParts
    <3>3. \A i \in DOMAIN calls.orders : i \in DOMAIN q /\ q[i] = calls.orders[i]
      BY <3>2
    <3> QED
      BY <3>1, <3>3 DEF AllSent
  <2>3. UNCHANGED calls \/ \E o : calls' = [calls EXCEPT !.orders = Append(@, o)]
    BY DEF Drop
  <2> QED
    BY <2>1, <2>2, <2>3
<1>4. OfferInv'
  BY <1>1, <1>3, OfferKept DEF UndoInv
<1> QED
  BY <1>2, <1>4 DEF UndoInv

\* A fetch and another device: what a pass brings is added behind the others.
LEMMA OfferQueries ==
  ASSUME PageInv, UndoInv, QueryStep
  PROVE  UndoInv'
<1>1. /\ removal \in Removals /\ stored \in Seq(Songs) /\ removal' \in {removal, None}
      /\ UNCHANGED <<calls, undo>>
  BY DEF PageInv, StoreTypeOK, ServiceTypeOK, QueryStep, service
<1>2. RestoreInv'
  BY <1>1 DEF UndoInv, RestoreInv, Kept
<1>3. AllSent' => AllSent
  BY <1>1 DEF AllSent
<1>4. ASSUME NEW K \in SUBSET ToSet(stored) PROVE Only(stored', K) = Only(stored, K)
  <2>1. CASE UNCHANGED stored
    BY <2>1
  <2>2. ASSUME NEW s \in Songs, Import(s) PROVE Only(stored', K) = Only(stored, K)
    <3> DEFINE one == <<s>>
    <3>1. one \in Seq(Songs) /\ ToSet(one) = {s}
      BY DEF ToSet
    <3>2. stored' = stored \o one /\ s \notin ToSet(stored)
      BY <1>1, <2>2, AppendIsConcat DEF Import
    <3> HIDE DEF one
    <3>3. Only(stored \o one, K) = Only(stored, K)
      BY <1>1, <3>1, <3>2, OnlyConcat
    <3> QED
      BY <3>2, <3>3
  <2> QED
    BY <2>1, <2>2 DEF QueryStep, store
<1>5. OfferInv'
  BY <1>1, <1>3, <1>4, OfferKept DEF UndoInv
<1> QED
  BY <1>2, <1>5 DEF UndoInv

\* The removal itself takes only what does not stay.
LEMMA OfferTakes ==
  ASSUME PageInv, UndoInv, TakeStep
  PROVE  UndoInv'
<1>1. /\ removal \in Removals /\ stored \in Seq(Songs) /\ calls \in ServiceCalls
      /\ UNCHANGED <<removal, undo>>
  BY DEF PageInv, StoreTypeOK, ServiceTypeOK, TakeStep
<1>2. RestoreInv'
  BY <1>1 DEF UndoInv, RestoreInv, Kept
<1>3. /\ calls'.orders = calls.orders
      /\ calls'.take # None => calls.take # None /\ calls'.take.refs = calls.take.refs
  <2>1. CASE TakeRuns
    <3> DEFINE t == [calls.take EXCEPT !.at = "ran"]
    <3>1. calls.take.at = "sent" /\ calls' = [calls EXCEPT !.take = t]
      BY <1>1, <2>1 DEF TakeRuns, ServiceCalls
    <3>2. t.refs = calls.take.refs
      BY <1>1, <3>1, CallsParts DEF Takes, None
    <3> HIDE DEF t
    <3>3. calls'.orders = calls.orders /\ calls'.take = t
      BY <1>1, <3>1 DEF ServiceCalls
    <3>4. calls.take # None
      BY <3>1 DEF None
    <3> QED
      BY <3>2, <3>3, <3>4
  <2>2. CASE calls' = [calls EXCEPT !.take = None]
    BY <1>1, <2>2 DEF ServiceCalls
  <2> QED
    BY <2>1, <2>2 DEF TakeStep, TakeFails, TakeAnswered
<1>4. AllSent' => AllSent
  BY <1>3 DEF AllSent
<1>5. ASSUME NEW K \in SUBSET ToSet(stored), calls.take.at = "sent" => K \cap calls.take.refs = {}
      PROVE  Only(stored', K) = Only(stored, K)
  <2>1. CASE UNCHANGED stored
    BY <2>1
  <2>2. CASE TakeRuns
    <3> DEFINE rest == ToSet(stored) \ calls.take.refs
    <3>1. stored' = Only(stored, rest) /\ calls.take.at = "sent"
      BY <2>2 DEF TakeRuns, RemoveSongs, Without
    <3>2. rest \cap K = K
      BY <1>5, <3>1
    <3> HIDE DEF rest
    <3>3. Only(Only(stored, rest), K) = Only(stored, rest \cap K)
      BY <1>1, OnlyOnly
    <3> QED
      BY <3>1, <3>2, <3>3
  <2> QED
    BY <2>1, <2>2 DEF TakeStep
<1>6. OfferInv'
  BY <1>1, <1>3, <1>4, <1>5, OfferKept DEF UndoInv
<1> QED
  BY <1>2, <1>6 DEF UndoInv

\* While an undo is under way no removal on offer is clean, so what it does to the
\* store matters to its own order only.
LEMMA OfferUndone ==
  ASSUME PageInv, UndoInv, UndoStep
  PROVE  UndoInv'
<1>1. /\ undo \in Undos /\ listed \in Seq(Songs) /\ UNCHANGED <<removal, calls, listed>>
  BY DEF PageInv, StoreTypeOK, ServiceTypeOK, UndoStep
<1>2. undo.at # "none" /\ undo \in UndoRecords
  <2>1. undo.at # "none"
    BY DEF UndoStep, UndoAdds, UndoOrders, UndoSends, UndoEnds, UndoFails
  <2> QED
    BY <1>1, <2>1 DEF Undos, None
<1>3. undo # None
  BY <1>2 DEF None
<1>4. OfferInv'
  <2>1. removal # None => ~removal.clean
    BY <1>3 DEF UndoInv, OfferInv
  <2>2. removal' # None => ~removal'.clean
    BY <1>1, <2>1
  <2> QED
    BY <2>2 DEF OfferInv
<1>5. ASSUME undo' = None PROVE RestoreInv'
  BY <1>5 DEF RestoreInv
<1>6. ASSUME UndoSends PROVE RestoreInv'
  <2> DEFINE first == undo.order
             more == Without(listed, ToSet(first))
             send == first \o more
             known == ToSet(first) \cup ToSet(listed)
             K == Kept(undo)
  <2>1. undo' = [undo EXCEPT !.at = "ordering", !.send = send, !.known = known]
    BY <1>6 DEF UndoSends
  <2>2. first \in Seq(Songs)
    BY <1>2 DEF UndoRecords
  <2>3. K \subseteq ToSet(first)
    BY DEF Kept
  <2> HIDE DEF first, known, K
  <2>4. more \in Seq(Songs) /\ ToSet(more) = ToSet(listed) \ ToSet(first)
    BY <1>1, OnlySongs
  <2> HIDE DEF more
  <2>5. Only(send, K) = Only(first, K)
    <3>1. ToSet(more) \cap K = {}
      BY <2>3, <2>4
    <3> QED
      BY <2>2, <2>4, <3>1, OnlyConcat
  <2> HIDE DEF send
  <2>6. /\ undo'.before = undo.before /\ undo'.order = undo.order /\ undo'.refs = undo.refs
        /\ undo'.clean = undo.clean /\ undo'.send = send
    BY <1>2, <2>1 DEF UndoRecords
  <2>7. Kept(undo)' = K
    BY <2>6 DEF Kept, K
  <2>8. Only(undo'.send, K) = Only(undo'.order, K)
    BY <2>5, <2>6 DEF first
  <2>9. undo.clean => Only(undo'.before, K) = Only(undo'.order, K)
    BY <1>3, <2>6 DEF UndoInv, RestoreInv, K
  <2> QED
    BY <2>6, <2>7, <2>8, <2>9 DEF RestoreInv
<1>7. ASSUME NEW a \in {"added", "ordered"}, undo' = [undo EXCEPT !.at = a]
      PROVE  RestoreInv'
  <2>1. /\ undo'.before = undo.before /\ undo'.order = undo.order /\ undo'.refs = undo.refs
        /\ undo'.clean = undo.clean /\ undo'.at = a
    BY <1>2, <1>7 DEF UndoRecords
  <2>2. undo.clean => Only(undo.before, Kept(undo)) = Only(undo.order, Kept(undo))
    BY <1>3 DEF UndoInv, RestoreInv
  <2> QED
    BY <2>1, <2>2 DEF RestoreInv, Kept
<1>8. RestoreInv'
  <2>1. UndoSends \/ undo' = None \/ \E a \in {"added", "ordered"} : undo' = [undo EXCEPT !.at = a]
    BY DEF UndoStep, UndoAdds, UndoOrders, UndoEnds, UndoFails
  <2> QED
    BY <1>5, <1>6, <1>7, <2>1
<1> QED
  BY <1>4, <1>8 DEF UndoInv

\* An order that ran, was answered or failed.
LEMMA OfferOrdered ==
  ASSUME PageInv, UndoInv, OrderStep
  PROVE  UndoInv'
<1>1. /\ removal \in Removals /\ stored \in Seq(Songs) /\ calls \in ServiceCalls /\ UNCHANGED undo
  BY DEF PageInv, StoreTypeOK, ServiceTypeOK, OrderStep
<1>2. RestoreInv'
  BY <1>1 DEF UndoInv, RestoreInv, Kept
<1>3. PICK k \in DOMAIN calls.orders :
        \/ OrderRuns(k) /\ UNCHANGED removal
        \/ OrderAnswered(k)
        \/ OrderFails(k) /\ UNCHANGED <<stored, removal>>
  BY DEF OrderStep
<1>4. CASE OrderRuns(k) /\ UNCHANGED removal
  <2>1. calls' = [calls EXCEPT !.orders[k].at = "ran"]
    BY <1>4 DEF OrderRuns
  <2>2. /\ calls'.take = calls.take /\ calls'.orders[k].at = "ran"
        /\ calls' \in ServiceCalls /\ Len(calls'.orders) = Len(calls.orders)
    BY <1>1, <2>1, OrderMoves
  <2>3. calls.orders \in Seq(OrderCalls) /\ calls'.orders \in Seq(OrderCalls)
    BY <1>1, <2>2 DEF ServiceCalls
  <2>4. k \in DOMAIN calls'.orders
    BY <2>2, <2>3
  <2>5. ~AllSent'
    BY <2>2, <2>4 DEF AllSent
  <2>6. OfferInv'
    BY <1>1, <1>4, <2>2, <2>5 DEF UndoInv, OfferInv
  <2> QED
    BY <1>2, <2>6 DEF UndoInv
<1>5. CASE OrderAnswered(k)
  <2>1. OfferInv'
    BY <1>5 DEF OrderAnswered, expireRemoval, OfferInv
  <2> QED
    BY <1>2, <2>1 DEF UndoInv
<1>6. CASE OrderFails(k) /\ UNCHANGED <<stored, removal>>
  <2> DEFINE q == RemoveAt(calls.orders, k)
  <2>1. calls.orders[k].at = "sent" /\ calls' = [calls EXCEPT !.orders = q]
    BY <1>6 DEF OrderFails
  <2>2. calls.orders \in Seq(OrderCalls)
    BY <1>1, CallsParts
  <2>3. \A j \in DOMAIN calls.orders \ {k} : \E i \in DOMAIN q : q[i] = calls.orders[j]
    BY <2>2, RemoveAtSeq
  <2> HIDE DEF q
  <2>4. calls'.take = calls.take /\ calls'.orders = q
    BY <1>1, <2>1 DEF ServiceCalls
  <2>5. AllSent' => AllSent
    <3> SUFFICES ASSUME AllSent', NEW j \in DOMAIN calls.orders PROVE calls.orders[j].at = "sent"
      BY DEF AllSent
    <3>1. CASE j = k
      BY <2>1, <3>1
    <3>2. CASE j # k
      <4>1. PICK i \in DOMAIN q : q[i] = calls.orders[j]
        BY <2>3, <3>2
      <4> QED
        BY <2>4, <4>1 DEF AllSent
    <3> QED
      BY <3>1, <3>2
  <2>6. OfferInv'
    BY <1>1, <1>6, <2>4, <2>5, OfferKept DEF UndoInv
  <2> QED
    BY <1>2, <2>6 DEF UndoInv
<1> QED
  BY <1>3, <1>4, <1>5, <1>6

LEMMA OfferAdded ==
  ASSUME PageInv, UndoInv, SubmitStep
  PROVE  UndoInv'
<1>1. /\ removal \in Removals /\ stored \in Seq(Songs) /\ submit \in Additions
      /\ UNCHANGED <<calls, undo>>
  BY DEF PageInv, StoreTypeOK, ServiceTypeOK, SubmitStep
<1>2. RestoreInv'
  BY <1>1 DEF UndoInv, RestoreInv, Kept
<1>3. AllSent' => AllSent
  BY <1>1 DEF AllSent
<1>4. removal' \in {removal, None}
  BY DEF SubmitStep, SubmitEnds, expireRemoval
<1>5. ASSUME NEW K \in SUBSET ToSet(stored) PROVE Only(stored', K) = Only(stored, K)
  <2>1. CASE UNCHANGED stored
    BY <2>1
  <2>2. CASE SubmitRuns /\ ~UNCHANGED stored
    <3>1. submit.refs \in SUBSET Songs /\ AddSongs(SetToSeq(submit.refs))
      BY <1>1, <2>2, SubmitParts DEF SubmitRuns
    <3> QED
      BY <1>1, <3>1, AddsKept
  <2> QED
    BY <2>1, <2>2 DEF SubmitStep
<1>6. OfferInv'
  BY <1>1, <1>3, <1>4, <1>5, OfferKept DEF UndoInv
<1> QED
  BY <1>2, <1>6 DEF UndoInv

LEMMA OfferPressed == PageInv /\ UndoInv /\ PressStep => UndoInv'
<1> SUFFICES ASSUME PageInv, UndoInv, PressStep PROVE UndoInv'
  OBVIOUS
<1>1. CASE Submit /\ UNCHANGED <<stored, calls, removal, undo>>
  BY <1>1 DEF UndoInv, OfferInv, RestoreInv, Kept, AllSent
<1> QED
  BY <1>1, OfferMade, OfferTaken, OfferOver DEF PressStep, store, service

LEMMA UndoInvStep == PageInv /\ UndoInv /\ [Next]_vars => UndoInv'
<1> SUFFICES ASSUME PageInv, UndoInv, [Next]_vars PROVE UndoInv'
  OBVIOUS
<1>1. CASE Next
  BY <1>1, ServiceFrame, OfferListKept, OfferPressed, OfferQueries, OfferTakes, OfferUndone,
     OfferOrdered, OfferAdded DEF ServiceStep
<1>2. CASE UNCHANGED vars
  <2>1. UNCHANGED pageVars
    BY <1>2 DEF vars
  <2>2. UNCHANGED <<stored, calls, removal, undo>>
    BY <2>1 DEF pageVars
  <2> QED
    BY <2>2 DEF UndoInv, OfferInv, RestoreInv, Kept, AllSent
<1> QED
  BY <1>1, <1>2

LEMMA UndoInvStart == Init => UndoInv
  BY DEF Init, PageInit, UndoInv, OfferInv, RestoreInv

\* The order of an undo, as the store applies it to the songs it has by then.
LEMMA UndoMovesNothing ==
  ASSUME PageInv, UndoInv, undo.at = "ordering", undo.clean, UndoOrders
  PROVE  LET stayed == (ToSet(undo.before) \cap ToSet(undo.order)) \ undo.refs
         IN  Only(stored', stayed) = Only(undo.before, stayed \cap ToSet(stored))
<1> DEFINE stayed == (ToSet(undo.before) \cap ToSet(undo.order)) \ undo.refs
           K == Kept(undo)
           B == stayed \cap ToSet(stored)
           send == undo.send
           before == undo.before
           earlier == undo.order
<1>1. before \in Seq(Songs) /\ earlier \in Seq(Songs) /\ send \in Seq(Songs) /\ undo # None
  <2>1. undo \in Undos /\ undo # None
    BY DEF PageInv, ServiceTypeOK, None
  <2> QED
    BY <2>1 DEF Undos, UndoRecords
<1>2. Only(before, K) = Only(earlier, K) /\ Only(send, K) = Only(earlier, K)
  BY <1>1 DEF UndoInv, RestoreInv
<1>3. stored' = Only(send, ToSet(stored))
  BY DEF UndoOrders, Reorder
<1>4. K \cap B = B /\ ToSet(stored) \cap stayed = B
  BY DEF Kept
<1> HIDE DEF stayed, K, B, send, before, earlier
<1>5. Only(stored', stayed) = Only(send, B)
  BY <1>1, <1>3, <1>4, OnlyOnly
<1>6. Only(send, B) = Only(before, B)
  <2>1. Only(Only(send, K), B) = Only(send, K \cap B)
    BY <1>1, OnlyOnly
  <2>2. Only(Only(before, K), B) = Only(before, K \cap B)
    BY <1>1, OnlyOnly
  <2> QED
    BY <1>2, <1>4, <2>1, <2>2
<1> QED
  BY <1>5, <1>6 DEF stayed, B, before

\* An undo puts the removed songs back among those the page listed without moving
\* these, whatever runs beside it: they are left in the order they had when it was
\* pressed. About removal.ts and expireRemoval.
THEOREM WindowUndoKeepsOrder == Spec => UndoKeepsOrder
<1>1. ASSUME PageInv, UndoInv, [Next]_vars, undo.at = "ordering", undo'.at = "ordered", undo.clean
      PROVE  LET stayed == (ToSet(undo.before) \cap ToSet(undo.order)) \ undo.refs
             IN  Only(stored', stayed) = Only(undo.before, stayed \cap ToSet(stored))
  <2>1. UndoOrders
    <3>1. CASE UNCHANGED undo
      BY <1>1, <3>1
    <3>2. CASE Next
      <4>1. undo \in Undos
        BY <1>1 DEF PageInv, ServiceTypeOK
      <4>2. CASE UndoStep
        BY <1>1, <4>2 DEF UndoStep, UndoAdds, UndoSends, UndoEnds, UndoFails, None
      <4>3. CASE Undo
        BY <1>1, <4>3 DEF Undo
      <4> QED
        BY <3>1, <3>2, <4>2, <4>3, ServiceFrame
        DEF ServiceStep, ListKept, PressStep, QueryStep, TakeStep, OrderStep, SubmitStep, service
    <3> QED
      BY <1>1, <3>1, <3>2 DEF vars, pageVars
  <2> QED
    BY <1>1, <2>1, UndoMovesNothing
<1>2. PageInv /\ UndoInv /\ [Next]_vars
        => [undo.at = "ordering" /\ undo'.at = "ordered" /\ undo.clean
              => LET stayed == (ToSet(undo.before) \cap ToSet(undo.order)) \ undo.refs
                 IN  Only(stored', stayed) = Only(undo.before, stayed \cap ToSet(stored)) ]_pageVars
  BY <1>1
<1> QED
  BY <1>2, PageStart, PageStep, UndoInvStart, UndoInvStep, PTL DEF Spec, UndoKeepsOrder
=============================================================================
