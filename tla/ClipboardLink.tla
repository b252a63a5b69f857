---------------------------- MODULE ClipboardLink ----------------------------
(* The link on the clipboard: the check that finds it, the banner that       *)
(* offers it, and what takes it down again - opening it, dismissing it, or   *)
(* being where it leads already. Three parties clear the banner, and each    *)
(* acts on a link it saw earlier.                                            *)
(* src/frontend/src/lib/clipboard: views/stores/pending.ts,                  *)
(* views/ui/banner.tsx, app/within.ts, app/link.ts                           *)
EXTENDS Window, FiniteSets

CONSTANTS
    Tracks,     \* the links that are songs
    PageLinks,  \* the links that are pages of the window
    Leads       \* the page each of those leads to

Nowhere == "nothing"   \* no link, and a clipboard with no link on it
Texts == Tracks \cup PageLinks
ASSUME ClipboardAssumption ==
    /\ Nowhere \notin Texts /\ Tracks \cap PageLinks = {}
    /\ Leads \in [PageLinks -> Routes]

VARIABLES
    clip,       \* what is on the clipboard
    check,      \* the check under way, and what it has read
    last,       \* the text that was read last
    ignored,    \* the links that are not offered again
    offer,      \* the link on the banner, and whether it was dismissed
    opening,    \* the song link being opened
    effect,     \* the link a rendered banner found redundant
    nowPlaying, \* the song link that is playing, or nothing
    offered,    \* the links that were ever on the banner (history)
    settled     \* those that were acted on, made redundant or replaced (history)
linkVars == <<clip, check, last, ignored, offer, opening, effect, nowPlaying,
              offered, settled>>

NoCheck == [at |-> "none", text |-> Nowhere]
NoOffer == [link |-> Nowhere, dismissed |-> FALSE]
NotOpening == [at |-> "none", link |-> Nowhere]

LinkInit ==
    /\ clip = Nowhere /\ check = NoCheck /\ last = Nowhere /\ ignored = {}
    /\ offer = NoOffer /\ opening = NotOpening /\ effect = Nowhere
    /\ nowPlaying = Nowhere /\ offered = {} /\ settled = {}

-----------------------------------------------------------------------------
(* The clipboard, and the check *)

Copy(text) == clip # text /\ Spend("clips") /\ clip' = text /\ UNCHANGED ignored
\* What the app itself copied is not offered.
remember(text) == /\ Spend("clips") /\ clip' = text
                  /\ ignored' = ignored \cup {text}

\* The window is focused or seen again, or on touch the timer ran. One check at
\* a time.
CheckStarts ==
    /\ check = NoCheck /\ Spend("checks")
    /\ check' = [at |-> "asked", text |-> Nowhere]
\* A provider that does not answer in time counts for none.
CheckReads ==
    /\ check.at = "asked"
    /\ \E text \in {clip, Nowhere} : check' = [at |-> "read", text |-> text]
CheckLands ==
    LET text == check.text
        news == text # Nowhere /\ text # last /\ text \notin ignored
    IN  /\ check.at = "read" /\ check' = NoCheck
        /\ last' = IF text = Nowhere THEN last ELSE text
        /\ ignored' = IF news THEN ignored \cup {text} ELSE ignored
        /\ offer' = IF news THEN [link |-> text, dismissed |-> FALSE] ELSE offer
        /\ offered' = IF news THEN offered \cup {text} ELSE offered
        /\ settled' = IF news THEN settled \cup {offer.link} ELSE settled

-----------------------------------------------------------------------------
(* The banner *)

Redundant ==
    \/ offer.link \in PageLinks /\ Leads[offer.link] = Route
    \/ offer.link \in Tracks /\ nowPlaying = offer.link

\* The banner renders without the link; the effect that clears it runs later,
\* about the link of that rendering.
Renders ==
    /\ Redundant /\ effect = Nowhere
    /\ effect' = offer.link /\ settled' = settled \cup {offer.link}
\* mutated: whatever is pending by then is cleared
EffectRunsBlind ==
    /\ effect # Nowhere /\ effect' = Nowhere /\ offer' = NoOffer
EffectRuns ==
    /\ effect # Nowhere /\ effect' = Nowhere
    /\ offer' = IF offer.link = effect THEN NoOffer ELSE offer

Offering == offer.link # Nowhere /\ ~offer.dismissed /\ ~Redundant

dismissLink ==
    /\ Offering /\ offer' = [offer EXCEPT !.dismissed = TRUE]
    /\ settled' = settled \cup {offer.link}

\* The banner is taken down before the page is there.
OpenPage ==
    /\ Offering /\ offer.link \in PageLinks /\ opening = NotOpening
    /\ offer' = NoOffer /\ settled' = settled \cup {offer.link}
\* A song is asked for; the banner stays until it plays.
OpenSong ==
    /\ Offering /\ offer.link \in Tracks /\ opening = NotOpening
    /\ opening' = [at |-> "asked", link |-> offer.link]
    /\ settled' = settled \cup {offer.link}
SongStarts ==
    /\ opening.at = "asked"
    /\ opening' = [opening EXCEPT !.at = "started"] /\ nowPlaying' = opening.link
SongFails == opening # NotOpening /\ Spend("faults") /\ opening' = NotOpening
\* It takes the banner down, whatever link is on it by then.
SongPlays ==
    /\ opening.at = "started" /\ opening' = NotOpening
    /\ offer' = NoOffer /\ settled' = settled \cup {offer.link}
\* Another song, or none, plays.
Elsewhere == /\ Spend("clips") /\ nowPlaying' \in (Tracks \cup {Nowhere}) \ {nowPlaying}

\* A page that loads again has forgotten what it offered.
ReloadLink ==
    /\ check' = NoCheck /\ last' = Nowhere /\ ignored' = {} /\ offer' = NoOffer
    /\ opening' = NotOpening /\ effect' = Nowhere /\ nowPlaying' = Nowhere
    /\ offered' = {} /\ settled' = {} /\ UNCHANGED clip

\* What needs no page: opening a page link is the window's.
LinkNext ==
    /\ UNCHANGED <<historyVars, menu, drag>>
    /\ \/ /\ \E text \in Texts : Copy(text) \/ remember(text)
          /\ UNCHANGED <<check, last, offer, opening, effect, nowPlaying, offered, settled>>
       \/ /\ UNCHANGED <<clip, opening, effect, nowPlaying>>
          /\ \/ (CheckStarts \/ (CheckReads /\ UNCHANGED left))
                /\ UNCHANGED <<last, ignored, offer, offered, settled>>
             \/ CheckLands /\ UNCHANGED left
             \/ dismissLink /\ UNCHANGED <<check, last, ignored, offered, left>>
       \/ /\ UNCHANGED <<clip, check, last, ignored, offered>>
          /\ \/ Renders /\ UNCHANGED <<offer, opening, nowPlaying, left>>
             \/ EffectRuns /\ UNCHANGED <<opening, nowPlaying, settled, left>>
             \/ OpenSong /\ UNCHANGED <<offer, effect, nowPlaying, left>>
             \/ SongStarts /\ UNCHANGED <<offer, effect, settled, left>>
             \/ SongFails /\ UNCHANGED <<offer, effect, nowPlaying, settled>>
             \/ SongPlays /\ UNCHANGED <<effect, nowPlaying, left>>
             \/ Elsewhere /\ UNCHANGED <<offer, opening, effect, settled>>

-----------------------------------------------------------------------------
(* Property *)

\* A link that was offered, and is never offered again, is on the banner until
\* it is opened, dismissed, replaced by a newer one or was found to lead to
\* where the user is: an effect about an earlier link does not take a newer one
\* down. (A song that starts playing does: what it takes down counts as settled.)
LinkKept == offered \subseteq settled \cup {offer.link}
==============================================================================
