----------------------------- MODULE VideoEditor -----------------------------
(* The editor of a song's video: the field, filled from the song or by the   *)
(* answer of the app; a link typed into it, read after a pause; the search;  *)
(* the save, which goes on after the editor is closed or opened on another   *)
(* song; and the stream of the song that plays, which has to follow.         *)
(* src/frontend/src/lib/music: views/ui/track/youtube-editor.tsx,            *)
(* views/stores/youtube-editor.ts, views/stores/cache.ts, app/get-audio.ts;  *)
(* src/internal/services/youtube/service.go                                  *)
EXTENDS Window, FiniteSets

CONSTANTS
    Edited,      \* the songs
    Current,     \* the one that plays
    Videos,      \* the videos
    LinkedFirst, \* the video each song is linked to before the run
    MaxResolves  \* how many streams may be asked for (a bound)

NoVideo == "none"
NoSong == "nobody"
ASSUME EditorAssumption ==
    /\ Current \in Edited /\ NoSong \notin Edited /\ NoVideo \notin Videos
    /\ LinkedFirst \in [Edited -> Videos \cup {NoVideo}]

VARIABLES
    linked,   \* the video the app links each song to
    carried,  \* the video the song that plays carries
    editor,   \* the editor: the song, what it carried, the field, its timer
    submits,  \* the saves under way, newest last
    resolves, \* the streams asked for
    stream,   \* the video whose stream is kept for the song that plays
    meant,    \* for each song, the videos typed, found or answered for it (history)
    crossed   \* saves overlapped: with each other, a resolve or another editor (history)
editorVars == <<linked, carried, editor, submits, resolves, stream, meant, crossed>>

NoEditor == [song |-> NoSong, had |-> NoVideo, field |-> NoVideo, reads |-> NoVideo,
             asks |-> NoSong, mode |-> "assign", query |-> "none", n |-> 0]

EditorInit ==
    /\ linked = LinkedFirst /\ carried = NoVideo /\ editor = NoEditor
    /\ submits = <<>> /\ resolves = <<>> /\ stream = NoVideo
    /\ meant = [s \in Edited |-> {LinkedFirst[s], NoVideo}]
    /\ crossed = [video |-> FALSE, stream |-> FALSE]

-----------------------------------------------------------------------------
(* Opening and closing *)

EditorOpen == editor.song # NoSong

\* A row's song carries no video; the one that plays may. Without one the app
\* is asked for the video it knows.
openEditor(s, had) ==
    /\ Spend("edits")
    /\ had = NoVideo \/ (s = Current /\ had = carried)
    /\ editor' = [NoEditor EXCEPT !.song = s, !.had = had, !.field = had,
                    !.asks = IF had = NoVideo THEN s ELSE NoSong, !.n = editor.n + 1]
closeEditor == EditorOpen /\ editor' = [NoEditor EXCEPT !.n = editor.n]

\* Whatever is in the field by now, the answer replaces it; after the editor
\* was closed or changed its song, it is dropped.
GotYouTubeId ==
    /\ editor.asks # NoSong
    /\ editor' = [editor EXCEPT !.field = linked[editor.asks], !.asks = NoSong,
                                !.reads = NoVideo]
    /\ meant' = [meant EXCEPT ![editor.asks] = @ \cup {linked[editor.asks]}]

-----------------------------------------------------------------------------
(* The field and the search *)

\* A video, nothing, or a link to a video: a link is read after a pause.
TypeVideo(v, aslink) ==
    /\ EditorOpen /\ editor.mode = "assign" /\ Spend("edits")
    /\ editor' = IF aslink
                 THEN [editor EXCEPT !.field = v, !.reads = v]
                 ELSE [editor EXCEPT !.field = v, !.reads = NoVideo]
    /\ meant' = [meant EXCEPT ![editor.song] = @ \cup {v}]
ReadLink == editor.reads # NoVideo /\ editor' = [editor EXCEPT !.reads = NoVideo]

\* The search starts from the song's own words.
switchMode(next) ==
    /\ EditorOpen /\ next # editor.mode /\ Spend("edits")
    /\ editor' = [editor EXCEPT !.mode = next,
                     !.query = IF next = "search" THEN "asked" ELSE @]
SearchFound ==
    /\ EditorOpen /\ editor.query = "asked" /\ editor' = [editor EXCEPT !.query = "found"]
PickVideo(v) ==
    /\ EditorOpen /\ editor.mode = "search" /\ editor.query = "found" /\ Spend("edits")
    /\ editor' = [editor EXCEPT !.field = v, !.reads = NoVideo]
    /\ meant' = [meant EXCEPT ![editor.song] = @ \cup {v}]

-----------------------------------------------------------------------------
(* Saving *)

\* A video the song carries already is not sent: the button is off for it, and
\* a link to it only closes the editor.
submitSame ==
    EditorOpen /\ editor.field = editor.had /\ editor.reads # NoVideo /\ closeEditor
handleSubmit ==
    /\ EditorOpen /\ editor.field # editor.had /\ Spend("edits")
    /\ submits' = Append(submits, [song |-> editor.song, video |-> editor.field,
                                   from |-> editor.n, at |-> "sent"])
    /\ crossed' = [crossed EXCEPT !.stream = @ \/ submits # <<>> \/ resolves # <<>>]
UpdateRuns(k) ==
    /\ submits[k].at = "sent"
    /\ linked' = [linked EXCEPT ![submits[k].song] = submits[k].video]
    /\ submits' = [submits EXCEPT ![k].at = "ran"]
UpdateFails(k) ==
    /\ submits[k].at = "sent" /\ Spend("faults")
    /\ submits' = RemoveAt(submits, k)

\* What follows the answer: the song that plays carries the video, the field
\* shows it - whichever song the editor is about by then - and the stream kept
\* is dropped. The song that plays loads again before the editor is closed.
Carry(s, v) == carried' = IF s = Current THEN v ELSE carried
AnswerField(c) ==
    /\ editor' = IF c.song = Current THEN [editor EXCEPT !.field = c.video, !.reads = NoVideo]
                 ELSE [NoEditor EXCEPT !.n = editor.n]
    /\ submits' = LET k == CHOOSE k \in DOMAIN submits : submits[k] = c
                  IN  IF c.song = Current THEN [submits EXCEPT ![k].at = "reloading"]
                      ELSE RemoveAt(submits, k)
    /\ crossed' = [crossed EXCEPT !.video = @ \/ (EditorOpen /\ editor.song # c.song)]
Request(by, v) == [by |-> by, video |-> v, direct |-> v # NoVideo, at |-> "asked"]
Reload(c) == IF c.song = Current THEN Append(resolves, Request("save", c.video))
             ELSE resolves
CanReload(c) == c.at = "ran" /\ (c.song = Current => Len(resolves) < MaxResolves)
\* mutated: the stream of the video before is kept
SaveAnsweredKept(k) ==
    LET c == submits[k]
    IN  /\ CanReload(c)
        /\ Carry(c.song, c.video) /\ AnswerField(c)
        /\ UNCHANGED stream
        /\ resolves' = IF stream = NoVideo THEN Reload(c) ELSE resolves
SaveAnswered(k) ==
    LET c == submits[k]
    IN  /\ CanReload(c)
        /\ Carry(c.song, c.video) /\ AnswerField(c)
        /\ stream' = IF c.song = Current THEN NoVideo ELSE stream
        /\ resolves' = Reload(c)
SaveEnds(k) ==
    /\ submits[k].at = "reloading"
    /\ \A j \in DOMAIN resolves : resolves[j].by # "save"
    /\ submits' = RemoveAt(submits, k)
    /\ editor' = [NoEditor EXCEPT !.n = editor.n]

-----------------------------------------------------------------------------
(* The stream of the song that plays *)

\* Played: what is kept serves, a request under way is joined.
PlayCurrent ==
    /\ stream = NoVideo /\ resolves = <<>> /\ Spend("edits")
    /\ resolves' = <<Request("play", carried)>>
    /\ crossed' = [crossed EXCEPT !.stream = @ \/ submits # <<>>]
\* The video the song carries is taken as it is; else the one the app links
\* it to, or one that it finds.
ResolveReads(k) ==
    /\ resolves[k].at = "asked"
    /\ IF resolves[k].direct
       THEN resolves' = [resolves EXCEPT ![k].at = "done"] /\ UNCHANGED meant
       ELSE \E v \in IF linked[Current] = NoVideo THEN Videos ELSE {linked[Current]} :
               /\ resolves' = [resolves EXCEPT ![k].video = v, ![k].at = "read"]
               /\ meant' = [meant EXCEPT ![Current] = @ \cup {v}]
\* The one it played is linked to the song.
ResolvePlays(k) ==
    /\ resolves[k].at = "read" /\ resolves' = [resolves EXCEPT ![k].at = "done"]
    /\ linked' = [linked EXCEPT ![Current] = resolves[k].video]
ResolveFails(k) ==
    /\ resolves[k].at # "done" /\ Spend("faults") /\ resolves' = RemoveAt(resolves, k)
ResolveLands(k) ==
    /\ resolves[k].at = "done" /\ resolves' = RemoveAt(resolves, k)
    /\ stream' = resolves[k].video /\ carried' = resolves[k].video

\* A page that loads again keeps what the app has.
ReloadEditor ==
    /\ submits = <<>> /\ resolves = <<>>
    /\ editor' = NoEditor /\ stream' = NoVideo
    /\ UNCHANGED <<linked, carried, submits, resolves, meant, crossed>>

EditorNext ==
    /\ UNCHANGED <<historyVars, menu, drag>>
    /\ \/ /\ UNCHANGED <<linked, carried, submits, resolves, stream, crossed>>
          /\ \/ GotYouTubeId /\ UNCHANGED left
             \/ \E v \in Videos \cup {NoVideo}, aslink \in BOOLEAN : TypeVideo(v, aslink)
             \/ \E v \in Videos : PickVideo(v)
             \/ (closeEditor \/ submitSame) /\ UNCHANGED <<meant, left>>
             \/ (ReadLink \/ SearchFound) /\ UNCHANGED <<meant, left>>
             \/ (\E next \in {"assign", "search"} : switchMode(next)) /\ UNCHANGED meant
       \/ handleSubmit /\ UNCHANGED <<linked, carried, editor, resolves, stream, meant>>
       \/ PlayCurrent /\ UNCHANGED <<linked, carried, editor, submits, stream, meant>>
       \/ \E k \in DOMAIN submits :
          /\ UNCHANGED meant
          /\ \/ UpdateRuns(k)
                /\ UNCHANGED <<carried, editor, resolves, stream, crossed, left>>
             \/ UpdateFails(k)
                /\ UNCHANGED <<linked, carried, editor, resolves, stream, crossed>>
             \/ SaveAnswered(k) /\ UNCHANGED <<linked, left>>
             \/ SaveEnds(k)
                /\ UNCHANGED <<linked, carried, resolves, stream, crossed, left>>
       \/ \E k \in DOMAIN resolves :
          /\ UNCHANGED <<editor, submits, crossed>>
          /\ \/ ResolveReads(k) /\ UNCHANGED <<linked, carried, stream, left>>
             \/ ResolvePlays(k) /\ UNCHANGED <<carried, stream, meant, left>>
             \/ ResolveFails(k) /\ UNCHANGED <<linked, carried, stream, meant>>
             \/ ResolveLands(k) /\ UNCHANGED <<linked, meant, left>>

-----------------------------------------------------------------------------
(* Properties *)

\* A song is linked only to a video that was typed, found or answered for it:
\* the answers of one song's editor do not end up saved for another. (Unless
\* the answer of a save came while the editor was open on another song.)
LinkedToItsVideo ==
    ~crossed.video => \A s \in Edited : linked[s] \in meant[s]

\* Once a save is over, the stream kept for the song that plays is the one of
\* the video it is linked to, unless the save overlapped with another or with
\* the loading of that song.
StreamFollows ==
    submits = <<>> /\ resolves = <<>> /\ ~crossed.stream
    => stream \in {NoVideo, linked[Current]}

\* What the editor says is what is linked, and what is linked is what plays.
EditorKept == LinkedToItsVideo /\ StreamFollows
==============================================================================
