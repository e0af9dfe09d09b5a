------------------------------ MODULE Playlists ------------------------------
(***************************************************************************)
(* The playlist proxy of the video service (proxy.go, proxy_client.go and  *)
(* proxyPlaylist in internal/video/orchestrator).  The ffmpeg of a         *)
(* direct_hls worker polls a live channel's playlist through it: the proxy *)
(* fetches it from Twitch, goes after redirects by hand, and takes the ads *)
(* out.                                                                    *)
(*                                                                         *)
(* Segments are numbered as Twitch numbers them and a playlist shows       *)
(* Window of them.  A URL is a record of what the proxy looks at.          *)
(***************************************************************************)
EXTENDS Integers, SequencesExt

CONSTANTS
  Urls,         (* the URLs asked for and redirected to                      *)
  MaxRedirect,
  Segments,     (* bound: segments of the channel                            *)
  Window,       (* segments in a playlist                                    *)
  None

VARIABLES
  ads,      (* the segments that are one ad break                            *)
  layout,   (* how Twitch marks ads and times in this playlist               *)
  first,    (* the first segment of the playlist by now                      *)
  at,       (* where the proxy's request is                                  *)
  url,      (* the URL it is about                                           *)
  hops,     (* redirects so far                                              *)
  dialled,  (* the last connection it made                                   *)
  out       (* the playlist last answered: its first number and its lines    *)

vars == <<ads, layout, first, at, url, hops, dialled, out>>

Addresses == {"public", "loopback", "private", "reserved"}

\* dated: which segments have their time before them.  ranged: the ad break is announced with
\* a date range, which ends late by that much.  titled: an ad's title says "Amazon".
Layouts == {l \in [dated : {"all", "first", "none"}, ranged : BOOLEAN, late : -1 .. 1,
                   titled : BOOLEAN] : l.titled \/ (l.ranged /\ l.dated # "none")}

TypeOK ==
  /\ ads \subseteq 1 .. Segments /\ layout \in Layouts /\ first \in 1 .. Segments
  /\ at \in {"idle", "fetch", "head", "denied", "failed", "done"}
  /\ url \in Urls \cup {None} /\ hops \in 0 .. MaxRedirect
  /\ dialled \in [url : Urls, ip : Addresses] \cup {None}

\* A segment lasts 2 s; times are in tenths of a second, 0 is Go's zero time.
Length == 20

Grace == 1

StartOf(n) == n * Length

Init ==
  /\ \E a \in 2 .. Segments : \E b \in a .. Segments : ads = a .. b
  /\ layout \in Layouts
  /\ first = 1 /\ at = "idle" /\ url = None /\ hops = 0 /\ dialled = None
  /\ out = [first |-> 0, lines |-> <<>>]

-----------------------------------------------------------------------------
(* What Twitch serves, and what filterTwitchAdSegments makes of it.         *)

Shown == first .. first + Window - 1

Break == [start |-> StartOf(Min(ads)), end |-> StartOf(Max(ads) + 1) + layout.late]

adRanges == IF layout.ranged /\ ads \cap Shown # {} THEN {Break} ELSE {}

\* The lines of segment n: a discontinuity where ads begin and end, its time, itself.
LinesOf(n) ==
  LET disc == [tag |-> "disc"]
      time == [tag |-> "time", time |-> StartOf(n)]
      seg  == [tag |-> "seg", no |-> n, amazon |-> layout.titled /\ n \in ads] IN
    (IF (n \in ads) # (n - 1 \in ads) THEN <<disc>> ELSE <<>>)
    \o (IF layout.dated = "all" \/ (layout.dated = "first" /\ n = first) THEN <<time>> ELSE <<>>)
    \o <<seg>>

Playlist == FlattenSeq([i \in 1 .. Window |-> LinesOf(first + i - 1)])

IsAd(seg, time) ==
  \/ seg.amazon
  \/ time # 0 /\ \E r \in adRanges : r.start <= time /\ time < r.end - Grace

After(time) == IF time = 0 THEN 0 ELSE time + Length

\* Mutant: the clock stands still during ads.
DropStill(acc) == [acc EXCEPT !.pending = 0]

\* An ad is left out; the clock goes on.
Drop(acc) == [acc EXCEPT !.time = After(acc.time), !.pending = 0]

\* A segment is kept with its own time, or with the clock's.
Keep(acc, seg) ==
  LET time == IF acc.pending # 0 THEN acc.pending ELSE acc.time IN
    [out |-> acc.out \o (IF time = 0 THEN <<>> ELSE <<[tag |-> "time", time |-> time]>>) \o <<seg>>,
     time |-> After(acc.time), pending |-> 0]

\* Of discontinuities with nothing between them one stays.
Splice(acc) ==
  LET flushed == acc.out \o (IF acc.pending = 0 THEN <<>>
                             ELSE <<[tag |-> "time", time |-> acc.pending]>>) IN
    IF acc.out # <<>> /\ Last(acc.out).tag = "disc" THEN acc
    ELSE [acc EXCEPT !.out = Append(flushed, [tag |-> "disc"]), !.pending = 0]

\* out is what is answered so far, pending a time that waits for its segment.
ReadLine(acc, line) ==
  CASE line.tag = "time" -> [acc EXCEPT !.time = line.time, !.pending = line.time]
    [] line.tag = "disc" -> Splice(acc)
    [] line.tag = "seg"  -> IF IsAd(line, acc.time) THEN Drop(acc) ELSE Keep(acc, line)

filterTwitchAdSegments(lines) ==
  LET read[i \in 0 .. Len(lines)] ==
        IF i = 0 THEN [out |-> <<>>, time |-> 0, pending |-> 0]
                 ELSE ReadLine(read[i - 1], lines[i])
  IN read[Len(lines)].out

-----------------------------------------------------------------------------
(* The fetch.                                                               *)

isTwitchUsherHost(host) == host \in {"usher.ttvnw.net", "weaver.ttvnw.net"}

allowedProxyURL(u) ==
  /\ u.scheme \in {"http", "https"}
  /\ ~u.user
  /\ isTwitchUsherHost(u.host)
  /\ u.port \in {"none", IF u.scheme = "http" THEN "80" ELSE "443"}

\* fetchOne's own port, and validateProxyPort.
PortOf(u) == IF u.port # "none" THEN u.port ELSE IF u.scheme = "http" THEN "80" ELSE "443"

isBlockedProxyIP(ip) == ip # "public"

\* resolvePublicIP takes the first address that is not blocked.
FirstPublic(answer, i) ==
  ~isBlockedProxyIP(answer[i]) /\ \A j \in 1 .. i - 1 : isBlockedProxyIP(answer[j])

Ask(u) ==
  /\ at \in {"idle", "denied", "failed", "done"}
  /\ url' = u /\ hops' = 0
  /\ at' = IF allowedProxyURL(u) THEN "fetch" ELSE "denied"
  /\ dialled' = None
  /\ UNCHANGED <<ads, layout, first, out>>

\* fetchOne looks at the URL once more, asks DNS and dials the address it has checked.
Dial(answer) ==
  /\ at = "fetch"
  /\ LET may == isTwitchUsherHost(url.host) /\ PortOf(url) \in {"80", "443"} IN
       \/ /\ may
          /\ \E i \in DOMAIN answer :
               FirstPublic(answer, i) /\ dialled' = [url |-> url, ip |-> answer[i]]
          /\ at' = "head"
       \/ /\ ~may \/ \A i \in DOMAIN answer : isBlockedProxyIP(answer[i])
          /\ at' = "denied" /\ UNCHANGED dialled
  /\ UNCHANGED <<ads, layout, first, url, hops, out>>

\* Mutant: what a redirect points to is taken as it is.
RedirectedUnchecked(u) ==
  /\ at = "head"
  /\ IF hops >= MaxRedirect \/ u = None THEN at' = "denied" /\ UNCHANGED <<url, hops>>
     ELSE at' = "fetch" /\ url' = u /\ hops' = hops + 1
  /\ UNCHANGED <<ads, layout, first, dialled, out>>

\* A redirect to u, or to nowhere.
Redirected(u) ==
  /\ at = "head"
  /\ IF hops >= MaxRedirect \/ u = None THEN at' = "denied" /\ UNCHANGED <<url, hops>>
     ELSE IF ~allowedProxyURL(u) THEN at' = "denied" /\ UNCHANGED <<url, hops>>
     ELSE at' = "fetch" /\ url' = u /\ hops' = hops + 1
  /\ UNCHANGED <<ads, layout, first, dialled, out>>

\* The playlist is there: proxyPlaylist answers it without the ads.
Answered ==
  /\ at = "head"
  /\ at' = "done"
  /\ out' = [first |-> first, lines |-> filterTwitchAdSegments(Playlist)]
  /\ UNCHANGED <<ads, layout, first, url, hops, dialled>>

\* No connection, no answer in time, another status, more than MaxBytes, the worker gone.
FetchFails ==
  /\ at \in {"fetch", "head"}
  /\ at' = "failed"
  /\ UNCHANGED <<ads, layout, first, url, hops, dialled, out>>

\* The channel goes on.
Slide ==
  /\ first + Window <= Segments
  /\ first' = first + 1
  /\ UNCHANGED <<ads, layout, at, url, hops, dialled, out>>

DnsAnswers == {<<>>, <<"public">>, <<"loopback">>, <<"private", "public">>, <<"reserved", "private">>}

Next ==
  \/ \E u \in Urls : Ask(u)
  \/ \E answer \in DnsAnswers : Dial(answer)
  \/ \E u \in Urls \cup {None} : Redirected(u)
  \/ Answered \/ FetchFails \/ Slide

Spec == Init /\ [][Next]_vars

-----------------------------------------------------------------------------

\* Wherever redirects and DNS lead, the proxy connects only to a public address of a Twitch
\* host, for a plain http or https URL, and at most MaxRedirect + 1 times (proxy_client.go:28).
FollowsApproved ==
  dialled # None =>
    /\ dialled.ip = "public" /\ isTwitchUsherHost(dialled.url.host)
    /\ dialled.url.scheme \in {"http", "https"} /\ ~dialled.url.user
    /\ <<dialled.url.scheme, PortOf(dialled.url)>> \in {<<"http", "80">>, <<"https", "443">>}
    /\ hops <= MaxRedirect

\* However Twitch marks its ads, and wherever the playlist's window cuts the ad break, what is
\* answered is the programme without the ads, each segment at its own time, and two segments
\* that are not neighbours have one discontinuity between them (filterTwitchAdSegments).
Cleaned ==
  at = "done" =>
    LET lines == out.lines
        shown == out.first .. out.first + Window - 1 IN
      /\ {lines[i].no : i \in {j \in DOMAIN lines : lines[j].tag = "seg"}} = shown \ ads
      /\ \A i \in DOMAIN lines : lines[i].tag = "seg" /\ layout.dated # "none" =>
           i > 1 /\ lines[i - 1] = [tag |-> "time", time |-> StartOf(lines[i].no)]
      /\ \A i, j \in DOMAIN lines :
           i < j /\ lines[i].tag = "seg" /\ lines[j].tag = "seg"
             /\ (\A k \in i + 1 .. j - 1 : lines[k].tag # "seg") =>
             /\ lines[i].no < lines[j].no
             /\ Cardinality({k \in i + 1 .. j - 1 : lines[k].tag = "disc"})
                  = IF lines[j].no = lines[i].no + 1 THEN 0 ELSE 1
=============================================================================
