------------------------------- MODULE Paging -------------------------------
(***************************************************************************)
(* The list of live streams, page by page (internal/metadata/api, gql and  *)
(* helix).  A browser asks for a number of streams and hands back the      *)
(* cursor of the answer to get the next ones.  An answer is put together   *)
(* from several pages of the source; between them the list moves, and the  *)
(* source may fail.                                                        *)
(*                                                                         *)
(* Up to PageSize streams come from one page of GQL; more of them from     *)
(* Helix, when there are credentials for it, and otherwise from GQL pages. *)
(***************************************************************************)
EXTENDS Naturals, Sequences, FiniteSets

CONSTANTS
  Streams,    (* the streams that are live                                   *)
  Limits,     (* how many of them a browser asks for                         *)
  PageSize,   (* topStreamsPageSize, of GQL                                  *)
  HelixPage,  (* the largest page of Helix                                   *)
  MaxMoves,   (* bound: moves of the list                                    *)
  MaxFaults   (* bound: failures of a source                                 *)

VARIABLES
  list,    (* the live streams, by viewers                                   *)
  moves,   (* moves of the list so far                                       *)
  faults,  (* failures so far                                                *)
  helix,   (* there are credentials for Helix                                *)
  token,   (* an access token for Helix is at hand                           *)
  req,     (* the listing under way: the cursor the browser holds, the one   *)
           (* to go on from, and the answer so far                           *)
  shown    (* history: what the browser has been shown since the start       *)

vars == <<list, moves, faults, helix, token, req, shown>>

N == Cardinality(Streams)

\* A cursor is the place in the list after which to go on; 0 is no cursor.
Cursors == 0 .. N

Lists == {l \in [1 .. N -> Streams] : \A i, j \in 1 .. N : l[i] = l[j] => i = j}

TypeOK ==
  /\ list \in Lists /\ moves \in 0 .. MaxMoves /\ faults \in 0 .. MaxFaults
  /\ helix \in BOOLEAN /\ token \in BOOLEAN
  /\ req \in [at : {"idle", "gql", "helix", "end"}, limit : Limits, held : Cursors, next : Cursors,
              cursor : Cursors, items : Seq(Streams)]
  /\ shown \subseteq Streams

Init ==
  /\ list \in Lists /\ moves = 0 /\ faults = 0 /\ helix \in BOOLEAN /\ token = FALSE
  /\ req \in [at : {"idle"}, limit : Limits, held : {0}, next : {0}, cursor : {0},
             items : {<<>>}]
  /\ shown = {}

ItemsOf(s) == {s[i] : i \in DOMAIN s}

Least(a, b) == IF a < b THEN a ELSE b

-----------------------------------------------------------------------------
(* The sources.  A null node, or one without a broadcaster, is left out of *)
(* a page and is no stream here.                                           *)

Page(after, n) == SubSeq(list, after + 1, Least(after + n, N))

\* GQL gives the cursor of the last entry, and none with an empty page.
GqlCursor(after, n) == IF after >= N THEN 0 ELSE Least(after + n, N)

\* Helix gives none with the last page.
HelixCursor(after, n) == IF after + n >= N THEN 0 ELSE after + n

\* The streams of a page are put into the answer, but for those it has, up to the limit.
Take(items, page, limit) ==
  LET taken[i \in 0 .. Len(page)] ==
        IF i = 0 THEN items
        ELSE IF page[i] \in ItemsOf(taken[i - 1]) \/ Len(taken[i - 1]) >= limit THEN taken[i - 1]
        ELSE Append(taken[i - 1], page[i])
  IN  taken[Len(page)]

-----------------------------------------------------------------------------

\* fetchTopStreams: the way to the streams depends on how many are asked for.
Ask ==
  /\ req.at \in {"idle", "end"}
  /\ req' = [req EXCEPT !.at = IF req.limit > PageSize /\ helix THEN "helix" ELSE "gql",
                        !.next = req.held, !.cursor = 0, !.items = <<>>]
  /\ shown' = IF req.held = 0 THEN {} ELSE shown
  /\ UNCHANGED <<list, moves, faults, helix, token>>

\* The answer; the browser keeps its cursor.
Answer(items, cursor) ==
  /\ req' = [req EXCEPT !.at = "end", !.items = items, !.cursor = cursor, !.held = cursor]
  /\ shown' = shown \cup ItemsOf(items)

\* One page is the whole answer.
GqlOne ==
  /\ req.at = "gql" /\ req.limit <= PageSize
  /\ Answer(Page(req.next, req.limit), GqlCursor(req.next, req.limit))
  /\ UNCHANGED <<list, moves, faults, helix, token>>

\* fetchTopStreamsGQL: full pages until there are enough.  What is left of the last page
\* is not given back: the cursor is the one after it.
GqlPage ==
  LET page == Page(req.next, PageSize)
      items == Take(req.items, page, req.limit)
      cursor == GqlCursor(req.next, PageSize) IN
    /\ req.at = "gql" /\ req.limit > PageSize
    /\ IF page = <<>>
       THEN Answer(req.items, req.cursor)
       ELSE IF Len(items) >= req.limit THEN Answer(items, cursor)
       ELSE /\ req' = [req EXCEPT !.items = items, !.next = cursor, !.cursor = cursor]
            /\ UNCHANGED shown
    /\ UNCHANGED <<list, moves, faults, helix, token>>

\* bearer: a token is fetched unless one is at hand; without one there is no page.
Bearer ==
  /\ req.at = "helix" /\ ~token
  /\ token' = TRUE
  /\ UNCHANGED <<list, moves, faults, helix, req, shown>>

\* Mutant: pages of full size, cut to the limit.
HelixNextFull ==
  LET page == Page(req.next, HelixPage)
      items == Take(req.items, page, req.limit)
      cursor == HelixCursor(req.next, HelixPage) IN
    /\ req.at = "helix" /\ token
    /\ IF Len(items) >= req.limit \/ cursor = 0 \/ page = <<>>
       THEN Answer(items, cursor)
       ELSE /\ req' = [req EXCEPT !.items = items, !.next = cursor, !.cursor = cursor]
            /\ UNCHANGED shown
    /\ UNCHANGED <<list, moves, faults, helix, token>>

\* TopLiveStreams: no page is larger than what is still missing, so none is cut.
HelixNext ==
  LET n == Least(HelixPage, req.limit - Len(req.items))
      page == Page(req.next, n)
      items == Take(req.items, page, req.limit)
      cursor == HelixCursor(req.next, n) IN
    /\ req.at = "helix" /\ token
    /\ IF Len(items) >= req.limit \/ cursor = 0 \/ page = <<>>
       THEN Answer(items, cursor)
       ELSE /\ req' = [req EXCEPT !.items = items, !.next = cursor, !.cursor = cursor]
            /\ UNCHANGED shown
    /\ UNCHANGED <<list, moves, faults, helix, token>>

\* A call fails, after the retry of gql.do too: what there is becomes the answer, with the
\* cursor of its last page; nothing is an error, and the browser keeps the cursor it has.
Fail ==
  /\ req.at \in {"gql", "helix"} /\ faults < MaxFaults
  /\ faults' = faults + 1
  /\ IF req.items = <<>>
     THEN req' = [req EXCEPT !.at = "idle"] /\ UNCHANGED shown
     ELSE Answer(req.items, req.cursor)
  /\ UNCHANGED <<list, moves, helix, token>>

\* Viewers come and go: two neighbours of the list change places.
Move ==
  /\ moves < MaxMoves
  /\ moves' = moves + 1
  /\ \E i \in 1 .. N - 1 : list' = [list EXCEPT ![i] = list[i + 1], ![i + 1] = list[i]]
  /\ UNCHANGED <<faults, helix, token, req, shown>>

TokenExpires ==
  /\ token
  /\ token' = FALSE
  /\ UNCHANGED <<list, moves, faults, helix, req, shown>>

Next == Ask \/ GqlOne \/ GqlPage \/ Bearer \/ HelixNext \/ Fail \/ Move \/ TokenExpires

Spec == Init /\ [][Next]_vars

-----------------------------------------------------------------------------

\* A browser that follows the cursors to the end of a list that stays as it is has been shown
\* every stream of it, though calls fail on the way (TopLiveStreams, TopStreams).  Pages of
\* GQL that are cut at the limit are left out: the rest of such a page is never shown.
NothingSkipped ==
  req.at = "end" /\ req.cursor = 0 /\ moves = 0 /\ (helix \/ req.limit <= PageSize)
    => shown = Streams
=============================================================================
