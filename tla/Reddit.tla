------------------------------- MODULE Reddit -------------------------------
(***************************************************************************)
(* The Reddit client (internal/social/reddit).  A search for the posts     *)
(* about a streamer asks one source after the other until one of them has  *)
(* posts: the official API, the public JSON, a third party, a browser      *)
(* (the scraper), the hot feed, and the plain page.  A source that refuses *)
(* or fails is left alone for a while by everybody (backoff); the pages    *)
(* the browser is asked for are counted against the budget of the call.    *)
(*                                                                         *)
(* A call that times out counts as interrupted, and not as failed: its     *)
(* source is not left alone, and the search says "still fetching" of it.   *)
(***************************************************************************)
EXTENDS Integers, Sequences

CONSTANTS
  Callers,       (* bound: searches at the same time                         *)
  Configured,    (* the sources there are credentials for                    *)
  Settings,      (* settings to run with: provider ("off", "auto", a source),*)
                 (* low (no hot feed, one page of the browser) and html (the *)
                 (* plain page is the last resort)                           *)
  Budgets        (* MaxBrowserFetches of the calls; 0 stands for no limit    *)

VARIABLES
  conf,     (* the setting of this client                                    *)
  backoff,  (* the sources in backoff                                        *)
  token,    (* an access token of the official API is at hand                *)
  call      (* per caller, its search                                        *)

vars == <<conf, backoff, token, call>>

Sources == {"official", "public_json", "third_party", "scraper"}

Keys == Sources \cup {"hot"}

\* What a source may answer: posts of the streamer, none, or no answer.
Outcomes == {"posts", "none", "blocked", "error", "timeout"}

Steps ==
  {"idle", "next", "bearer", "official", "public_json", "third_party", "page1", "page2", "page3",
   "hot", "old_json", "hot_json", "old_again", "hot_page", "html",
   "thread", "thread_page", "meta", "meta_json", "meta_page"}

\* want: whether the call is for one streamer or for the hot feed alone.  errs: the list of
\* statuses has an error or a refusal.  hot: it has a status of the hot feed.
NoCall == [at |-> "idle", want |-> "streamer", budget |-> 0, used |-> 0, sent |-> 0, left |-> <<>>,
           errs |-> FALSE, hot |-> FALSE, result |-> "none yet"]

TypeOK ==
  /\ conf \in Settings /\ backoff \subseteq Keys /\ token \in BOOLEAN
  /\ \A c \in Callers :
       /\ call[c].at \in Steps /\ call[c].want \in {"streamer", "trending", "thread"}
       /\ call[c].budget \in Budgets \cup {0} /\ call[c].used \in 0 .. 4 /\ call[c].sent \in 0 .. 8
       /\ call[c].left \in Seq(Sources)
       /\ call[c].errs \in BOOLEAN /\ call[c].hot \in BOOLEAN
       /\ call[c].result \in {"none yet", "posts", "empty", "error"}

Init ==
  /\ conf \in Settings /\ backoff = {} /\ token = FALSE
  /\ \E b \in Budgets : call = [c \in Callers |-> [NoCall EXCEPT !.budget = b]]

-----------------------------------------------------------------------------
(* Statuses, backoff and budget.                                           *)

\* redditLSFProvidersToTry.
ProvidersToTry ==
  IF conf.provider = "off" THEN <<"public_json", "scraper">>
  ELSE LET all == <<"official", "public_json", "third_party", "scraper">> IN
         IF conf.provider \in Sources THEN <<conf.provider>> \o SelectSeq(all, LAMBDA p : p # conf.provider) ELSE all

Tried(p) == p = "public_json" \/ p \in Configured

\* normalizeRedditLSFStatus has been here: a call that timed out is not an error.
Status(s, o) ==
  [s EXCEPT !.errs = @ \/ o \in {"blocked", "error"}]

\* The statuses of the hot feed are listed as they are.
RawStatus(s, o) ==
  [s EXCEPT !.errs = @ \/ o \in {"blocked", "error", "timeout"},
            !.hot = TRUE]

\* markRedditBackoff: a refusal or a failure sets it; everything else lifts it.
Marked(p, o) == IF o \in {"blocked", "error"} THEN backoff \cup {p} ELSE backoff \ {p}

End(s) ==
  [s EXCEPT !.at = "idle", !.left = <<>>, !.result = IF s.errs THEN "error" ELSE "empty"]

Found(s) == [s EXCEPT !.at = "idle", !.left = <<>>, !.result = "posts"]

\* What comes when no source of the chain is left.
Rest(s) ==
  IF ~conf.low /\ conf.provider \in {"off", "auto"} /\ ~s.hot THEN [s EXCEPT !.at = "hot"]
  ELSE IF conf.html /\ conf.provider # "scraper" THEN [s EXCEPT !.at = "html"] ELSE End(s)

Onward(s) == IF s.left # <<>> THEN [s EXCEPT !.at = "next"] ELSE Rest(s)

\* Mutant: the hot page is not held against the budget.
CanSpendButHot(s) == s.at = "page3" \/ s.budget = 0 \/ s.used < s.budget

\* trySpend.
CanSpend(s) == s.budget = 0 \/ s.used < s.budget

\* A page of the browser: paid for, and asked for once more when the connection fails.
PageOutcomes(s) ==
  IF ~CanSpend(s) THEN {[s |-> s, o |-> "dry"]}
  ELSE LET paid == IF s.budget = 0 THEN s ELSE [s EXCEPT !.used = @ + 1] IN
         {[s |-> IF s.budget = 0 THEN s ELSE [paid EXCEPT !.sent = @ + n], o |-> o]
            : n \in {1, 2}, o \in Outcomes}

-----------------------------------------------------------------------------
(* Search, and FetchLSF of the metadata service.                           *)

Begin(c) ==
  /\ call[c].at = "idle"
  /\ \E b \in Budgets, first \in {"next", "hot", "thread", "meta"} :
       call' = [call EXCEPT ![c] =
         [NoCall EXCEPT !.at = first, !.budget = IF first = "meta" THEN 0 ELSE b,
                        !.left = IF first = "next" THEN ProvidersToTry ELSE <<>>,
                        !.want = CASE first = "next" -> "streamer" [] first = "hot" -> "trending"
                                   [] OTHER -> "thread"]]
  /\ UNCHANGED <<conf, backoff, token>>

\* The next source of the chain, unless it is in backoff: that counts as a refusal.
NextSource(c) ==
  LET s == call[c]  p == Head(s.left)  t == [s EXCEPT !.left = Tail(s.left)] IN
    /\ s.at = "next"
    /\ call' = [call EXCEPT ![c] =
         IF ~Tried(p) THEN Onward(t)
         ELSE IF p \in backoff THEN Onward(Status(t, "blocked"))
         ELSE [t EXCEPT !.at = CASE p = "official" -> "bearer" [] p = "scraper" -> "page1" [] OTHER -> p]]
    /\ UNCHANGED <<conf, backoff, token>>

\* redditBearer: a token that cannot be had is an error of the search, and sets no backoff.
Bearer(c) ==
  /\ call[c].at = "bearer"
  /\ \/ token' = TRUE /\ call' = [call EXCEPT ![c].at = "official"]
     \/ /\ ~token /\ UNCHANGED token
        /\ \E o \in {"blocked", "error", "timeout"} :
             call' = [call EXCEPT ![c] = Onward(Status(call[c], o))]
  /\ UNCHANGED <<conf, backoff>>

TokenExpires ==
  /\ token
  /\ token' = FALSE
  /\ UNCHANGED <<conf, backoff, call>>

\* doRedditListing, of the three sources that have one; "bare" is how the search goes on when
\* there are no posts.
Listing(c, p, bare) ==
  /\ call[c].at = p
  /\ \E o \in Outcomes :
       /\ backoff' = Marked(p, o)
       /\ call' = [call EXCEPT ![c] = IF o = "posts" THEN Found(call[c])
                                      ELSE IF o = "none" THEN bare ELSE Onward(Status(call[c], o))]
  /\ UNCHANGED <<conf, token>>

Official(c) == Listing(c, "official", Onward(Status(call[c], "none")))

\* Without posts it sends the search to the hot feed at once.
PublicJSON(c) ==
  LET s == Status(call[c], "none") IN
    Listing(c, "public_json", IF conf.low THEN Onward(s) ELSE [s EXCEPT !.at = "hot"])

ThirdParty(c) == Listing(c, "third_party", Onward(Status(call[c], "none")))

\* fetchLSFScraper: two pages of the search, then the hot page, whose status is the one that
\* counts.  With low priority, one page.
Page(c) ==
  LET s == call[c] IN
    /\ s.at \in {"page1", "page2", "page3"}
    /\ \E r \in PageOutcomes(s) :
         IF r.o = "posts"
         THEN call' = [call EXCEPT ![c] = Found(r.s)] /\ backoff' = Marked("scraper", "posts")
         ELSE IF s.at = "page3" \/ conf.low
         THEN /\ backoff' = Marked("scraper", r.o)
              /\ call' = [call EXCEPT ![c] =
                   Onward([Status(r.s, r.o) EXCEPT !.hot = ~conf.low \/ @])]
         ELSE /\ call' = [call EXCEPT ![c] =
                   [r.s EXCEPT !.at = IF s.at = "page1" THEN "page2" ELSE "page3"]]
              /\ UNCHANGED backoff
    /\ UNCHANGED <<conf, token>>

-----------------------------------------------------------------------------
(* The hot feed (fetchLSFRecentHot).                                       *)

\* Back to the chain; a search for what is trending ends here.
Leave(s) == IF s.want = "trending" THEN End(s) ELSE Onward(s)

Hot(c) ==
  LET s == call[c] IN
    /\ s.at = "hot"
    /\ call' = [call EXCEPT ![c] =
         IF "hot" \in backoff THEN Leave(RawStatus(s, "blocked")) ELSE [s EXCEPT !.at = "old_json"]]
    /\ UNCHANGED <<conf, backoff, token>>

\* old.reddit is asked first, and asked again after a failure.
OldJSON(c) ==
  LET s == call[c] IN
    /\ s.at = "old_json"
    /\ \E o \in Outcomes :
         IF o = "posts"
         THEN call' = [call EXCEPT ![c] = Found(s)] /\ backoff' = Marked("hot", "posts")
         ELSE call' = [call EXCEPT ![c].at = "hot_json"] /\ UNCHANGED backoff
    /\ UNCHANGED <<conf, token>>

HotJSON(c) ==
  LET s == call[c] IN
    /\ s.at = "hot_json"
    /\ \E o \in Outcomes :
         IF o = "posts"
         THEN call' = [call EXCEPT ![c] = Found(s)] /\ backoff' = Marked("hot", o)
         ELSE IF o = "none"
         THEN call' = [call EXCEPT ![c] = Leave(RawStatus(s, o))] /\ backoff' = Marked("hot", o)
         ELSE IF "scraper" \in Configured
         THEN call' = [call EXCEPT ![c].at = "old_again"] /\ UNCHANGED backoff
         ELSE \* the second look at old.reddit, and the end
              \/ call' = [call EXCEPT ![c] = Found(s)] /\ UNCHANGED backoff
              \/ call' = [call EXCEPT ![c] = Leave(RawStatus(s, o))] /\ backoff' = Marked("hot", o)
    /\ UNCHANGED <<conf, token>>

\* Neither this nor the page of the browser touches the backoff of the hot feed.
OldAgain(c) ==
  /\ call[c].at = "old_again"
  /\ \/ call' = [call EXCEPT ![c] = Found(call[c])]
     \/ call' = [call EXCEPT ![c].at = "hot_page"]
  /\ UNCHANGED <<conf, backoff, token>>

HotPage(c) ==
  LET s == call[c] IN
    /\ s.at = "hot_page"
    /\ \E r \in PageOutcomes(s) :
         call' = [call EXCEPT ![c] = IF r.o = "posts" THEN Found(r.s) ELSE Leave(RawStatus(r.s, r.o))]
    /\ UNCHANGED <<conf, backoff, token>>

\* fetchLSFHTML has no backoff.
Html(c) ==
  /\ call[c].at = "html"
  /\ \E o \in Outcomes :
       call' = [call EXCEPT ![c] = IF o = "posts" THEN Found(call[c]) ELSE End(Status(call[c], o))]
  /\ UNCHANGED <<conf, backoff, token>>

-----------------------------------------------------------------------------
(* One thread: its comments (Comments), its numbers (FetchPostMeta).       *)

\* Only a refusal sends the comments to the browser.
Thread(c) ==
  LET s == call[c] IN
    /\ s.at = "thread"
    /\ \E o \in Outcomes :
         call' = [call EXCEPT ![c] =
           CASE o = "posts" -> Found(s)
             [] o = "blocked" /\ "scraper" \in Configured -> [s EXCEPT !.at = "thread_page"]
             [] o # "posts" /\ ~(o = "blocked" /\ "scraper" \in Configured) ->
                  End([Status(s, o) EXCEPT !.errs = o # "none"])]
    /\ UNCHANGED <<conf, backoff, token>>

\* A thread whose page is not had, or has no text, ends in an error.
ThreadPage(c) ==
  LET s == call[c] IN
    /\ s.at = "thread_page"
    /\ \E r \in PageOutcomes(s) :
         call' = [call EXCEPT ![c] =
           IF r.o = "posts" THEN Found(r.s) ELSE End([Status(r.s, r.o) EXCEPT !.errs = TRUE])]
    /\ UNCHANGED <<conf, backoff, token>>

\* Every failure leads to the next way: the JSON, the JSON in the browser, the page in it.
\* This call has no budget.
Meta(c) ==
  LET s == call[c]
      then == IF s.at = "meta" /\ "scraper" \in Configured THEN "meta_json"
              ELSE IF s.at = "meta_json" THEN "meta_page" ELSE "idle" IN
    /\ s.at \in {"meta", "meta_json", "meta_page"}
    /\ \E r \in IF s.at = "meta" THEN {[s |-> s, o |-> o] : o \in Outcomes} ELSE PageOutcomes(s) :
         call' = [call EXCEPT ![c] =
           IF r.o = "posts" THEN Found(r.s)
           ELSE IF then # "idle" THEN [r.s EXCEPT !.at = then]
           ELSE End([Status(r.s, r.o) EXCEPT !.errs = TRUE])]
    /\ UNCHANGED <<conf, backoff, token>>

BackoffEnds(p) ==
  /\ p \in backoff
  /\ backoff' = backoff \ {p}
  /\ UNCHANGED <<conf, token, call>>

Next ==
  \/ \E c \in Callers :
       \/ Begin(c) \/ NextSource(c) \/ Bearer(c) \/ Page(c)
       \/ Official(c) \/ PublicJSON(c) \/ ThirdParty(c)
       \/ Hot(c) \/ OldJSON(c) \/ HotJSON(c) \/ OldAgain(c) \/ HotPage(c) \/ Html(c)
       \/ Thread(c) \/ ThreadPage(c) \/ Meta(c)
  \/ TokenExpires
  \/ \E p \in Keys : BackoffEnds(p)

Spec == Init /\ [][Next]_vars

-----------------------------------------------------------------------------

\* Whatever way a search takes through the sources, the browser is asked for no more pages
\* than its budget has, and for each of them twice at most (trySpend, doScraperRequest).
BudgetKept ==
  \A c \in Callers :
    call[c].budget # 0 => LET b == call[c].budget IN
                            call[c].sent <= IF b < 0 THEN 0 ELSE 2 * b

=============================================================================
