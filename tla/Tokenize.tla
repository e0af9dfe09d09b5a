------------------------------ MODULE Tokenize ------------------------------
(***************************************************************************)
(* How a chat message becomes fragments (internal/chat/tokenize,           *)
(* enrich.tokenizeWithNative, parse.ParseEmotesTag).  The spans of         *)
(* Twitch's own emotes cut the text into pieces; each piece is read word   *)
(* by word against the dictionary of the channel.  A zero-width emote is   *)
(* drawn over the emote before it and swallows the spaces between; a word  *)
(* may also be a name with zero-width names glued to its end.              *)
(*                                                                         *)
(* Runes are model values but for the two the code looks at.  The trie is  *)
(* the set of its names: to match is to be one of them.                    *)
(***************************************************************************)
EXTENDS Naturals, Sequences, FiniteSets, SequencesExt

CONSTANTS
  Letters,  (* the runes a mention may go on with, and names are made of      *)
  Names,    (* names that a dictionary may hold                               *)
  Tags,     (* the emotes tags: sets of spans <<first, last>> from 0          *)
  MaxLen,   (* bound: runes of a text                                         *)
  None

VARIABLES
  dict,     (* from its names to whether they are zero-width; None: not loaded *)
  text,     (* the message                                                     *)
  spans,    (* the spans to go, in order                                       *)
  cursor,   (* how far the text has been cut                                   *)
  rest,     (* what is left of the piece being read                            *)
  pending,  (* text of the piece that is no fragment yet                       *)
  frags,    (* the fragments of the piece                                      *)
  out       (* the fragments of the message                                    *)

vars == <<dict, text, spans, cursor, rest, pending, frags, out>>

Blank == " "

Runes == Letters \cup {Blank, "@"}

Texts == UNION {[1 .. n -> Runes] : n \in 0 .. MaxLen}

Dictionaries == UNION {[ns -> BOOLEAN] : ns \in SUBSET Names}

Fragment(kind, zw, c) == [T |-> kind, Zw |-> zw, C |-> c]

TypeOK ==
  /\ dict \in Dictionaries \cup {None}
  /\ text \in Texts
  /\ spans \in Seq(Nat \X Nat) /\ cursor \in 0 .. Len(text)
  /\ rest \in Texts /\ pending \in Texts
  /\ \A f \in ToSet(frags \o out) :
       /\ f.T \in {"text", "mention", "emote"} /\ f.Zw \in BOOLEAN /\ f.C \in Texts

\* The order of ParseEmotesTag: by the first rune, then by the last.
InOrder(s, t) == s[1] < t[1] \/ (s[1] = t[1] /\ s[2] <= t[2])

Spans(tag) ==
  LET valid == {s \in tag : s[1] <= s[2]} IN
    {q \in [1 .. Cardinality(valid) -> valid] :
       \A i, j \in DOMAIN q : i < j => q[i] # q[j] /\ InOrder(q[i], q[j])}

\* Without a span the whole text is one piece.
Init ==
  /\ dict \in Dictionaries \cup {None}
  /\ text \in Texts
  /\ \E tag \in Tags : spans \in Spans(tag)
  /\ cursor = IF spans = <<>> THEN Len(text) ELSE 0
  /\ rest = IF spans = <<>> THEN text ELSE <<>>
  /\ pending = <<>> /\ frags = <<>> /\ out = <<>>

-----------------------------------------------------------------------------
(* The names of the dictionary (match, matchZeroWidthChain,                *)
(* splitZeroWidthSuffix).                                                  *)

First(s, n) == SubSeq(s, 1, n)
From(s, n)  == SubSeq(s, n + 1, Len(s))

Match(w) == w \in DOMAIN dict

Longest(ns) == {n \in ns : \A m \in ns : m <= n}

\* How far the zero-width names go that begin w.
Overlays(w) == {n \in 1 .. Len(w) : Match(First(w, n)) /\ dict[First(w, n)]}

\* The chains of zero-width names that w is cut into when each may be any of those in
\* pick: at most one chain if pick leaves at most one.
Chains(w, pick(_)) ==
  LET from[k \in 0 .. Len(w)] ==
        IF k = Len(w) THEN {<<>>}
        ELSE UNION {{<<First(From(w, k), n)>> \o c : c \in from[k + n]} :
                       n \in pick(Overlays(From(w, k)))}
  IN from[0]

ZeroWidthChain(w) == Chains(w, Longest)

\* Mutant: only the longest name that begins the word is tried.
SplitLongestName(w) ==
  LET bases == Longest({n \in 1 .. (Len(w) - 1) : Match(First(w, n))}) IN
    UNION {{<<First(w, n)>> \o c : c \in ZeroWidthChain(From(w, n))} : n \in bases}

\* A name with zero-width names after it: as the parts of the word, or nothing.
SplitZeroWidthSuffix(w) ==
  LET bases == Longest({n \in 1 .. (Len(w) - 1) :
                          Match(First(w, n)) /\ ZeroWidthChain(From(w, n)) # {}}) IN
    UNION {{<<First(w, n)>> \o c : c \in ZeroWidthChain(From(w, n))} : n \in bases}

\* How many runes of s, from its first, are of the given ones.
Span(s, runes) ==
  CHOOSE n \in 0 .. Len(s) : /\ \A k \in 1 .. n : s[k] \in runes
                             /\ n < Len(s) => s[n + 1] \notin runes

\* splitMentionToken: how long the mention is that begins the word, 0 for none.
Mention(w) ==
  LET n == IF w[1] = "@" THEN Span(Tail(w), Letters) ELSE 0 IN IF n = 0 THEN 0 ELSE n + 1

-----------------------------------------------------------------------------
(* Tokenize: one piece.                                                    *)

Word == First(rest, Span(rest, Runes \ {Blank}))

Flushed == IF pending = <<>> THEN frags ELSE Append(frags, Fragment("text", FALSE, pending))

Emote(name) == Fragment("emote", dict[name], name)

\* The word is read, and becomes these fragments and what comes after them.
Becomes(fs, after) ==
  /\ rest' = From(rest, Len(Word))
  /\ frags' = fs
  /\ pending' = after
  /\ UNCHANGED <<dict, text, spans, cursor, out>>

AtWord == rest # <<>> /\ rest[1] # Blank /\ dict # None

Spaces ==
  /\ rest # <<>> /\ rest[1] = Blank /\ dict # None
  /\ LET n == Span(rest, {Blank}) IN
       /\ pending' = pending \o First(rest, n)
       /\ rest' = From(rest, n)
  /\ UNCHANGED <<dict, text, spans, cursor, frags, out>>

\* A zero-width emote right after an emote: the spaces between them go.
Swallows(w) ==
  dict[w] /\ frags # <<>> /\ Last(frags).T = "emote" /\ ToSet(pending) \subseteq {Blank}

WholeWord ==
  /\ AtWord /\ Match(Word)
  /\ Becomes(Append(IF Swallows(Word) THEN frags ELSE Flushed, Emote(Word)), <<>>)

GluedNames ==
  /\ AtWord /\ ~Match(Word)
  /\ \E parts \in SplitZeroWidthSuffix(Word) :
       Becomes(Flushed \o [k \in DOMAIN parts |-> Emote(parts[k])], <<>>)

Mentioned ==
  /\ AtWord /\ ~Match(Word) /\ SplitZeroWidthSuffix(Word) = {}
  /\ LET n == Mention(Word) IN
       /\ n > 0
       /\ Becomes(Append(Flushed, Fragment("mention", FALSE, First(Word, n))), From(Word, n))

Plain ==
  /\ AtWord /\ ~Match(Word) /\ SplitZeroWidthSuffix(Word) = {} /\ Mention(Word) = 0
  /\ Becomes(frags, pending \o Word)

\* A dictionary that has not been loaded leaves the piece as it is.
Unloaded ==
  /\ rest # <<>> /\ dict = None
  /\ rest' = <<>>
  /\ frags' = <<Fragment("text", FALSE, rest)>>
  /\ UNCHANGED <<dict, text, spans, cursor, pending, out>>

\* The last flush: the fragments go to the message.
PieceEnds ==
  /\ rest = <<>> /\ (frags # <<>> \/ pending # <<>>)
  /\ out' = out \o Flushed
  /\ frags' = <<>> /\ pending' = <<>>
  /\ UNCHANGED <<dict, text, spans, cursor, rest>>

-----------------------------------------------------------------------------
(* tokenizeWithNative.                                                     *)

BetweenPieces == rest = <<>> /\ frags = <<>> /\ pending = <<>> /\ spans # <<>>

\* The spans all have been: the piece after the last one.
LastPiece(tail) ==
  IF tail = <<>> THEN cursor' = Len(text) /\ rest' = From(text, cursor)
                 ELSE UNCHANGED <<cursor, rest>>

\* A span that overlaps the one before, or lies beyond the text.
SkipSpan ==
  /\ BetweenPieces
  /\ LET s == Head(spans) IN s[1] < cursor \/ s[1] >= Len(text)
  /\ spans' = Tail(spans)
  /\ LastPiece(spans')
  /\ UNCHANGED <<dict, text, pending, frags, out>>

\* The piece before the span.
CutPiece ==
  /\ BetweenPieces
  /\ cursor < Head(spans)[1] /\ Head(spans)[1] < Len(text)
  /\ rest' = SubSeq(text, cursor + 1, Head(spans)[1])
  /\ cursor' = Head(spans)[1]
  /\ UNCHANGED <<dict, text, spans, pending, frags, out>>

NativeEmote ==
  /\ BetweenPieces
  /\ cursor = Head(spans)[1] /\ cursor < Len(text)
  /\ LET last == Head(spans)[2] + 1
         end  == IF last > Len(text) THEN Len(text) ELSE last IN
       /\ out' = Append(out, Fragment("emote", FALSE, SubSeq(text, cursor + 1, end)))
       /\ spans' = Tail(spans)
       /\ IF Tail(spans) = <<>> THEN cursor' = Len(text) /\ rest' = From(text, end)
                                ELSE cursor' = end /\ UNCHANGED rest
  /\ UNCHANGED <<dict, text, pending, frags>>

Next ==
  \/ Spaces \/ WholeWord \/ GluedNames \/ Mentioned \/ Plain \/ Unloaded \/ PieceEnds
  \/ SkipSpan \/ CutPiece \/ NativeEmote

Spec == Init /\ [][Next]_vars

-----------------------------------------------------------------------------

Done == rest = <<>> /\ frags = <<>> /\ pending = <<>> /\ spans = <<>>

\* How far the text is read by its first k fragments: each where the one before it ends,
\* or, for a zero-width emote after an emote, beyond the spaces there.
ReadBy ==
  LET upto[k \in 0 .. Len(out)] ==
        IF k = 0 THEN 0
        ELSE LET at   == upto[k - 1]
                 over == k > 1 /\ out[k].Zw /\ out[k - 1].T = "emote"
                 gap  == IF over THEN Span(From(text, at), {Blank}) ELSE 0
                 end  == at + gap + Len(out[k].C) IN
             IF end <= Len(text) /\ SubSeq(text, at + gap + 1, end) = out[k].C
             THEN end ELSE Len(text) + 1
  IN upto[Len(out)]

\* The fragments are the message: in order, nothing twice, and nothing left out but the
\* spaces between an emote and the zero-width emote drawn over it (Tokenize,
\* tokenizeWithNative), however the spans of Twitch's emotes overlap or run past the end.
NothingLost == Done => ReadBy = Len(text)

\* Every way to cut w into a name and zero-width names.
AnyChain(ns) == ns

Cuts(w) ==
  UNION {{<<First(w, n)>> \o c : c \in Chains(From(w, n), AnyChain)} :
            n \in {m \in 1 .. (Len(w) - 1) : Match(First(w, m))}}

\* No zero-width name begins another one.
PrefixFree ==
  \A v, w \in DOMAIN dict : dict[v] /\ dict[w] /\ IsPrefix(v, w) => v = w

\* The word being read is cut into a name and zero-width names as soon as there is a way
\* to do it, if no zero-width name begins another: taking the longest one each time
\* (matchZeroWidthChain) then misses nothing, and neither do the bases from the longest
\* down (splitZeroWidthSuffix).
SplitsFound ==
  AtWord /\ PrefixFree =>
    /\ SplitZeroWidthSuffix(Word) \subseteq Cuts(Word)
    /\ Cuts(Word) # {} => SplitZeroWidthSuffix(Word) # {}

\* A message is cut into the emotes that are in it, and is still the message.
Tokenized == NothingLost /\ SplitsFound
=============================================================================
