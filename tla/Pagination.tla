----------------------------- MODULE Pagination -----------------------------
(***************************************************************************)
(* The Link header of app/pagination.py, parsed and written anew.          *)
(*                                                                         *)
(* A header is a sequence of tokens, those the two expressions and the     *)
(* splitting of segments tell apart: the marks "<" ">" "," ";", the query  *)
(* parameters page and per_page with their numbers, rel with its name, and *)
(* "other" for any text between them.  White space is left out.            *)
(***************************************************************************)
EXTENDS Integers, Sequences, SequencesExt

Mark(type) == [type |-> type]
Param(type, n) == [type |-> type, value |-> n]
Rel(name) == [type |-> "rel", value |-> name]

(* A header as GitHub writes it: links, each an address and a rel, with    *)
(* commas between them.                                                    *)
Segment(link) == <<Mark("<")>> \o link.url \o <<Mark(">"), Mark(";"), Rel(link.rel)>>

LinkHeader(links) ==
  FoldLeft(LAMBDA header, link :
             (IF header = <<>> THEN <<>> ELSE Append(header, Mark(","))) \o Segment(link),
           <<>>, links)

-----------------------------------------------------------------------------
(* The first token of that type, or 0. *)
First(tokens, type) == SelectInSeq(tokens, LAMBDA t : t.type = type)

Deeper(depth, token) ==
  CASE token.type = "<" -> depth + 1
    [] token.type = ">" -> IF depth = 0 THEN 0 ELSE depth - 1
    [] OTHER            -> depth

(* Mutant: every comma separates two links. *)
SplitSegmentsNaive(tokens) ==
  FoldLeft(LAMBDA parts, t :
             IF t.type = "," THEN Append(parts, <<>>)
             ELSE [parts EXCEPT ![Len(parts)] = Append(@, t)],
           << <<>> >>, tokens)

(* The stretches between the commas outside of <...>, the last one if      *)
(* there is anything in it.                                                *)
SplitSegments(tokens) ==
  LET Next(acc, t) ==
        LET depth == Deeper(acc.depth, t)
        IN  IF t.type = "," /\ depth = 0
            THEN [depth |-> 0, done |-> Append(acc.done, acc.current),
                  current |-> <<>>]
            ELSE [acc EXCEPT !.depth = depth, !.current = Append(@, t)]
      end == FoldLeft(Next, [depth |-> 0, done |-> <<>>, current |-> <<>>], tokens)
  IN  IF end.current = <<>> THEN end.done ELSE Append(end.done, end.current)

(* What follows the ";" after <...>, where rel is searched.                *)
UrlEnd(segment) == First(segment, ">")
Params(segment) == SubSeq(segment, UrlEnd(segment) + 2, Len(segment))

(* A segment that begins with <url>; and has a rel after it, and its name. *)
HasRel(segment) ==
  /\ Len(segment) > 0 /\ segment[1].type = "<"
  /\ UrlEnd(segment) \in 2..(Len(segment) - 1)
  /\ segment[UrlEnd(segment) + 1].type = ";"
  /\ First(Params(segment), "rel") # 0

RelOf(segment) == Params(segment)[First(Params(segment), "rel")].value

(* It is a link if neither its name nor its address is blank.  " " stands  *)
(* for every name of white space alone.                                    *)
IsLink(segment) ==
  /\ HasRel(segment)
  /\ RelOf(segment) \notin {"", " "}
  /\ UrlEnd(segment) > 2

Link(segment) ==
  [rel |-> RelOf(segment), url |-> SubSeq(segment, 2, UrlEnd(segment) - 1)]

(* rel="" raises before the name is looked at: the expression has matched  *)
(* a quoted name, which is empty, and None is stripped in its place.  The  *)
(* request ends with 500.                                                  *)
ParseFails(tokens) ==
  \E i \in DOMAIN SplitSegments(tokens) :
    LET segment == SplitSegments(tokens)[i]
    IN  HasRel(segment) /\ RelOf(segment) = ""

(* The links in their order, the first of each rel, if nothing raises.     *)
ParseLinkHeader(tokens) ==
  FoldLeft(LAMBDA links, s :
             IF /\ IsLink(s)
                /\ \A i \in DOMAIN links : links[i].rel # Link(s).rel
             THEN Append(links, Link(s)) ELSE links,
           <<>>, SplitSegments(tokens))

(* The first page and per_page in the query of an address, if it has them. *)
QueryOf(url, keys) ==
  [key \in {k \in keys : First(url, k) # 0} |-> url[First(url, key)].value]

(* The links with what keys keeps of their addresses. *)
Rewritten(tokens, keys) ==
  LET links == ParseLinkHeader(tokens)
  IN  [i \in DOMAIN links |-> [rel |-> links[i].rel,
                               query |-> QueryOf(links[i].url, keys)]]

(* Mutant: per_page does not survive. *)
RewriteLinkHeaderPageOnly(tokens) == Rewritten(tokens, {"page"})

(* "Only page and per_page survive from the upstream query string." *)
RewriteLinkHeader(tokens) == Rewritten(tokens, {"page", "per_page"})
=============================================================================
