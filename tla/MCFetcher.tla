------------------------------- MODULE MCFetcher -------------------------------
(* An instance of Fetcher for TLC: a page under a name and one under an address;   *)
(* and pages of a few characters.                                                  *)
EXTENDS Fetcher, Summary

UrlHost == [named |-> "name", addressed |-> "public"]

Texts == BoundedSeq({Space, "x", "y"}, 2)
Pages == BoundedSeq(Texts, 2)

SummariesAgree ==
  \A nodes \in Pages, limit \in 1 .. 5 :
    PageSummary(nodes, limit) = Beginning(nodes, limit)

\* Whatever the nodes of the page that has been read, its summary is the beginning of
\* its text: the blanks in front of it count (browser.go:99-117, 195-214, 278).
SummaryIsBeginning == pc = "capturing" => SummariesAgree
=============================================================================
