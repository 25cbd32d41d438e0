-------------------------------- MODULE Summary --------------------------------
(***************************************************************************)
(* The text of a page that becomes the summary: what the script in the     *)
(* page collects, and what Fetch keeps of it.  A text is a sequence of     *)
(* characters, Unicode code points on both sides.                          *)
(***************************************************************************)
EXTENDS Integers, SequencesExt

\* The configured length, or the default.
EffectiveSummaryLimit(maxChars) == IF maxChars <= 0 THEN 1000 ELSE maxChars

\* Mutant: the count is compared only between nodes.
BoundedBodyText_WholeNodes(nodes, limit) ==
  FoldLeft(LAMBDA out, node : IF Len(out) < limit THEN out \o node ELSE out, <<>>, nodes)

\* The script walks over the text nodes, and over the characters of each, while what it
\* has collected is shorter than the limit.
Collect(out, node, limit) ==
  LET text[i \in 0 .. Len(node)] ==
        IF i = 0 THEN out
        ELSE IF Len(text[i - 1]) < limit THEN Append(text[i - 1], node[i])
        ELSE text[i - 1]
  IN  text[Len(node)]

BoundedBodyText(nodes, limit) ==
  LET out[k \in 0 .. Len(nodes)] ==
        IF k = 0 THEN <<>> ELSE Collect(out[k - 1], nodes[k], limit)
  IN  out[Len(nodes)]

Space == " "

\* strings.TrimSpace.
TrimSpace(text) ==
  LET inked == {i \in DOMAIN text : text[i] # Space}
  IN  IF inked = {} THEN <<>>
      ELSE SubSeq(text, CHOOSE i \in inked : \A j \in inked : i <= j,
                        CHOOSE i \in inked : \A j \in inked : i >= j)

TrimSummary(text, maxRunes) ==
  IF maxRunes <= 0 THEN <<>>
  ELSE LET trimmed == TrimSpace(text)
       IN  IF Len(trimmed) <= maxRunes THEN trimmed ELSE SubSeq(trimmed, 1, maxRunes)

PageSummary(nodes, maxChars) ==
  LET limit == EffectiveSummaryLimit(maxChars)
  IN  TrimSummary(BoundedBodyText(nodes, limit), limit)

-----------------------------------------------------------------------------

\* The reference: the beginning of the page's text.
Beginning(nodes, limit) ==
  LET text == FlattenSeq(nodes)
  IN  TrimSpace(SubSeq(text, 1, IF Len(text) < limit THEN Len(text) ELSE limit))
=============================================================================
