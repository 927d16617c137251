------------------------------- MODULE CsvLines -------------------------------
(***************************************************************************)
(* Lines of CSV: what the exports write of some cells (writeCsv of         *)
(* ExportV2Service and exportCsv of ExportService), and what an import     *)
(* makes of the line, character by character (parseCsvLine of              *)
(* ImportService).                                                         *)
(*                                                                         *)
(* A character is a quote, a comma, a space (the byte order mark is one,   *)
(* to trim) or another.  A line break inside a cell is left out: the       *)
(* import cuts the file into lines before it looks at quotes.              *)
(***************************************************************************)
EXTENDS Naturals, Sequences, SequencesExt

CONSTANTS Titles, Contents, \* cells of a header line, and of the others
          MaxCells

VARIABLES cells, \* what was exported
          line,  \* the line that was written
          parse  \* state of parseCsvLine

csvVars == <<cells, line, parse>>

Characters == {"quote", "comma", "space", "x"}

Start == [i |-> 1, current |-> <<>>, inQuotes |-> FALSE, values |-> <<>>, ended |-> FALSE]

TypeOK ==
    /\ cells \in UNION {[1..n -> Titles \cup Contents] : n \in 0..MaxCells}
    /\ line \in Seq(Characters)
    /\ DOMAIN parse = DOMAIN Start
    /\ parse.i \in 1..Len(line) + 1 /\ parse.current \in Seq(Characters)
    /\ parse.inQuotes \in BOOLEAN /\ parse.ended \in BOOLEAN
    /\ Len(parse.values) <= Len(line) + 1

Init == cells = <<>> /\ line = <<>> /\ parse = Start

-------------------------------------------------------------------------------
\* replace(/"/g, '""')
Doubled(cell) ==
    FlattenSeq([i \in DOMAIN cell |-> IF cell[i] = "quote" THEN <<"quote", "quote">>
                                                          ELSE <<cell[i]>>])

\* join(",")
Line(quoted) ==
    FlattenSeq([i \in DOMAIN quoted |-> (IF i = 1 THEN <<>> ELSE <<"comma">>)
                                        \o <<"quote">> \o quoted[i] \o <<"quote">>])

\* The header is not escaped, and follows a byte order mark.
WriteHeader ==
    /\ line = <<>>
    /\ \E n \in 1..MaxCells : \E titles \in [1..n -> Titles] :
         cells' = titles /\ line' = <<"space">> \o Line(titles)
    /\ parse' = Start

WriteRow ==
    /\ line = <<>>
    /\ \E n \in 1..MaxCells : \E row \in [1..n -> Contents] :
         cells' = row /\ line' = Line([i \in 1..n |-> Doubled(row[i])])
    /\ parse' = Start

-------------------------------------------------------------------------------
\* trim()
Trim(s) ==
    LET Ink(c) == c # "space"
    IN IF SelectInSeq(s, Ink) = 0 THEN <<>>
       ELSE SubSeq(s, SelectInSeq(s, Ink), SelectLastInSeq(s, Ink))

Char == line[parse.i]

\* Fault: a quote closes, whatever follows it.
DoubledQuote_Closes == FALSE

\* A quote in quotes with a quote after it stands for one.
DoubledQuote ==
    /\ Char = "quote" /\ parse.inQuotes
    /\ parse.i < Len(line) /\ line[parse.i + 1] = "quote"

Push == [parse EXCEPT !.values = Append(@, Trim(parse.current)), !.current = <<>>]

\* The body of the loop.
Step ==
    /\ line # <<>> /\ parse.i <= Len(line) /\ ~parse.ended
    /\ parse' =
         IF DoubledQuote
         THEN [parse EXCEPT !.i = @ + 2, !.current = Append(@, "quote")]
         ELSE IF Char = "quote" THEN [parse EXCEPT !.i = @ + 1, !.inQuotes = ~@]
         ELSE IF Char = "comma" /\ ~parse.inQuotes THEN [Push EXCEPT !.i = @ + 1]
         ELSE [parse EXCEPT !.i = @ + 1, !.current = Append(@, Char)]
    /\ UNCHANGED <<cells, line>>

End ==
    /\ line # <<>> /\ parse.i = Len(line) + 1 /\ ~parse.ended
    /\ parse' = [Push EXCEPT !.ended = TRUE]
    /\ UNCHANGED <<cells, line>>

-------------------------------------------------------------------------------
Next == WriteHeader \/ WriteRow \/ Step \/ End

Spec == Init /\ [][Next]_csvVars

-------------------------------------------------------------------------------
(* Properties *)

\* An import reads the cells that an export wrote, trimmed: quotes and commas inside
\* a cell survive, and the byte order mark before the header is no part of its title
\* (parseCsvLine).
ExportReadsBack ==
    parse.ended => parse.values = [i \in DOMAIN cells |-> Trim(cells[i])]

===============================================================================
