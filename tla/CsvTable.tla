------------------------------ MODULE CsvTable ------------------------------
(***************************************************************************)
(* The dataset of a chat (components/CsvUpload.tsx): a file is chosen or   *)
(* dropped, read, parsed line by line and put into the system prompt.  A   *)
(* cell is a sequence of characters, of which only the comma, the quote,   *)
(* the newline and the space matter.  Files are written by a spreadsheet,  *)
(* which is not part of the code; files and source are not in it either.   *)
(***************************************************************************)
EXTENDS Naturals, Sequences, FiniteSets, SequencesExt

CONSTANTS
    Letters,        \* the characters of a file
    Tables,         \* sequences of rows, the first the headers
    MaxRows,        \* rows of a dataset that reach the prompt (200)
    MaxPreview,     \* rows of a dataset that the page shows (6)
    MaxFiles        \* bound on the files chosen

ASSUME CsvAssumption ==
    /\ {MaxRows, MaxPreview, MaxFiles} \subseteq Nat
    /\ {",", "q", "nl", " "} \subseteq Letters
    /\ Tables \subseteq Seq(Seq(Seq(Letters)))

VARIABLES
    data,           \* the parsed table, <<>> without a dataset
    error,          \* whether an error is shown
    reading,        \* tables whose files are being read
    files,          \* files chosen so far
    source          \* the table that data was read from

csvVars == <<data, error, reading, files, source>>

CsvInit ==
    /\ data = <<>>
    /\ error = FALSE
    /\ reading = {}
    /\ files = 0
    /\ source = <<>>
-----------------------------------------------------------------------------
\* What a spreadsheet writes: quotes around a cell that needs them, a quote
\* in it doubled.
Written(cell) ==
    IF \E ch \in {",", "q", "nl"} : Contains(cell, ch)
    THEN <<"q">> \o FlattenSeq([i \in 1..Len(cell) |->
                        IF cell[i] = "q" THEN <<"q", "q">> ELSE <<cell[i]>>]) \o <<"q">>
    ELSE cell

Separated(parts, ch) ==
    FlattenSeq([i \in 1..Len(parts) |-> IF i = 1 THEN parts[i] ELSE <<ch>> \o parts[i]])

File(table) ==
    Separated([r \in 1..Len(table) |->
                  Separated([c \in 1..Len(table[r]) |-> Written(table[r][c])], ",")], "nl")
-----------------------------------------------------------------------------
Blank(ch) == ch \in {" ", "nl"}

Trim(text) ==
    LET inked == {i \in 1..Len(text) : ~Blank(text[i])} IN
    IF inked = {} THEN <<>>
    ELSE SubSeq(text, CHOOSE i \in inked : \A j \in inked : i <= j,
                      CHOOSE i \in inked : \A j \in inked : j <= i)

\* text.split: a newline ends a line, wherever it stands.
Lines(text) ==
    LET split[i \in 0..Len(text)] ==
            IF i = 0 THEN [lines |-> <<>>, line |-> <<>>]
            ELSE IF text[i] = "nl"
                 THEN [lines |-> Append(split[i - 1].lines, split[i - 1].line), line |-> <<>>]
            ELSE [split[i - 1] EXCEPT !.line = Append(@, text[i])]
    IN  Append(split[Len(text)].lines, split[Len(text)].line)

\* Mutant of ParseChar: a doubled quote ends the quotes and starts them again.
ParseCharNoDouble(line, acc, i) ==
    LET ch == line[i] IN
    IF ch = "q" THEN [acc EXCEPT !.quoted = ~@]
    ELSE IF ch = "," /\ ~acc.quoted
         THEN [acc EXCEPT !.cells = Append(@, Trim(acc.cell)), !.cell = <<>>]
    ELSE [acc EXCEPT !.cell = Append(@, ch)]

\* parseRow: cells so far, the cell that is read, inside quotes, and whether
\* the next character has been read with the one before it.
ParseChar(line, acc, i) ==
    LET ch == line[i] IN
    IF acc.skip THEN [acc EXCEPT !.skip = FALSE]
    ELSE IF ch = "q" /\ ~acc.quoted THEN [acc EXCEPT !.quoted = TRUE]
    ELSE IF ch = "q" /\ i < Len(line) /\ line[i + 1] = "q"
         THEN [acc EXCEPT !.cell = Append(@, "q"), !.skip = TRUE]
    ELSE IF ch = "q" THEN [acc EXCEPT !.quoted = FALSE]
    ELSE IF ch = "," /\ ~acc.quoted
         THEN [acc EXCEPT !.cells = Append(@, Trim(acc.cell)), !.cell = <<>>]
    ELSE [acc EXCEPT !.cell = Append(@, ch)]

ParseRow(line) ==
    LET parsed[i \in 0..Len(line)] ==
            IF i = 0 THEN [cells |-> <<>>, cell |-> <<>>, quoted |-> FALSE, skip |-> FALSE]
            ELSE ParseChar(line, parsed[i - 1], i)
    IN  Append(parsed[Len(line)].cells, Trim(parsed[Len(line)].cell))

\* parseCSV: blank lines after the headers are left out.
ParseCSV(text) ==
    LET lines == Lines(Trim(text))
        rows == FlattenSeq([i \in 1..(Len(lines) - 1) |->
                    IF Trim(lines[i + 1]) # <<>> THEN <<lines[i + 1]>> ELSE <<>>])
    IN  [i \in 1..(1 + Len(rows)) |-> ParseRow(IF i = 1 THEN lines[1] ELSE rows[i - 1])]
-----------------------------------------------------------------------------
\* The place to drop or choose a file is there while no dataset is shown.
DropZone == data = <<>>

\* handleFile up to the reader: a file with another name or of more than 5 MB
\* is refused.
HandleFile(table) ==
    /\ DropZone
    /\ files < MaxFiles
    /\ files' = files + 1
    /\ \/ error' = TRUE /\ UNCHANGED reading
       \/ error' = FALSE /\ reading' = reading \cup {table}
    /\ UNCHANGED <<data, source>>

\* reader.onload: the dataset is there at once, whichever file it is from.
\* A row of headers has at least one cell, so no file is refused here.
Loaded(table) ==
    /\ table \in reading
    /\ reading' = reading \ {table}
    /\ data' = ParseCSV(File(table))
    /\ source' = table
    /\ UNCHANGED <<error, files>>

\* The button on a dataset; also a new chat.
RemoveData ==
    /\ data # <<>>
    /\ data' = <<>>
    /\ UNCHANGED <<error, reading, files, source>>

CsvNext ==
    \/ \E t \in Tables : HandleFile(t) \/ Loaded(t)
    \/ RemoveData

CsvSpec == CsvInit /\ [][CsvNext]_csvVars

\* The first n rows below the headers.
Rows(n) == SubSeq(data, 2, IF Len(data) > n + 1 THEN n + 1 ELSE Len(data))

\* The table on the page: a row is cut or filled up to the headers.
Preview ==
    [r \in 1..Len(Rows(MaxPreview)) |->
        [c \in 1..Len(data[1]) |->
            IF c <= Len(data[r + 1]) THEN data[r + 1][c] ELSE <<>>]]

\* csvToSystemPrompt: every cell after its header, or its number if there is
\* none, and a note when rows are left out.
Prompt ==
    [rows |-> [r \in 1..Len(Rows(MaxRows)) |->
                  [c \in 1..Len(data[r + 1]) |->
                      [of |-> IF c <= Len(data[1]) THEN data[1][c] ELSE <<"number">>,
                       cell |-> data[r + 1][c]]]],
     truncated |-> Len(data) - 1 > MaxRows]
-----------------------------------------------------------------------------
\* A table that survives: no newline in a cell, no space at a cell's edge,
\* no line that is empty.
Plain(table) ==
    /\ table # <<>>
    /\ \A r \in 1..Len(table) :
          /\ table[r] \notin {<<>>, <<<<>>>>}
          /\ \A c \in 1..Len(table[r]) :
                Trim(table[r][c]) = table[r][c] /\ ~Contains(table[r][c], "nl")

\* The dataset is the file it was read from, cell by cell, whatever commas
\* and quotes the cells hold, as long as no cell has a newline or a space at
\* its edge and no line is empty: the page shows every cell under its own
\* header, the prompt holds it with that header, and a row the prompt leaves
\* out is never left out without a note.
DatasetAsWritten ==
    data # <<>> /\ Plain(source) =>
        /\ data = source
        /\ \A r \in 2..Len(source) : \A c \in 1..Len(source[r]) :
              LET headed == c <= Len(source[1]) IN
              /\ (headed /\ r <= MaxPreview + 1) => Preview[r - 1][c] = source[r][c]
              /\ \/ Prompt.truncated /\ r > MaxRows + 1
                 \/ /\ Prompt.rows[r - 1][c].cell = source[r][c]
                    /\ headed => Prompt.rows[r - 1][c].of = source[1][c]
=============================================================================
