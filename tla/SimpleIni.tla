----------------------------- MODULE SimpleIni -----------------------------
(***************************************************************************)
(* CSimpleIniTempl of include/simpleIni/SimpleIni.h, the reader and writer *)
(* of the server's configuration: how a file's lines become sections, keys *)
(* and values, how they are changed in memory and how they are written     *)
(* back.                                                                   *)
(*                                                                         *)
(* A file is a sequence of lines.  Where a line's text matters it is a     *)
(* piece [t, pad, q]: the text, whether white space surrounds it and which *)
(* of its two enclosing quotes it has.  A value is a sequence of lines, as *)
(* it may span several; a value of one line is a text line.                *)
(***************************************************************************)
EXTENDS IniValues, FiniteSets

CONSTANTS
    Options,     \* settings of the object that are tried
    Files,       \* files there are at the start
    SetCalls,    \* calls of SetValue: section, key, value, comment, force
    LongCalls,   \* calls of SetLongValue: section, key, number, hexadecimal, force
    DoubleCalls, \* calls of SetDoubleValue: section, key, number, force
    BoolCalls,   \* calls of SetBoolValue: section, key, value, force
    DeleteCalls, \* calls of DeleteValue: section, key, value, removeEmpty
    Sections,    \* section names a reader asks for
    Keys,        \* key names a reader asks for
    Lower(_),    \* a name in lower case
    MaxLength,   \* bound: lines of a file that is loaded
    MaxOps       \* bound: operations on the object

VARIABLES
    opt,    \* m_bAllowMultiKey, m_bAllowMultiLine, m_bParseQuotes, m_bAllowKeyOnly
    mem,    \* m_data, m_nOrder, m_pData # NULL, m_pFileComment, m_bStoreIsUtf8
    disk,   \* the file: its signature and its lines
    last,   \* the operation that led here
    ops     \* operations so far

iniVars == <<opt, mem, disk, last, ops>>

-----------------------------------------------------------------------------
(* Lines and pieces of text *)

\* a NULL string: no key, no value, no comment, no file comment
NoText == <<>>

Piece(t) == [t |-> t, pad |-> FALSE, q |-> ""]

Line(kind, name, p) == [kind |-> kind, name |-> name, p |-> p]

Text(p)       == Line("text", "", p)
Comment(c)    == Line("comment", c, Piece(""))
Section(s)    == Line("section", s, Piece(""))
BadSection(s) == Line("badsection", s, Piece(""))   \* no closing bracket
Pair(k, p)    == Line("pair", k, p)

Blank == Text(Piece(""))

EmptyValue == <<Blank>>

IsBlank(line) == line.kind = "text" /\ line.p.t = "" /\ line.p.q = ""

\* white space outside the quotes is dropped around a value
Trim(p) == IF p.q = "both" THEN p ELSE [p EXCEPT !.pad = FALSE]

\* the tag that ends the text a value opens, and the values that open one
EndTag == [t \in {"<<<END_OF_TEXT", "<<<X", "<<<"} |->
             CASE t = "<<<END_OF_TEXT" -> "END_OF_TEXT" [] t = "<<<X" -> "X" [] t = "<<<" -> ""]

IsMultiLineTag(p) == p.t \in DOMAIN EndTag /\ ~p.pad /\ p.q = ""

IsMultiLineData(v) == Len(v) > 1 \/ (v[1].p.pad /\ v[1].p.q = "")

\* white space in front is enough, whatever number of lines follows
IsSingleLineQuotedValue(v) == v[1].p.pad /\ v[1].p.q = ""

-----------------------------------------------------------------------------
(* AddEntry and Delete.  A section and a key are found by their name in    *)
(* lower case; several values of one key are kept in the order they were   *)
(* added.  at and vat say where a name and a value are stored: in the      *)
(* block that was loaded first (m_pData), in a copy (m_strings), or in     *)
(* memory that is gone once the call has returned.                         *)

LowerName(s) == [i \in DOMAIN s |-> Lower(s[i])]

\* where a string of the caller is if it is not copied
Uncopied(copy) == IF copy THEN "gone" ELSE "block"

CopyString(copy) == IF copy THEN "copy" ELSE "block"

\* f, with v for k
With(f, k, v) == [j \in DOMAIN f \union {k} |-> IF j = k THEN v ELSE f[j]]

AddSection(m, e, copy) ==
    IF LowerName(e.sec) \in DOMAIN m.data THEN m
    ELSE [m EXCEPT
            !.order = @ + 1,
            !.data = With(@, LowerName(e.sec),
                [name |-> e.sec, at |-> CopyString(copy), order |-> m.order + 1,
                 com |-> IF e.key = NoText THEN e.com ELSE NoText, keys |-> <<>>])]

\* the keys of a section without key k
WithoutKey(keys, k) == [j \in DOMAIN keys \ {k} |-> keys[j]]

PutKey(m, s, k, entries) ==
    [m EXCEPT !.data[s].keys = IF entries = <<>> THEN WithoutKey(@, k) ELSE With(@, k, entries)]

\* the entry that lends its place and its comment to the one that replaces all
Oldest(entries) == CHOOSE i \in DOMAIN entries : \A j \in DOMAIN entries : entries[i].order <= entries[j].order

\* wrong: a key that exists is not copied, though it is inserted again
AddKeyCopiesOnce(o, m0, e, force, copy) ==
    LET s   == LowerName(e.sec)
        k   == LowerName(e.key)
        old == IF k \in DOMAIN m0.data[s].keys THEN m0.data[s].keys[k] ELSE <<>>
        new == [name |-> e.key, val |-> IF e.val = NoText THEN EmptyValue ELSE e.val,
                at |-> IF old = <<>> THEN CopyString(copy) ELSE Uncopied(copy), vat |-> CopyString(copy),
                com |-> e.com, order |-> m0.order + 1]
    IN PutKey([m0 EXCEPT !.order = @ + 1], s, k, IF o.multiKey THEN Append(old, new) ELSE <<new>>)

AddKey(o, m0, e, force, copy) ==
    LET s       == LowerName(e.sec)
        k       == LowerName(e.key)
        old     == IF k \in DOMAIN m0.data[s].keys THEN m0.data[s].keys[k] ELSE <<>>
        m       == [m0 EXCEPT !.order = @ + 1]
        replace == old # <<>> /\ o.multiKey /\ force
        first   == old[Oldest(old)]
        found   == old # <<>> /\ ~replace
        always  == o.multiKey /\ ~force
        val     == IF e.val = NoText THEN EmptyValue ELSE e.val
        new     == [name |-> e.key, val |-> val,
                    at    |-> IF always \/ ~found THEN CopyString(copy) ELSE Uncopied(copy),
                    vat   |-> CopyString(copy),
                    com   |-> IF replace /\ first.com # NoText THEN first.com ELSE e.com,
                    order |-> IF replace THEN first.order ELSE m.order]
    IN IF ~found \/ always
       THEN PutKey(m, s, k, IF replace THEN <<new>> ELSE Append(old, new))
       ELSE PutKey(m, s, k, <<[old[1] EXCEPT !.val = new.val, !.vat = new.vat]>> \o Tail(old))

AddEntry(o, m, e, force, copy) ==
    IF e.key = NoText THEN AddSection(m, e, copy)
    ELSE AddKey(o, AddSection(m, e, copy), e, force, copy)

\* DeleteValue: the values of a key that match (all if none is given), then
\* the section if it is empty and empty sections are not kept; Delete without
\* a key: the section
SameValue(v, w) ==
    /\ Len(v) = Len(w)
    /\ \A i \in 1..Len(v) :
          /\ [v[i] EXCEPT !.p.t = "", !.name = ""] = [w[i] EXCEPT !.p.t = "", !.name = ""]
          /\ Lower(v[i].p.t) = Lower(w[i].p.t)
          /\ Lower(v[i].name) = Lower(w[i].name)

DeleteSection(m, s) == [m EXCEPT !.data = [t \in DOMAIN @ \ {s} |-> @[t]]]

\* the entries that stay, in their order
Staying(entries, v) ==
    LET kept[n \in 0..Len(entries)] ==
            IF n = 0 THEN <<>>
            ELSE IF v = NoText \/ SameValue(entries[n].val, v) THEN kept[n - 1]
            ELSE Append(kept[n - 1], entries[n])
    IN kept[Len(entries)]

DeleteValue(m, s, k, v, removeEmpty) ==
    LET old  == m.data[s].keys[k]
        keep == Staying(old, v)
        done == PutKey(m, s, k, keep)
    IN IF keep # old /\ removeEmpty /\ DOMAIN done.data[s].keys = {}
       THEN DeleteSection(m, s) ELSE done

-----------------------------------------------------------------------------
(* FindEntry: the entries of a file, each added as it is found.  The       *)
(* parser's state p holds what FindEntry keeps in a_pSection, a_pVal and   *)
(* a_pComment from one call to the next, what LoadMultiLineText has        *)
(* gathered so far, and LoadData's object and bCopyStrings.                *)

\* a section name that was not closed runs on into the next text that is
\* terminated, a comment or a key
RunsOn(p, t) == IF p.open THEN [p EXCEPT !.sec = Append(@, t), !.open = FALSE] ELSE p

Emit(p0, key, val) ==
    LET p == IF key = NoText THEN p0 ELSE RunsOn(p0, key[1])
        e == [sec |-> p.sec, key |-> key, val |-> val, com |-> p.com]
    IN [p EXCEPT !.mem = AddEntry(p.opt, @, e, FALSE, p.copy),
                 !.com = NoText, !.run = FALSE, !.gap = <<>>, !.val = val]

\* a line that makes no entry ends a comment but does not forget it
SkipLine(p) == [p EXCEPT !.run = FALSE, !.gap = <<>>]

\* blank lines stay in a comment only if more of the comment follows
BlankLine(p) == IF p.run THEN [p EXCEPT !.gap = Append(@, Blank)] ELSE p

CommentLine(p0, line) ==
    LET p == RunsOn(p0, line.name) IN
    [p EXCEPT !.com = IF p.run THEN @ \o p.gap \o <<line>> ELSE <<line>>,
              !.run = TRUE, !.gap = <<>>]

\* wrong: the section stays the one before
SectionLineStays(p, line) == Emit(p, NoText, NoText)

SectionLine(p, line) == Emit([p EXCEPT !.sec = <<line.name>>, !.open = FALSE], NoText, NoText)

\* the name has been taken over before the missing bracket is noticed
BadSectionLine(p, line) == SkipLine([p EXCEPT !.sec = <<line.name>>, !.open = TRUE])

Unquoted(o, piece) ==
    IF o.quotes /\ piece.q = "both" THEN [piece EXCEPT !.q = ""] ELSE piece

PairLine(p, line) ==
    LET v == Trim(line.p) IN
    CASE line.name = ""                     -> SkipLine(p)
      [] line.name # "" /\ p.opt.multiLine /\ IsMultiLineTag(v)
                                            -> [p EXCEPT !.key = <<line.name>>, !.tag = v.t, !.text = <<>>]
      [] line.name # "" /\ ~(p.opt.multiLine /\ IsMultiLineTag(v))
                                            -> Emit(p, <<line.name>>, <<Text(Unquoted(p.opt, v))>>)

\* without an equals sign a_pVal still is the value of the entry before
KeyOnlyLine(p, line) ==
    IF p.opt.keyOnly THEN Emit(p, <<line.p.t>>, p.val) ELSE SkipLine(p)

\* a line as the text of a value
AsText(line) ==
    CASE line.kind = "text"       -> line
      [] line.kind = "comment"    -> Text(Piece(line.name))
      [] line.kind = "section"    -> Text(Piece("[" \o line.name \o "]"))
      [] line.kind = "badsection" -> Text(Piece("[" \o line.name))
      [] line.kind = "pair"       -> Text(Piece(line.name \o "=" \o line.p.t))

\* LoadMultiLineText up to the end tag.  An empty text leaves the tag itself
\* as the value; if the tag is empty too, no entry is found and loading ends.
TaggedLine(p, line) ==
    LET end == line.kind = "text" /\ ~line.p.pad /\ Lower(line.p.t) = Lower(EndTag[p.tag])
        done == [p EXCEPT !.tag = ""]
    IN CASE ~end                             -> [p EXCEPT !.text = Append(@, line)]
         [] end /\ Len(p.text) = 1           -> Emit(done, p.key, <<AsText(p.text[1])>>)
         [] end /\ p.text = <<>> /\ line.p.t # "" -> Emit(done, p.key, <<line>>)
         [] end /\ p.text = <<>> /\ line.p.t = "" -> [done EXCEPT !.stop = TRUE]
         [] OTHER                            -> Emit(done, p.key, p.text)

FindEntry(p, line) ==
    CASE p.stop                                               -> p
      [] ~p.stop /\ p.tag # ""                                -> TaggedLine(p, line)
      [] ~p.stop /\ p.tag = "" /\ IsBlank(line)               -> BlankLine(p)
      [] ~p.stop /\ p.tag = "" /\ line.kind = "comment"       -> CommentLine(p, line)
      [] ~p.stop /\ p.tag = "" /\ line.kind = "section"       -> SectionLine(p, line)
      [] ~p.stop /\ p.tag = "" /\ line.kind = "badsection"    -> BadSectionLine(p, line)
      [] ~p.stop /\ p.tag = "" /\ line.kind = "pair"          -> PairLine(p, line)
      [] OTHER                                                -> KeyOnlyLine(p, line)

\* a text whose end tag is missing takes the rest of the file, to the end of
\* its last, empty line
EndOfData(p) == IF p.tag = "" THEN p ELSE Emit(p, p.key, Append(p.text, Blank))

Start(o, m, copy) ==
    [opt |-> o, mem |-> m, copy |-> copy, sec |-> <<"">>, open |-> FALSE, key |-> NoText, val |-> NoText,
     com |-> NoText, run |-> FALSE, gap |-> <<>>, tag |-> "", text |-> <<>>, stop |-> FALSE]

\* LoadData's loop: the object with the entries of all lines but the first ones
Parsed(o, m, copy, lines, first) ==
    LET upto[n \in first..Len(lines)] ==
            IF n = first THEN Start(o, m, copy) ELSE FindEntry(upto[n - 1], lines[n])
    IN EndOfData(upto[Len(lines)]).mem

\* FindFileComment: the comment lines the file starts with
Lead(lines) ==
    CHOOSE n \in 0..Len(lines) :
        /\ \A i \in 1..n : lines[i].kind = "comment"
        /\ n < Len(lines) => lines[n + 1].kind # "comment"

-----------------------------------------------------------------------------
(* Readers *)

\* GetSection: the keys of a section, none if there is no such section
GetSection(m, s) == IF LowerName(s) \in DOMAIN m.data THEN <<m.data[LowerName(s)].keys>> ELSE <<>>

\* the number of keys, whatever number of values each has
GetSectionSize(m, s) == IF GetSection(m, s) = <<>> THEN -1 ELSE Cardinality(DOMAIN GetSection(m, s)[1])

\* GetAllValues
AllValues(o, entries) == IF o.multiKey THEN entries ELSE <<entries[1]>>

\* the first value of a key, or NoText for the default
GetValue(o, m, s, k) ==
    LET keys == GetSection(m, s)
        has  == keys # <<>> /\ LowerName(k) \in DOMAIN keys[1]
        es   == keys[1][LowerName(k)]
    IN IF has THEN [val |-> es[1].val, multiple |-> o.multiKey /\ Len(es) > 1]
       ELSE [val |-> NoText, multiple |-> FALSE]

\* a value as the C string its pointer leads to, up to its second line
CText(v) ==
    LET p    == AsText(v[1]).p
        body == IF p.pad THEN " " \o p.t \o " " ELSE p.t
    IN (IF p.q \in {"both", "open"} THEN "'" ELSE "") \o body \o (IF p.q \in {"both", "close"} THEN "'" ELSE "")
       \o (IF Len(v) > 1 THEN "\n" ELSE "")

GetLongValue(o, m, s, k, default) ==
    LET v == GetValue(o, m, s, k).val IN IF v = NoText THEN default ELSE LongOf(CText(v), default)

GetDoubleValue(o, m, s, k, default) ==
    LET v == GetValue(o, m, s, k).val IN IF v = NoText THEN default ELSE DoubleOf(CText(v), default)

GetBoolValue(o, m, s, k, default) ==
    LET v == GetValue(o, m, s, k).val IN IF v = NoText THEN default ELSE BoolOf(CText(v), default)

-----------------------------------------------------------------------------
(* LoadData and Save *)

Fresh == [data |-> <<>>, order |-> 0, loaded |-> FALSE, fileComment |-> NoText, utf8 |-> FALSE]

ResetAll(m) == [m EXCEPT !.data = <<>>, !.loaded = FALSE, !.fileComment = NoText]

\* strings are copied if a block of an earlier file is held already
LoadData(o, m, file) ==
    LET m1   == IF file.bom /\ ~m.loaded THEN [m EXCEPT !.utf8 = TRUE] ELSE m
        copy == m.loaded
        n    == IF m.fileComment = NoText THEN Lead(file.lines) ELSE 0
        m2   == IF n = 0 THEN m1 ELSE [m1 EXCEPT !.fileComment = SubSeq(file.lines, 1, n)]
    IN IF file.lines = <<>> THEN m1 ELSE [Parsed(o, m2, copy, file.lines, n) EXCEPT !.loaded = TRUE]

ByOrder(S) == SetToSortSeq(S, LAMBDA a, b : a.order < b.order)

GetAllSections(m) == {m.data[s] : s \in DOMAIN m.data}

\* all sections in load order, the section without a name in front
SectionsInOrder(m) ==
    LET all == ByOrder(GetAllSections(m))
    IN SelectSeq(all, LAMBDA s : s.name = <<"">>) \o SelectSeq(all, LAMBDA s : s.name # <<"">>)

\* GetAllKeys: one entry for each key, the first of its values
AllKeys(keys) == {keys[k][1] : k \in DOMAIN keys}

KeysInOrder(sec) == ByOrder(AllKeys(sec.keys))

\* a text line by line, of which an empty one has none
OutputMultiLineText(text) == IF text = EmptyValue THEN <<>> ELSE text

\* the lines a value is written as, behind its key
SavedValue(o, name, v) ==
    LET n == Len(v) IN
    CASE v = EmptyValue /\ o.keyOnly -> <<Text(Piece(name))>>
      [] v = EmptyValue /\ ~o.keyOnly -> <<Pair(name, v[1].p)>>
      [] v # EmptyValue /\ o.quotes /\ IsSingleLineQuotedValue(v) ->
            IF n = 1 THEN <<Pair(name, [v[1].p EXCEPT !.q = "both"])>>
            ELSE <<Pair(name, [v[1].p EXCEPT !.q = "open"])>> \o SubSeq(v, 2, n - 1)
                 \o <<[v[n] EXCEPT !.p.q = "close"]>>
      [] v # EmptyValue /\ ~(o.quotes /\ IsSingleLineQuotedValue(v)) /\ o.multiLine /\ IsMultiLineData(v) ->
            <<Pair(name, Piece("<<<END_OF_TEXT"))>> \o OutputMultiLineText(v) \o <<Text(Piece("END_OF_TEXT"))>>
      [] v # EmptyValue /\ ~(o.quotes /\ IsSingleLineQuotedValue(v)) /\ ~(o.multiLine /\ IsMultiLineData(v)) ->
            <<Pair(name, v[1].p)>> \o Tail(v)

SavedKey(o, sec, key) ==
    FlattenSeq([i \in DOMAIN AllValues(o, sec.keys[LowerName(key.name)]) |->
        LET x == sec.keys[LowerName(key.name)][i]
        IN (IF x.com = NoText THEN <<>> ELSE <<Blank>> \o OutputMultiLineText(x.com))
           \o SavedValue(o, key.name[1], x.val)])

SavedSection(o, sec) ==
    OutputMultiLineText(sec.com)
    \o (IF sec.name = <<"">> THEN <<>>
        ELSE IF Len(sec.name) = 1 THEN <<Section(sec.name[1])>>
        ELSE <<BadSection(sec.name[1]), Text(Piece("]"))>>)
    \o FlattenSeq([i \in DOMAIN KeysInOrder(sec) |-> SavedKey(o, sec, KeysInOrder(sec)[i])])

\* wrong: no blank lines
SaveNoGap(o, m) ==
    LET secs == SectionsInOrder(m) IN
    [bom |-> m.utf8, lines |-> m.fileComment \o FlattenSeq([i \in DOMAIN secs |-> SavedSection(o, secs[i])])]

\* two blank lines before everything but the first
Save(o, m) ==
    LET secs == SectionsInOrder(m) IN
    [bom   |-> m.utf8,
     lines |-> OutputMultiLineText(m.fileComment) \o
               FlattenSeq([i \in DOMAIN secs |->
                   (IF i > 1 \/ m.fileComment # NoText THEN <<Blank, Blank>> ELSE <<>>)
                   \o SavedSection(o, secs[i])])]

-----------------------------------------------------------------------------
(* The object and its file *)

IniInit ==
    /\ opt \in Options
    /\ disk \in Files
    /\ mem = Fresh
    /\ last = "init"
    /\ ops = 0

Did(name) == ops < MaxOps /\ ops' = ops + 1 /\ last' = name /\ UNCHANGED opt

LoadFile ==
    /\ Did("load")
    /\ Len(disk.lines) \in 0..MaxLength
    /\ mem' = LoadData(opt, mem, disk)
    /\ UNCHANGED disk

SaveFile ==
    /\ Did("save")
    /\ disk' = Save(opt, mem)
    /\ UNCHANGED mem

Reset ==
    /\ Did("reset")
    /\ mem' = ResetAll(mem)
    /\ UNCHANGED disk

\* SetValue; without a key only the section is made
SetValue(c) ==
    /\ Did("set")
    /\ mem' = AddEntry(opt, mem, [sec |-> c.sec, key |-> c.key, val |-> c.val, com |-> c.com], c.force, TRUE)
    /\ UNCHANGED disk

\* the typed setters need a key and give no comment
SetText(c, text) ==
    mem' = AddEntry(opt, mem, [sec |-> c.sec, key |-> c.key, val |-> <<Text(Piece(text))>>, com |-> NoText],
                    c.force, TRUE)

SetLongValue(c) ==
    /\ Did("set")
    /\ SetText(c, LongText(c.n, c.hex))
    /\ UNCHANGED disk

SetDoubleValue(c) ==
    /\ Did("set")
    /\ SetText(c, DoubleText(c.d))
    /\ UNCHANGED disk

SetBoolValue(c) ==
    /\ Did("set")
    /\ SetText(c, BoolText(c.b))
    /\ UNCHANGED disk

\* Delete and DeleteValue where there is something to delete
Delete(c) ==
    /\ Did("delete")
    /\ LowerName(c.sec) \in DOMAIN mem.data
    /\ \/ c.key = NoText /\ mem' = DeleteSection(mem, LowerName(c.sec))
       \/ /\ c.key # NoText
          /\ LowerName(c.key) \in DOMAIN mem.data[LowerName(c.sec)].keys
          /\ mem' = DeleteValue(mem, LowerName(c.sec), LowerName(c.key), c.val, c.removeEmpty)
    /\ UNCHANGED disk

IniNext ==
    \/ LoadFile
    \/ SaveFile
    \/ Reset
    \/ \E c \in SetCalls : SetValue(c)
    \/ \E c \in LongCalls : SetLongValue(c)
    \/ \E c \in DoubleCalls : SetDoubleValue(c)
    \/ \E c \in BoolCalls : SetBoolValue(c)
    \/ \E c \in DeleteCalls : Delete(c)

IniSpec == IniInit /\ [][IniNext]_iniVars

-----------------------------------------------------------------------------
(* Properties *)

AllEntries(m) == UNION {UNION {Range(m.data[s].keys[k]) : k \in DOMAIN m.data[s].keys} : s \in DOMAIN m.data}

\* No name and no value is left in the temporary block of a second load or
\* in the caller's memory: AddEntry copies a key exactly when it inserts it.
NoDangling ==
    /\ \A s \in DOMAIN mem.data : mem.data[s].at # "gone"
    /\ \A x \in AllEntries(mem) : x.at # "gone" /\ x.vat # "gone"

\* lines whose text FindEntry terminates: comments and keys
Terminated(line) == line.kind = "comment" \/ (line.kind = "pair" /\ line.name # "")

\* The section that the key of line i is found in: the one of the last section
\* line, closed or not.  "If it's an invalid line, just skip it" is said of one
\* that is not closed, which would leave the keys behind it in the section
\* before.  They are not: its name has been taken over by then, and goes on
\* over the line ends up to the end of the next comment or key.
SectionAt(lines, i) ==
    LET heads == {j \in 1..(i - 1) : lines[j].kind \in {"section", "badsection"}}
        j     == CHOOSE x \in heads : \A y \in heads : y <= x
        ends  == {x \in (j + 1)..i : Terminated(lines[x])}
        end   == CHOOSE x \in ends : \A y \in ends : x <= y
    IN CASE heads = {}                                        -> <<"">>
         [] heads # {} /\ lines[j].kind = "section"           -> <<lines[j].name>>
         [] heads # {} /\ lines[j].kind = "badsection"        -> <<lines[j].name, lines[end].name>>

\* the lines of keys
PairLines(lines) == {i \in 1..Len(lines) : lines[i].kind = "pair" /\ lines[i].name # ""}

\* the keys in section s
KeysOf(lines, s) ==
    {Lower(lines[i].name) : i \in {j \in PairLines(lines) : LowerName(SectionAt(lines, j)) = s}}

\* the lines of the file that give key k of section s a value
LinesOf(lines, s, k) ==
    SelectSeq([i \in 1..Len(lines) |-> i],
              LAMBDA i : /\ i \in PairLines(lines) /\ Lower(lines[i].name) = k[1]
                         /\ LowerName(SectionAt(lines, i)) = s)

\* What GetValue and GetAllValues return after a file was read: with one value
\* per key the value of the last line for it in that section, wherever the
\* section's parts stand in the file; with several, the first from GetValue,
\* which says that there are more, and all of them in order.  A key behind a
\* section line that is not closed is found under the name that line has got,
\* and under no other.  GetSectionSize counts the different keys, the same as
\* GetAllKeys lists, also where its note says that the two may differ.
ReadsAsWritten ==
    opt.multiLine \/ opt.keyOnly \/
    LET m     == LoadData(opt, Fresh, disk)
        names == {<<t>> : t \in Sections} \union {SectionAt(disk.lines, i) : i \in PairLines(disk.lines)}
    IN
    \A s \in {LowerName(n) : n \in names}, k \in {LowerName(<<t>>) : t \in Keys} :
        LET is   == LinesOf(disk.lines, s, k)
            want == [n \in DOMAIN is |-> <<Text(Unquoted(opt, Trim(disk.lines[is[n]].p)))>>]
            all  == IF opt.multiKey \/ want = <<>> THEN want ELSE <<want[Len(want)]>>
            got  == IF s \in DOMAIN m.data /\ k \in DOMAIN m.data[s].keys
                    THEN [n \in DOMAIN m.data[s].keys[k] |-> m.data[s].keys[k][n].val] ELSE <<>>
        IN /\ got = all
           /\ GetValue(opt, m, s, k) = [val |-> IF all = <<>> THEN NoText ELSE all[1], multiple |-> Len(all) > 1]
           /\ GetSection(m, s) # <<>> => GetSectionSize(m, s) = Cardinality(KeysOf(disk.lines, s))

\* everything a reader can ask an object for
Contents(m) ==
    [fileComment |-> m.fileComment, utf8 |-> m.utf8,
     sections |-> LET secs == SectionsInOrder(m) IN
        [i \in DOMAIN secs |->
            [name |-> secs[i].name, com |-> secs[i].com,
             keys |-> LET ks == KeysInOrder(secs[i]) IN
                [j \in DOMAIN ks |->
                    [name |-> ks[j].name,
                     values |-> LET es == AllValues(opt, secs[i].keys[LowerName(ks[j].name)])
                                IN [n \in DOMAIN es |-> [val |-> es[n].val, com |-> es[n].com]]]]]]]

\* a value that its settings can write
Writable(v) ==
    /\ Len(v) > 1 => opt.multiLine /\ ~(opt.quotes /\ IsSingleLineQuotedValue(v))
    /\ IsMultiLineData(v) => opt.multiLine \/ opt.quotes
    /\ Len(v) = 1 => ~(opt.multiLine /\ IsMultiLineTag(v[1].p)) /\ ~(opt.quotes /\ v[1].p.q = "both")
    /\ \A i \in DOMAIN v : Lower(v[i].p.t) # Lower("END_OF_TEXT")
    /\ opt.keyOnly => v # EmptyValue

\* An object whose comments and sections the format can hold: the unnamed
\* section has keys and no comment of its own, a comment that would come first
\* in the file is the file's, and every section name was closed.
Savable(m) ==
    /\ \A s \in DOMAIN m.data : Len(s) = 1
    /\ \A x \in AllEntries(m) : Writable(x.val)
    /\ <<"">> \in DOMAIN m.data => m.data[<<"">>].com = NoText /\ m.data[<<"">>].keys # <<>>
    /\ m.fileComment = NoText /\ m.data # <<>> => SectionsInOrder(m)[1].com = NoText

\* What SaveFile writes, LoadFile reads back: the same sections, keys, values
\* and comments in the same order.
RoundTrip == Savable(mem) => Contents(LoadData(opt, [Fresh EXCEPT !.utf8 = mem.utf8], Save(opt, mem))) = Contents(mem)

\* the new value is the one GetValue finds
InFront(c) == c.force \/ ~opt.multiKey \/ GetValue(opt, mem, c.sec, c.key).val = NoText

\* the object and, if it can be saved, what its file is read as
WithReread(m) == {m} \union IF Savable(m) THEN {LoadData(opt, Fresh, Save(opt, m))} ELSE {}

LongAsSet(c, m) ==
    \A d \in {0, LongMax} :
        GetLongValue(opt, m, c.sec, c.key, d) = IF c.hex /\ c.n < 0 THEN LongMax ELSE c.n

\* up to the places that are printed, if the text fits the buffer
DoubleAsSet(c, m) ==
    Len(PrintDouble(c.d)) < TextSize =>
        \A d \in {0, 1} : GetDoubleValue(opt, m, c.sec, c.key, d) = 10 * Rounded(c.d)

BoolAsSet(c, m) == \A d \in BOOLEAN : GetBoolValue(opt, m, c.sec, c.key, d) = c.b

\* What a typed setter stored, the typed reader returns whatever the default,
\* at once and from the file the object is saved to, provided the key had no
\* value that stays in front of it.  A negative number written in hexadecimal
\* is read as the largest number: it is printed as unsigned and strtol clamps.
\* A double comes back rounded, and only if its text fits the buffer.
TypedAsSet ==
    [][/\ \A c \in LongCalls :
             SetLongValue(c) /\ InFront(c) => \A m \in WithReread(mem') : LongAsSet(c, m)
       /\ \A c \in DoubleCalls :
             SetDoubleValue(c) /\ InFront(c) => \A m \in WithReread(mem') : DoubleAsSet(c, m)
       /\ \A c \in BoolCalls :
             SetBoolValue(c) /\ InFront(c) => \A m \in WithReread(mem') : BoolAsSet(c, m)]_iniVars
=============================================================================
