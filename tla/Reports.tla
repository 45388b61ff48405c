------------------------------ MODULE Reports ------------------------------
(***************************************************************************)
(* The classes of src/data/DMdata, one for each kind of report: an object  *)
(* takes the members it knows out of a report's JSON and writes the INSERT *)
(* statement for its table.  The Makefile leaves them out at present; this *)
(* module is about what they store when they are built.                    *)
(*                                                                         *)
(* A header is the version it names and its members' types; a class is the *)
(* header, its table, the columns and the values of its statement in the   *)
(* order of the text, the JSON member each member is read from and the     *)
(* conversion it is read with.  A JSON value is [ty, v]; a member and a    *)
(* value of a statement are texts.  A report is the text it came in, its   *)
(* members, and the members of its data and of the contents in it.         *)
(***************************************************************************)
EXTENDS Integers, Sequences, SequencesExt, TLC

CONSTANTS
    Messages(_), \* the reports tried for a class: text, root, data, content, acks
    ShortMod,    \* 2^16, one more than a uint16_t holds
    IntMax       \* the largest int

-----------------------------------------------------------------------------
(* The headers: the version a class is for, and the types of its members.  *)

Header(version, dataType, names) ==
    [version |-> version, names |-> names,
     types |-> (IF dataType = "none" THEN <<>> ELSE "DataType" :> dataType) @@ [m \in names |-> "string"]]

DelDataH == Header("4120", "uint16_t",
    {"infoID", "deleteInstruction", "deletePerformer", "deletePerformTime", "timeout"})

DelCopyDataH == Header("4121", "uint16_t",
    {"globalID", "deleteInstruction", "deletePerformer", "deletePerformTime", "deleteControlSet", "deleteDupResult"})

NoticDataH == Header("4020", "uint16_t",
    {"userID", "infoID", "sourceDomainID", "nextDomainID", "lastDomainID", "deleteMethod", "deleteDomainSet",
     "deleteNotify", "deleteNotifyCreateTime", "deleteNotifyError"})

\* dictAck is a map
NotifyAckDataH == Header("4021", "uint16_t",
    {"userID", "infoID", "deleteNotifyAck", "sourceDomainID", "dictAck", "deleteNotifyAckError"})

UnCpareDelDataH == Header("4221", "uint16_t",
    {"infoID", "deleteIntention", "deleteRequest", "deleteIntentiongRequestDiff"})

UnTrigerDelDataH == Header("4222", "none",
    {"infoID", "deleteRequest", "deleteTriggers", "deleteRequestTriggerDiff"})

UnNotificationCfirmH == Header("4223", "uint32_t",
    {"infoID", "deleteNotify", "deleteConfirmation", "deleteConfirmationResponse",
     "deleteNotificationConfirmationDiff"})

ConsistDataH ==
    [Header("4224", "uint32_t",
            {"infoID", "deleteIntention", "classifyInformation", "deleteAlg", "deleteConsistencyDiff"})
     EXCEPT !.types["deleteAlg"] = "uint32_t"]

AlgStandardDiffH ==
    [Header("4225", "uint32_t", {"infoID", "deleteAlg", "deleteAlgParam", "Standard", "deleteAlgStandardDiff"})
     EXCEPT !.types["deleteAlg"] = "int"]

\* deleteAlg is a string here
UnRecoverableH == Header("4226", "uint32_t",
    {"infoID", "deleteDupInfoID", "deleteAlg", "deleteAlgParam", "Standard", "deleteAlgStandardIrrecoverableDiff"})

UnEfficaAlgH ==
    [Header("4227", "uint32_t",
            {"infoID", "deleteAlg", "deleteAlgParam", "RetentionStatus", "deleteAlgRetentionStatusDiff"})
     EXCEPT !.types["deleteAlg"] = "int"]

DelDupCompleH == Header("4228", "uint32_t",
    {"infoID", "deleteDupFailSet", "deleteDupSuccSet", "deleteDupCompletenessDiff"})

RequestJsonH == Header("", "none",
    {"objectHash", "objectSize", "objectSign", "title", "abstract", "keyWords", "category", "others",
     "recognizeResult"})

CmpliDelFailH == Header("4229", "uint32_t", {"infoID", "deleteEffectEvaDomainSet"})

-----------------------------------------------------------------------------
(* The classes *)

Class(header, table, typeCall, cols) ==
    [header |-> header, table |-> table, cols |-> cols, vals |-> cols,
     reads |-> [c \in Range(cols) |-> c],
     calls |-> "DataType" :> typeCall @@ [c \in Range(cols) |-> "asString"], ok |-> "true", quit |-> FALSE]

CDelData == Class(DelDataH, "delete_UnOrder", "asUInt",
    <<"infoID", "deleteInstruction", "deletePerformer", "deletePerformTime", "timeout">>)

CDelCopyData == Class(DelCopyDataH, "delete_DupFail", "asUInt",
    <<"globalID", "deleteInstruction", "deletePerformer", "deletePerformTime", "deleteControlSet", "deleteDupResult">>)

\* wrong: the statement leaves out the value of the last domain
CNoticDataShort ==
    [Class(NoticDataH, "delete_NotificationConfirmationDiff", "asUInt",
           <<"userID", "infoID", "sourceDomainID", "nextDomainID", "lastDomainID", "deleteMethod", "deleteDomainSet",
             "deleteNotify", "deleteNotifyCreateTime", "deleteNotifyError">>)
     EXCEPT !.vals = SelectSeq(@, LAMBDA m : m # "lastDomainID"), !.reads["lastDomainID"] = "lastDomainId"]

\* the last domain is read from a member of another name
CNoticData ==
    [Class(NoticDataH, "delete_NotificationConfirmationDiff", "asUInt",
           <<"userID", "infoID", "sourceDomainID", "nextDomainID", "lastDomainID", "deleteMethod", "deleteDomainSet",
             "deleteNotify", "deleteNotifyCreateTime", "deleteNotifyError">>)
     EXCEPT !.reads["lastDomainID"] = "lastDomainId"]

CNotifyAckData == Class(NotifyAckDataH, "delete_NotifyAckError", "asUInt",
    <<"userID", "infoID", "deleteNotifyAck", "sourceDomainID", "dictAck", "deleteNotifyAckError">>)

CUnCpareDelData == Class(UnCpareDelDataH, "delete_IntentiongRequestDiff", "asUInt",
    <<"infoID", "deleteIntention", "deleteRequest", "deleteIntentiongRequestDiff">>)

\* TurnStr2Obj reports failure whatever it did
CUnTrigerDelData ==
    [Class(UnTrigerDelDataH, "delete_RequestTriggerDiff", "none",
           <<"infoID", "deleteRequest", "deleteTriggers", "deleteRequestTriggerDiff">>) EXCEPT !.ok = "false"]

UnNotificationCfirm == Class(UnNotificationCfirmH, "delete_NotificationConfirmationDiff", "asInt",
    <<"infoID", "deleteNotify", "deleteConfirmation", "deleteConfirmationResponse",
      "deleteNotificationConfirmationDiff">>)

CConsistData ==
    [Class(ConsistDataH, "delete_ConsistencyDiff", "asUInt",
           <<"infoID", "deleteIntention", "classifyInformation", "deleteAlg", "deleteConsistencyDiff">>)
     EXCEPT !.calls["deleteAlg"] = "asUInt"]

CAlgStandardDiff ==
    [Class(AlgStandardDiffH, "delete_AlgStandardDiff", "asInt",
           <<"infoID", "deleteAlg", "deleteAlgParam", "Standard", "deleteAlgStandardDiff">>)
     EXCEPT !.calls["deleteAlg"] = "asInt"]

UnRecoverable ==
    [Class(UnRecoverableH, "delete_AlgStandardIrrecoverableDiff", "asInt",
           <<"infoID", "deleteDupInfoID", "deleteAlg", "deleteAlgParam", "Standard",
             "deleteAlgStandardIrrecoverableDiff">>)
     EXCEPT !.calls["deleteAlg"] = "asInt"]

UnEfficaAlg ==
    [Class(UnEfficaAlgH, "delete_AlgRetentionStatusDiff", "asInt",
           <<"infoID", "deleteAlg", "deleteAlgParam", "RetentionStatus", "deleteAlgRetentionStatusDiff">>)
     EXCEPT !.calls["deleteAlg"] = "asInt"]

DelDupComple == Class(DelDupCompleH, "delete_DupCompletenessDiff", "asInt",
    <<"infoID", "deleteDupFailSet", "deleteDupSuccSet", "deleteDupCompletenessDiff">>)

CmpliDelFail == Class(CmpliDelFailH, "delete_EffectEvaDomainSet", "asInt",
    <<"infoID", "deleteEffectEvaDomainSet">>)

\* constructed from the text "dd", which is no JSON: it gets no further
RequstJsonData ==
    [Class(RequestJsonH, "TEST_info", "none",
           <<"objectHash", "objectSize", "objectSign", "title", "abstract", "keyWords", "category", "others",
             "recognizeResult">>) EXCEPT !.quit = TRUE]

Classes ==
    { CDelData, CDelCopyData, CNoticData, CNotifyAckData, CUnCpareDelData, CUnTrigerDelData, UnNotificationCfirm,
      CConsistData, CAlgStandardDiff, UnRecoverable, UnEfficaAlg, DelDupComple, CmpliDelFail, RequstJsonData }

-----------------------------------------------------------------------------
(* jsoncpp (external): a member of an object, null when it is missing, and *)
(* its conversions, which throw on a value they have no rule for.          *)

Thrown == "thrown"

Member(obj, m) == IF m \in DOMAIN obj THEN obj[m] ELSE [ty |-> "null", v |-> 0]

asString(x) ==
    CASE x.ty = "null" -> ""
      [] x.ty = "str"  -> x.v
      [] x.ty = "int"  -> ToString(x.v)
      [] x.ty = "obj"  -> Thrown

\* an integer from lo to hi, as text
AsNumber(x, lo, hi) ==
    CASE x.ty = "null" -> "0"
      [] x.ty = "int" /\ x.v \in lo..hi -> ToString(x.v)
      [] (x.ty = "int" /\ x.v \notin lo..hi) \/ x.ty \in {"str", "obj"} -> Thrown

asUInt(x) == AsNumber(x, 0, 2 * IntMax + 1)
asInt(x)  == AsNumber(x, -IntMax - 1, IntMax)

Called(call, x) ==
    CASE call = "asString" -> asString(x) [] call = "asUInt" -> asUInt(x) [] call = "asInt" -> asInt(x)

\* A member of a type gets what a conversion returned: a number keeps the lower
\* half in a uint16_t, wraps around in a uint32_t and is one character in a
\* string.
Assigned(type, call, x) ==
    LET got == Called(call, x)
        n   == IF x.ty = "int" THEN x.v ELSE 0
    IN CASE got = Thrown -> Thrown
         [] got # Thrown /\ type = "uint16_t" -> ToString(n % ShortMod)
         [] got # Thrown /\ type = "uint32_t" -> ToString(n % (2 * IntMax + 2))
         [] got # Thrown /\ type = "string" /\ call = "asInt" -> "char " \o got
         [] got # Thrown /\ (type = "int" \/ (type = "string" /\ call = "asString")) -> got

-----------------------------------------------------------------------------
(* DataInfoBase: the members every report has.  Missing strings are "NULL" *)

Leading == <<"systemID", "systemIP", "mainCMD", "subCMD", "evidenceID", "msgVersion", "submittime">>
Trailing == <<"dataHash", "datasign", "randomidentification">>
CommonMembers == Range(Leading) \union Range(Trailing)
Shorts == {"mainCMD", "subCMD", "msgVersion"}

\* the members' types in DataInfoBase.h
CommonType(m) == IF m \in Shorts THEN "uint16_t" ELSE IF m = "systemID" THEN "uint32_t" ELSE "string"

CommonMember(root, m) ==
    CASE CommonType(m) # "string" -> Assigned(CommonType(m), "asInt", Member(root, m))
      [] CommonType(m) = "string" -> IF m \in DOMAIN root THEN asString(root[m]) ELSE "NULL"

\* The data is read as a text too, which throws when it is an object, as it is
\* in every report that has contents.
SetCommonData(root) == [m \in CommonMembers \union {"data"} |-> CommonMember(root, m)]

-----------------------------------------------------------------------------
(* TurnStr2Obj and GetInserDataInOrder *)

\* the members under the data: none when it is missing or null, and no text or
\* number can be asked for one
Data(msg) == Member(msg.root, "data")
Under(msg, members) == IF Data(msg).ty = "obj" THEN members ELSE <<>>
Askable(msg) == Data(msg).ty \in {"obj", "null"}

\* every entry of the ACK set; the texts are put together when they are written
Acks(msg) ==
    LET acks == Under(msg, msg.acks)
    IN IF acks = <<>> THEN "" ELSE FoldLeft(LAMBDA a, b : a \o "," \o b, Head(acks), Tail(acks))

Content(c, msg) ==
    [m \in Range(c.cols) |->
        IF m = "dictAck" THEN Acks(msg)
        ELSE Assigned(c.header.types[m], c.calls[m], Member(Under(msg, msg.content), c.reads[m]))]

HasType(c) == "DataType" \in DOMAIN c.header.types

TurnStr2Obj(c, msg) ==
    Content(c, msg) @@
    (IF ~HasType(c) THEN <<>>
     ELSE "DataType" :> Assigned(c.header.types["DataType"], c.calls["DataType"], Member(Under(msg, msg.data), "DataType")))

\* DataType is not set by any constructor but CDelData's
Unset(c) ==
    [m \in Range(c.cols) |-> ""] @@
    (IF ~HasType(c) THEN <<>> ELSE "DataType" :> IF c.table = "delete_UnOrder" THEN "0" ELSE "garbage")

TypeColumn(c) == IF HasType(c) THEN <<"DataType">> ELSE <<>>

Columns(c) == Leading \o TypeColumn(c) \o c.cols \o Trailing

\* Removing the last comma of an empty ACK set removes the quote that opens it
QuotesMatch(c, obj) == "dictAck" \in Range(c.cols) => obj["dictAck"] # ""

\* the statement: its table, its columns, and the text at each place
Statement(c, common, obj) ==
    LET all == common @@ obj
        at  == Leading \o TypeColumn(c) \o c.vals \o Trailing
    IN [table |-> c.table, cols |-> Columns(c), vals |-> [i \in DOMAIN at |-> all[at[i]]],
        closed |-> QuotesMatch(c, obj)]

-----------------------------------------------------------------------------
VARIABLES
    class,  \* the class of the object
    msg,    \* the report
    pc,     \* "start", "made", "turned", "written", "thrown" or "exited"
    common, \* the members of DataInfoBase
    obj,    \* the members of the class
    result, \* what TurnStr2Obj returned, "none" if it was not called
    stmt    \* the statement, <<>> if there is none yet

vars == <<class, msg, pc, common, obj, result, stmt>>

Init ==
    /\ class \in Classes
    /\ msg \in Messages(class)
    /\ pc = "start" /\ common = <<>> /\ obj = <<>> /\ result = "none" /\ stmt = <<>>

AnyThrown(f) == \E m \in DOMAIN f : f[m] = Thrown

\* The constructor parses, or the process ends, and sets the common members,
\* which throws on a JSON text that is no object.
ConstructExits ==
    /\ pc = "start"
    /\ class.quit \/ msg.text = "no JSON"
    /\ pc' = "exited"
    /\ UNCHANGED <<class, msg, common, obj, result, stmt>>

ConstructThrows ==
    /\ pc = "start"
    /\ ~class.quit
    /\ msg.text = "no object" \/ (msg.text = "object" /\ AnyThrown(SetCommonData(msg.root)))
    /\ pc' = "thrown"
    /\ UNCHANGED <<class, msg, common, obj, result, stmt>>

Construct ==
    /\ pc = "start"
    /\ ~class.quit
    /\ msg.text = "object" /\ ~AnyThrown(SetCommonData(msg.root))
    /\ pc' = "made"
    /\ common' = SetCommonData(msg.root)
    /\ obj' = Unset(class)
    /\ UNCHANGED <<class, msg, result, stmt>>

Turn ==
    /\ pc = "made"
    /\ IF ~Askable(msg) \/ AnyThrown(TurnStr2Obj(class, msg))
       THEN pc' = "thrown" /\ UNCHANGED <<obj, result>>
       ELSE pc' = "turned" /\ obj' = TurnStr2Obj(class, msg) /\ result' = class.ok
    /\ UNCHANGED <<class, msg, common, stmt>>

\* A caller may ask for the statement without TurnStr2Obj, or in spite of what
\* it returned.
GetInserDataInOrder ==
    /\ pc \in {"made", "turned"}
    /\ stmt' = Statement(class, common, obj)
    /\ pc' = "written"
    /\ UNCHANGED <<class, msg, common, obj, result>>

Next == ConstructExits \/ ConstructThrows \/ Construct \/ Turn \/ GetInserDataInOrder

Spec == Init /\ [][Next]_vars

-----------------------------------------------------------------------------
(* Properties *)

\* what the column of a common member is to hold: the member of the report with
\* its name, and 0 or "NULL" if it is not there
Wanted(col) ==
    CASE CommonType(col) # "string" -> ToString(Member(msg.root, col).v)
      [] CommonType(col) = "string" -> IF col \in DOMAIN msg.root THEN asString(msg.root[col]) ELSE "NULL"

\* a common number that fits its member; another one is cut to its width
Fits(col) ==
    CommonType(col) # "string" =>
        Member(msg.root, col).v \in 0..(IF col \in Shorts THEN ShortMod - 1 ELSE IntMax)

\* what the column of a member of the contents holds in the object of a report
\* without contents: nothing, the number 0, or the character 0 where a class
\* stores a number in a string
Nothing(col) ==
    CASE class.header.types[col] # "string" -> "0"
      [] class.header.types[col] = "string" -> IF class.calls[col] = "asInt" THEN "char 0" ELSE ""

\* Every statement a class writes has a value for each of its columns and each
\* member of its header, and stores the report's common members under their own
\* names, whichever of them are missing or too large.  But it is never of a
\* report with contents: DataInfoBase's constructor has thrown on the data that
\* is an object, so a class that has turned a report has turned one without
\* data, and stores nothing in the columns of its contents; CNotifyAckData then
\* leaves a quote open.
ColumnsHoldMembers ==
    pc = "written" =>
        /\ Data(msg).ty # "obj"
        /\ Len(stmt.vals) = Len(stmt.cols)
        /\ class.header.names \subseteq Range(stmt.cols)
        /\ \A i \in DOMAIN stmt.cols :
              LET col == stmt.cols[i]
              IN IF col \in CommonMembers THEN Fits(col) => stmt.vals[i] = Wanted(col)
                 ELSE result # "none" => Data(msg).ty = "null" /\ stmt.vals[i] = Nothing(col)
        /\ stmt.closed <=> class # CNotifyAckData
=============================================================================
