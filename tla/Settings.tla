------------------------------ MODULE Settings ------------------------------
(***************************************************************************)
(* The ClickHouse settings sent with a query (src/src/settings.c).         *)
(*                                                                         *)
(* ClickHouse takes one list of settings per query, while each foreign     *)
(* table, the server and the session may have a list of their own.  As the *)
(* deparser meets a table it merges the table's settings into the plan's   *)
(* list, marking a setting the tables disagree on; the order is that of    *)
(* the join tree, and a table of a self-join is met twice.  When the scan  *)
(* begins, the defaults, the server's, the tables' and the session's       *)
(* settings are laid over one another and those the server's version does  *)
(* not know are dropped.                                                   *)
(***************************************************************************)
EXTENDS Integers, Sequences

CONSTANTS Tables,       \* foreign tables of a server
          Names,        \* names of settings
          Values,       \* their values
          Unset,        \* no value given
          Conflict,     \* DefElem without an argument: the tables disagree
          OptionLists,  \* what a settings option can be set to
          Default,      \* name -> value of the built-in list
          Since,        \* name -> the version that added it; 0: in every version
          MaxVersion    \* bound on the server's version; 0: not known

ASSUME ValuesAssumption ==
    Unset \notin Values /\ Conflict \notin Values /\ Unset # Conflict
ASSUME ListsAssumption == OptionLists \subseteq Seq(Names \X Values)
ASSUME DefaultAssumption == Default \in [Names -> Values \cup {Unset}]
ASSUME VersionAssumption == Since \in [Names -> Nat] /\ MaxVersion \in Nat

VARIABLES option,       \* table -> its settings option
          server,       \* the server's settings option
          session,      \* pg_clickhouse.session_settings
          version,      \* the connection's server version
          met,          \* tables the deparser has met
          merged,       \* the plan's table settings
          sent          \* the settings of the last query begun

vars == <<option, server, session, version, met, merged, sent>>

-----------------------------------------------------------------------------
(* overlay(NIL, list): the last value for each name                        *)
GivesLast(list, n, v) ==
    \E i \in 1..Len(list) :
        list[i] = <<n, v>> /\ \A j \in 1..Len(list) : j > i => list[j][1] # n

Last(list, n) ==
    IF \E v \in Values : GivesLast(list, n, v)
    THEN CHOOSE v \in Values : GivesLast(list, n, v)
    ELSE Unset

Parsed(list) == [n \in Names |-> Last(list, n)]

TableSettings(t) == Parsed(option[t])

(* chfdw_merge_settings *)
MergeValue(a, b) ==
    IF b = Unset THEN a
    ELSE IF a = Unset \/ a = b THEN b
    ELSE Conflict

(* a conflict that the next table to set the name would settle             *)
ForgetfulMerge(a, b) == [n \in Names |-> IF a[n] = Conflict /\ b[n] # Unset THEN b[n]
                                         ELSE MergeValue(a[n], b[n])]

MergeSettings(a, b) == [n \in Names |-> MergeValue(a[n], b[n])]

(* overlay *)
Overlay(base, over) == [n \in Names |-> IF over[n] = Unset THEN base[n] ELSE over[n]]

ConflictsKept(s) == s

WithArgument(s) == [n \in Names |-> IF s[n] = Conflict THEN Unset ELSE s[n]]

(* drop_unsupported: an unknown version drops nothing                      *)
DropUnsupported(s) ==
    [n \in Names |-> IF version # 0 /\ version < Since[n] THEN Unset ELSE s[n]]

TablesLast ==
    DropUnsupported(
        Overlay(Overlay(Overlay(Default, Parsed(server)), Parsed(session)), WithArgument(merged)))

(* chfdw_query_settings *)
QuerySettings ==
    DropUnsupported(
        Overlay(Overlay(Overlay(Default, Parsed(server)), WithArgument(merged)), Parsed(session)))

-----------------------------------------------------------------------------
NoSettings == [n \in Names |-> Unset]

Init ==
    /\ option \in [Tables -> OptionLists]
    /\ server \in OptionLists /\ session \in OptionLists
    /\ version \in 0..MaxVersion
    /\ met = {} /\ merged = NoSettings /\ sent = NoSettings

(* deparseFromExprForRel and the FROM clause of a subquery: a table is met *)
DeparseTable(t) ==
    /\ met' = met \cup {t}
    /\ merged' = MergeSettings(merged, TableSettings(t))
    /\ UNCHANGED <<option, server, session, version, sent>>

(* clickhouseBeginForeignScan *)
BeginForeignScan ==
    /\ met # {}
    /\ sent' = QuerySettings
    /\ UNCHANGED <<option, server, session, version, met, merged>>

(* another query is planned, or this one again after a relcache message    *)
PlanAgain ==
    /\ met' = {} /\ merged' = NoSettings
    /\ UNCHANGED <<option, server, session, version, sent>>

AlterTable(t) ==
    /\ \E list \in OptionLists : option' = [option EXCEPT ![t] = list]
    /\ met' = {} /\ merged' = NoSettings
    /\ UNCHANGED <<server, session, version, sent>>

AlterServer ==
    /\ server' \in OptionLists
    /\ UNCHANGED <<option, session, version, met, merged, sent>>

SetSession ==
    /\ session' \in OptionLists
    /\ UNCHANGED <<option, server, version, met, merged, sent>>

Next ==
    \/ \E t \in Tables : DeparseTable(t) \/ AlterTable(t)
    \/ BeginForeignScan \/ PlanAgain \/ AlterServer \/ SetSession

Spec == Init /\ [][Next]_vars

-----------------------------------------------------------------------------
Setting == [Names -> Values \cup {Unset}]

TypeOK ==
    /\ option \in [Tables -> OptionLists]
    /\ server \in OptionLists /\ session \in OptionLists
    /\ version \in 0..MaxVersion
    /\ met \subseteq Tables
    /\ merged \in [Names -> Values \cup {Unset, Conflict}]
    /\ sent \in Setting

(* what the tables of a query say of a setting, whatever order they are in *)
Says(ts, n) == {TableSettings(t)[n] : t \in ts} \ {Unset}

(* The merged settings are what the tables met agree on: a name none of    *)
(* them sets is absent, a value is that of every table that sets it, and a *)
(* conflict stays one, in whatever order and however often a table is met  *)
(* (chfdw_merge_settings).                                                 *)
MergedIsAgreement ==
    \A n \in Names :
        /\ merged[n] = Unset <=> Says(met, n) = {}
        /\ \A v \in Values : merged[n] = v <=> Says(met, n) = {v}

(* "built-in defaults, server settings, table settings, then session       *)
(* settings. Let later values replace earlier ones", where tables that     *)
(* disagree count for nothing and a name the server is too old for is left *)
(* out (chfdw_query_settings).                                             *)
Declared(n) ==
    LET fromSession == Parsed(session)[n]
        fromServer  == Parsed(server)[n]
    IN  IF version # 0 /\ version < Since[n] THEN Unset
        ELSE IF fromSession # Unset THEN fromSession
        ELSE IF \E v \in Values : Says(met, n) = {v} THEN CHOOSE v \in Values : Says(met, n) = {v}
        ELSE IF fromServer # Unset THEN fromServer
        ELSE Default[n]

SentAsDeclared == [][sent' # sent => \A n \in Names : sent'[n] = Declared(n)]_vars
=============================================================================
