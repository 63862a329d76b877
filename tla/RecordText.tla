------------------------------ MODULE RecordText ------------------------------
(***************************************************************************)
(* The text of a transaction record in the journal: what BackupStore       *)
(* writes into a file and what it makes of a file it finds, which may be   *)
(* only the beginning of what was written, or come from an older version.  *)
(*                                                                         *)
(* A record in memory is a tree of JSON values in which every member has   *)
(* its value.  The text is a sequence of symbols: the punctuation, a key,  *)
(* a number, or one character of a string.  Numbers beyond Exact lose      *)
(* their last bit when they are read as a double.                          *)
(***************************************************************************)
EXTENDS Integers, Sequences, SequencesExt, FiniteSets

CONSTANTS
    Trees,   \* the records, as trees
    Exact    \* greatest integer a double holds

VARIABLES
    tree,    \* the record that is saved
    version, \* "now" or "old": which version of the program saved it
    length   \* how much of the text has reached the file

recordVars == <<tree, version, length>>

ASSUME RecordTextAssumption == Exact \in Nat

Num(n) == [k |-> "num", v |-> n]
Str(s) == [k |-> "str", v |-> s]
Bool(b) == [k |-> "bool", v |-> b]
Arr(s) == [k |-> "arr", v |-> s]
Obj(f) == [k |-> "obj", v |-> f]

-----------------------------------------------------------------------------
(* The writers.  A member is written under a key; what has a $type has its *)
(* own members.                                                            *)

WrittenRegistry == <<<<"existed", "existed">>, <<"value", "value">>, <<"key_existed", "key_existed">>>>

WrittenValue ==
    [none |-> <<>>,
     dns |-> <<<<"automatic", "automatic">>, <<"servers", "servers">>>>,
     mtu |-> <<<<"bytes", "bytes">>>>,
     tcp |-> <<<<"settings", "settings">>>>,
     power_plan |-> <<<<"identifier", "identifier">>>>,
     game_dvr |-> <<<<"game_dvr_enabled", "game_dvr_enabled">>,
                    <<"app_capture_enabled", "app_capture_enabled">>>>,
     fullscreen |-> <<<<"existed", "existed">>, <<"compatibility_flags", "compatibility_flags">>,
                      <<"key_existed", "key_existed">>>>,
     priority |-> <<<<"level", "level">>>>,
     cs2maxping |-> <<<<"max_ping", "max_ping">>>>,
     registrydata |-> <<<<"value", "data">>>>,
     mouseaccel |-> <<<<"speed", "speed">>, <<"t1", "threshold1">>, <<"t2", "threshold2">>>>]

WrittenTarget ==
    [none |-> <<>>,
     interface |-> <<<<"id", "id">>, <<"index", "index">>>>,
     executable |-> <<<<"path", "path">>>>,
     process |-> <<<<"pid", "pid">>, <<"creation_time", "creation_time">>, <<"path", "path">>>>]

WrittenState == <<<<"id", "id">>, <<"status", "status">>, <<"value", "value">>, <<"detail", "detail">>>>

WrittenPrepared == <<<<"id", "id">>, <<"target", "target">>, <<"before", "before">>,
                     <<"proposed", "proposed">>, <<"safe", "safe">>>>

WrittenOutcome ==
    <<<<"id", "id">>, <<"status", "status">>, <<"error", "error">>, <<"state", "state">>,
      <<"attempted", "attempted">>, <<"rollback_attempted", "rollback_attempted">>,
      <<"rollback_error", "rollback_error">>, <<"detail", "detail">>,
      <<"rollback_detail", "rollback_detail">>>>

WrittenRecord ==
    <<<<"schema_version", "schema_version">>, <<"transaction_id", "transaction_id">>,
      <<"status", "status">>, <<"created_at", "created_at">>,
      <<"prepared_actions", "prepared_actions">>, <<"outcomes", "outcomes">>,
      <<"action_order", "action_order">>, <<"applied_action_order", "applied_action_order">>,
      <<"error", "error">>, <<"detail", "detail">>>>

\* The members of a part, by what the part is.
Writes(part, type) ==
    CASE part = "record" -> WrittenRecord
      [] part = "prepared" -> WrittenPrepared
      [] part = "outcome" -> WrittenOutcome
      [] part = "state" -> WrittenState
      [] part = "registry" -> WrittenRegistry
      [] part = "setting" -> <<<<"parameter", "parameter">>, <<"existed", "existed">>, <<"value", "value">>>>
      [] part = "value" -> WrittenValue[type]
      [] part = "target" -> WrittenTarget[type]

\* What a member is: a leaf, a part, or a list of leaves or parts.
PartOf(part, member) ==
    CASE member = "prepared_actions" -> "prepared"
      [] member = "outcomes" -> "outcome"
      [] member \in {"before", "proposed", "state"} -> "state"
      [] member = "value" /\ part = "state" -> "value"
      [] member = "target" -> "target"
      [] member \in {"game_dvr_enabled", "app_capture_enabled", "data"} -> "registry"
      [] member = "settings" -> "setting"
      [] OTHER -> "leaf"

-----------------------------------------------------------------------------
(* The text.                                                               *)

Sign(s) == [s |-> s, n |-> 0]
Digits(n) == [s |-> "number", n |-> n]

\* Mutant: the backslash of a path is written as it is.
EscapeQuoteOnly(c) == IF c = "quote" THEN <<Sign("backslash"), Sign("quote")>> ELSE <<Sign(c)>>

\* escapeInto: quote, backslash and the control characters.
Escape(c) ==
    IF c \in {"quote", "backslash"} THEN <<Sign("backslash"), Sign(c)>>
    ELSE IF c = "control" THEN <<Sign("backslash"), Sign("u"), Sign(c)>>
    ELSE <<Sign(c)>>

Quoted(s) == <<Sign("quote")>> \o FoldLeft(LAMBDA t, c : t \o Escape(c), <<>>, s) \o <<Sign("quote")>>

Listed(texts, open, close) ==
    <<Sign(open)>>
        \o FoldLeft(LAMBDA t, i : t \o (IF i = 1 THEN <<>> ELSE <<Sign(",")>>) \o texts[i],
                    <<>>, [i \in 1..Len(texts) |-> i])
        \o <<Sign(close)>>

\* The old version wrote no created_at, and the creation time as a number.
LeftOut(member) == version = "old" /\ member = "created_at"
AsString(member) == member = "creation_time" /\ version = "now"

RECURSIVE WriteTree(_, _, _)
WriteTree(j, part, member) ==
    CASE j.k = "num" -> IF AsString(member) THEN <<Sign("quote"), Digits(j.v), Sign("quote")>>
                        ELSE <<Digits(j.v)>>
      [] j.k = "str" -> Quoted(j.v)
      [] j.k = "bool" -> <<Sign(IF j.v THEN "true" ELSE "false")>>
      [] j.k = "arr" -> Listed([i \in 1..Len(j.v) |-> WriteTree(j.v[i], part, member)], "[", "]")
      [] j.k = "obj" ->
            LET type == IF "type" \in DOMAIN j.v THEN j.v["type"] ELSE "none"
                fields == SelectSeq(Writes(part, type), LAMBDA f : ~LeftOut(f[2]))
                tag == IF "type" \in DOMAIN j.v
                       THEN <<<<Sign("$type"), Sign(":"), Sign(type)>>>> ELSE <<>>
            IN  Listed(tag \o [i \in 1..Len(fields) |->
                                 <<Sign(fields[i][1]), Sign(":")>>
                                     \o WriteTree(j.v[fields[i][2]], PartOf(part, fields[i][2]), fields[i][2])],
                       "{", "}")

\* serializeRecord
RecordTextOf == WriteTree(tree, "record", "")

-----------------------------------------------------------------------------
(* The parser.  A result is [at, value]; at is 0 when the text is refused. *)

Refused == [at |-> 0, value |-> Num(0)]
At(text, p) == IF p <= Len(text) THEN text[p].s ELSE "end"

\* A key or the name of a $type is one symbol.
IsName(s) == s \notin {"{", "}", "[", "]", ",", ":", "quote", "number", "true", "false", "end"}

\* parseString, from behind the opening quote.
RECURSIVE StringFrom(_, _, _)
StringFrom(text, p, s) ==
    CASE At(text, p) = "quote" -> [at |-> p + 1, value |-> Str(s)]
      [] At(text, p) = "end" -> Refused
      [] At(text, p) = "number" -> StringFrom(text, p + 1, Append(s, text[p].n))
      [] At(text, p) = "backslash" ->
            CASE At(text, p + 1) \in {"quote", "backslash"} -> StringFrom(text, p + 2, Append(s, At(text, p + 1)))
              [] At(text, p + 1) = "u" /\ At(text, p + 2) = "control" -> StringFrom(text, p + 3, Append(s, "control"))
              [] OTHER -> Refused
      [] OTHER -> StringFrom(text, p + 1, Append(s, At(text, p)))

\* parseNumber: a double.
AsDouble(n) == IF n <= Exact THEN n ELSE n - (n % 2)

RECURSIVE ValueFrom(_, _), ItemsFrom(_, _, _), FieldsFrom(_, _, _)

ValueFrom(text, p) ==
    CASE At(text, p) = "{" -> IF At(text, p + 1) = "}" THEN [at |-> p + 2, value |-> Obj(<<>>)]
                              ELSE FieldsFrom(text, p + 1, <<>>)
      [] At(text, p) = "[" -> IF At(text, p + 1) = "]" THEN [at |-> p + 2, value |-> Arr(<<>>)]
                              ELSE ItemsFrom(text, p + 1, <<>>)
      [] At(text, p) = "quote" -> StringFrom(text, p + 1, <<>>)
      [] At(text, p) \in {"true", "false"} -> [at |-> p + 1, value |-> Bool(At(text, p) = "true")]
      [] At(text, p) = "number" -> [at |-> p + 1, value |-> Num(AsDouble(text[p].n))]
      [] IsName(At(text, p)) -> [at |-> p + 1, value |-> [k |-> "name", v |-> At(text, p)]]
      [] OTHER -> Refused

\* parseArray, from an item on.
ItemsFrom(text, p, items) ==
    LET item == ValueFrom(text, p)
        all == Append(items, item.value)
    IN  CASE item.at = 0 -> Refused
          [] item.at > 0 /\ At(text, item.at) = "," -> ItemsFrom(text, item.at + 1, all)
          [] item.at > 0 /\ At(text, item.at) = "]" -> [at |-> item.at + 1, value |-> Arr(all)]
          [] OTHER -> Refused

\* Mutant: the end of the text ends an object.
FieldsFromToTheEnd(text, p, fields) ==
    LET item == ValueFrom(text, p + 2)
        all == Append(fields, <<At(text, p), item.value>>)
    IN  IF ~IsName(At(text, p)) \/ At(text, p + 1) # ":" \/ item.at = 0 THEN Refused
        ELSE CASE At(text, item.at) = "," -> FieldsFrom(text, item.at + 1, all)
               [] At(text, item.at) = "}" -> [at |-> item.at + 1, value |-> Obj(all)]
               [] item.at > Len(text) -> [at |-> item.at, value |-> Obj(all)]
               [] OTHER -> Refused

\* parseObject, from a key on.
FieldsFrom(text, p, fields) ==
    LET item == ValueFrom(text, p + 2)
        all == Append(fields, <<At(text, p), item.value>>)
    IN  IF ~IsName(At(text, p)) \/ At(text, p + 1) # ":" \/ item.at = 0 THEN Refused
        ELSE CASE At(text, item.at) = "," -> FieldsFrom(text, item.at + 1, all)
               [] At(text, item.at) = "}" -> [at |-> item.at + 1, value |-> Obj(all)]
               [] OTHER -> Refused

-----------------------------------------------------------------------------
(* The readers.  A member whose key is missing, or of another kind, has    *)
(* its default.                                                            *)

Found(j, key) == {i \in DOMAIN j.v : j.v[i][1] = key}

\* Json::find, str, booleanOr, uint32Or, int32Or
Get(j, key, default) ==
    IF Found(j, key) = {} THEN default
    ELSE LET value == j.v[CHOOSE i \in Found(j, key) : TRUE][2]
         IN  IF value.k = default.k THEN value ELSE default

TypeIn(j) == IF Found(j, "$type") = {} THEN "none" ELSE j.v[CHOOSE i \in Found(j, "$type") : TRUE][2].v

Empty == Str(<<>>)
NoField == [k |-> "obj", v |-> <<>>]

ReadRegistry(j) ==
    Obj([existed |-> Get(j, "existed", Bool(FALSE)), value |-> Get(j, "value", Num(0)),
         key_existed |-> Get(j, "key_existed", Bool(FALSE))])

ReadSetting(j) ==
    Obj([parameter |-> Get(j, "parameter", Num(0)), existed |-> Get(j, "existed", Bool(FALSE)),
         value |-> Get(j, "value", Num(0))])

EachOf(list, Reader(_)) == Arr([i \in DOMAIN list.v |-> Reader(list.v[i])])

\* readValue
ReadValue(j) ==
    LET type == TypeIn(j)
        Text(key) == Get(j, key, Empty)
        Of(key, n) == Get(j, key, Num(n))
        Is(key, b) == Get(j, key, Bool(b))
    IN  Obj(CASE type = "dns" -> [type |-> type, automatic |-> Is("automatic", TRUE),
                                  servers |-> Get(j, "servers", Arr(<<>>))]
              [] type = "mtu" -> [type |-> type, bytes |-> Of("bytes", 1500)]
              [] type = "tcp" -> [type |-> type,
                                  settings |-> EachOf(Get(j, "settings", Arr(<<>>)), ReadSetting)]
              [] type = "power_plan" -> [type |-> type, identifier |-> Text("identifier")]
              [] type = "game_dvr" ->
                    [type |-> type,
                     game_dvr_enabled |-> ReadRegistry(Get(j, "game_dvr_enabled", NoField)),
                     app_capture_enabled |-> ReadRegistry(Get(j, "app_capture_enabled", NoField))]
              [] type = "fullscreen" ->
                    [type |-> type, existed |-> Is("existed", FALSE),
                     compatibility_flags |-> Text("compatibility_flags"),
                     key_existed |-> Is("key_existed", FALSE)]
              [] type = "priority" -> [type |-> type, level |-> Of("level", 0)]
              [] type = "cs2maxping" -> [type |-> type, max_ping |-> Of("max_ping", 60)]
              [] type = "registrydata" -> [type |-> type, data |-> ReadRegistry(Get(j, "value", NoField))]
              [] type = "mouseaccel" ->
                    [type |-> type, speed |-> Of("speed", 0), threshold1 |-> Of("t1", 0),
                     threshold2 |-> Of("t2", 0)]
              [] OTHER -> [type |-> "none"])

ReadState(j) ==
    Obj([id |-> Get(j, "id", Num(0)), status |-> Get(j, "status", Num(0)),
         value |-> ReadValue(Get(j, "value", NoField)), detail |-> Get(j, "detail", Empty)])

\* The time a process was created: a string of digits, a number in old records.
ReadCreated(j) ==
    IF Get(j, "creation_time", Empty).v # <<>> THEN Num(Get(j, "creation_time", Empty).v[1])
    ELSE Get(j, "creation_time", Num(0))

ReadTarget(j) ==
    LET type == TypeIn(j)
    IN  Obj(CASE type = "interface" ->
                    [type |-> type, id |-> Get(j, "id", Empty), index |-> Get(j, "index", Num(0))]
              [] type = "executable" -> [type |-> type, path |-> Get(j, "path", Empty)]
              [] type = "process" ->
                    [type |-> type, pid |-> Get(j, "pid", Num(0)), creation_time |-> ReadCreated(j),
                     path |-> Get(j, "path", Empty)]
              [] OTHER -> [type |-> "none"])

ReadPrepared(j) ==
    Obj([id |-> Get(j, "id", Num(0)), target |-> ReadTarget(Get(j, "target", NoField)),
         before |-> ReadState(Get(j, "before", NoField)), proposed |-> ReadState(Get(j, "proposed", NoField)),
         safe |-> Get(j, "safe", Bool(FALSE))])

ReadOutcome(j) ==
    Obj([id |-> Get(j, "id", Num(0)), status |-> Get(j, "status", Num(0)),
         error |-> Get(j, "error", Num(0)), state |-> ReadState(Get(j, "state", NoField)),
         attempted |-> Get(j, "attempted", Bool(FALSE)),
         rollback_attempted |-> Get(j, "rollback_attempted", Bool(FALSE)),
         rollback_error |-> Get(j, "rollback_error", Num(0)), detail |-> Get(j, "detail", Empty),
         rollback_detail |-> Get(j, "rollback_detail", Empty)])

\* parseIntArray: up to the first that is not a number.
ReadOrder(list) ==
    LET foreign == {i \in DOMAIN list.v : list.v[i].k # "num"}
    IN  Arr(IF foreign = {} THEN list.v
            ELSE SubSeq(list.v, 1, (CHOOSE i \in foreign : \A j \in foreign : i <= j) - 1))

ReadRecord(j) ==
    LET List(key) == Get(j, key, Arr(<<>>))
    IN  Obj([schema_version |-> Get(j, "schema_version", Num(1)),
             transaction_id |-> Get(j, "transaction_id", Empty), status |-> Get(j, "status", Num(0)),
             created_at |-> Get(j, "created_at", Empty),
             prepared_actions |-> EachOf(List("prepared_actions"), ReadPrepared),
             outcomes |-> EachOf(List("outcomes"), ReadOutcome),
             action_order |-> ReadOrder(List("action_order")),
             applied_action_order |-> ReadOrder(List("applied_action_order")),
             error |-> Get(j, "error", Num(0)), detail |-> Get(j, "detail", Empty)])

Corrupted == Obj(<<>>)

\* JsonParser::parse: the whole text is one value.
Parsed(text) ==
    LET root == ValueFrom(text, 1)
    IN  IF root.at # Len(text) + 1 THEN Corrupted ELSE root.value

\* Mutant: a record needs its time.
DeserializedWithTime(text) ==
    LET root == Parsed(text)
    IN  IF root.k # "obj" \/ root = Corrupted THEN Corrupted
        ELSE IF Empty \in {Get(root, "transaction_id", Empty), Get(root, "created_at", Empty)} THEN Corrupted
        ELSE ReadRecord(root)

\* deserializeRecord, load: a record without an identifier is no record.
Deserialized(text) ==
    LET root == Parsed(text)
    IN  IF root.k # "obj" \/ root = Corrupted THEN Corrupted
        ELSE IF Get(root, "transaction_id", Empty) = Empty THEN Corrupted
        ELSE ReadRecord(root)

-----------------------------------------------------------------------------
RecordInit == tree \in Trees /\ version \in {"now", "old"} /\ length = 0

\* The stream writes on, or stops here for good when the disk is full or the
\* machine loses its power.
WriteOn == length < Len(RecordTextOf) /\ length' = length + 1 /\ UNCHANGED <<tree, version>>

RecordSpec == RecordInit /\ [][WriteOn]_recordVars

InFile == SubSeq(RecordTextOf, 1, length)

-----------------------------------------------------------------------------
RecordTypeOK == tree \in Trees /\ version \in {"now", "old"} /\ length \in 0..Len(RecordTextOf)

\* JsonBackupStore::load: a record that was saved is read back as it was,
\* whatever its values and targets are, with every quote and backslash of
\* its paths and the full time its process was created.
RoundTrip == version = "now" /\ length = Len(RecordTextOf) => Deserialized(InFile) = tree

\* A file that holds only the beginning of a record is refused: it is never
\* taken for a transaction with fewer changes to revert.
PartIsRefused == length < Len(RecordTextOf) => Deserialized(InFile) = Corrupted

\* backup_store.cpp, deserializeRecord: the records of older versions stay
\* readable; their time comes from the file, and a rollback finds the same
\* actions and values in them.
OldIsReadable ==
    version = "old" /\ length = Len(RecordTextOf) =>
        LET read == Deserialized(InFile)
        IN  /\ read # Corrupted
            /\ read.v.created_at = Empty
            /\ \A m \in {"status", "action_order", "applied_action_order", "outcomes"} : read.v[m] = tree.v[m]
            /\ \A i \in DOMAIN tree.v.prepared_actions.v :
                  read.v.prepared_actions.v[i].v.before = tree.v.prepared_actions.v[i].v.before

\* A record is read back as it was saved, or refused: all of the above.
RecordsAreReadBack == RoundTrip /\ PartIsRefused /\ OldIsReadable
=============================================================================
