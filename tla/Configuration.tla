---------------------------- MODULE Configuration ----------------------------
(* The configuration file of the daemon: what cw_save_config writes        *)
(* (util/config/xml/config_writer.c) and what cr_init makes of it          *)
(* (util/config/xml/config_reader.c).  A document is the sequence of tags  *)
(* that expat reports to the handlers; its texts are strings, and a value  *)
(* in memory is named by the text that its number is printed as in full.   *)
EXTENDS Sequences, SequencesExt

CONSTANTS Text,     \* texts of attributes
          Level,    \* the log levels of logger.h
          Decimal,  \* texts that atoi reads in full
          Short,    \* those of at most nine characters
          Printed,  \* what snprintf prints of a number into ten bytes
          Ascii,    \* texts of ASCII characters
          Recoded   \* what is read of a text that was written in UTF-8 into
                    \* a document that is declared to be in ISO-8859-1

None == "none"      \* a log level that parse_loglevel_val does not know (-1)

\* The texts that the program writes, or names a value by, are some of them.
ASSUME TextAssumption ==
  /\ Level \subseteq Text /\ Decimal \subseteq Text
  /\ {"true", "false", "1", "0", "-1", None, "LOG_FAILURE"} \subseteq Text

\* Numbers that fit are printed in full; ASCII is the same in both encodings.
ASSUME ConversionAssumption ==
  /\ Printed \in [Text -> Text] /\ Short \subseteq Decimal
  /\ \A n \in Short : Printed[n] = n
  /\ Recoded \in [Text -> Text] /\ Ascii \subseteq Text
  /\ \A t \in Ascii : Recoded[t] = t

Outermost == "config"

\* The element inside of which cr_elem_start and cr_elem_end look for one.
Parent ==
  [accounts |-> "config", accountmanagement |-> "accounts",
   list |-> "accounts", account |-> "list",
   core |-> "config", events |-> "core", dispatcher |-> "events",
   sipoutput |-> "core", registrarmanager |-> "sipoutput",
   remote |-> "config", callback |-> "remote", xmlrpcclient |-> "callback",
   server |-> "remote", xmlrpcserver |-> "server",
   sipstack |-> "config", exosipadapter |-> "sipstack",
   util |-> "config", logging |-> "util", simplelogger |-> "logging",
   console |-> "simplelogger", file |-> "simplelogger",
   threadmanagement |-> "util", threads |-> "threadmanagement"]

\* The attributes that hold settings, and the type of each.
Attributes ==
  [accountmanagement |-> [maxaccountidamount |-> "int", maxvaluelength |-> "int"],
   dispatcher |-> [maxcalls |-> "int", maxevents |-> "int"],
   registrarmanager |-> [expire |-> "int", preexpirerange |-> "int",
                         timeout |-> "int"],
   xmlrpcclient |-> [name |-> "string", version |-> "string"],
   xmlrpcserver |-> [port |-> "int", registerprefix |-> "string",
                     logfilename |-> "string"],
   exosipadapter |-> [port |-> "int"],
   console |-> [enabled |-> "bool", loglevel |-> "level"],
   file |-> [enabled |-> "bool", filename |-> "string", loglevel |-> "level",
             withtime |-> "bool", verbose |-> "bool", threadid |-> "bool"],
   threads |-> [maxamount |-> "int"]]

Setting == UNION {{<<e, a>> : a \in DOMAIN Attributes[e]} : e \in DOMAIN Attributes}
TypeOf(s) == Attributes[s[1]][s[2]]
-----------------------------------------------------------------------------
(* Conversions                                                             *)

parse_bool(text) == CASE text = "true" -> "1" [] text = "false" -> "0" [] OTHER -> "-1"
bool_to_str(b) == IF b = "0" THEN "false" ELSE "true"

parse_loglevel_val(text) == IF text \in Level THEN text ELSE None

\* Plausible mistake in loglevel_to_str: a level is missing.
loglevel_to_str_short(lev) ==
  IF lev \in Level \ {"LOG_WARNING"} THEN lev ELSE "LOG_FAILURE"

loglevel_to_str(lev) == IF lev \in Level THEN lev ELSE "LOG_FAILURE"

parse_int(text) == IF text \in Decimal THEN text ELSE "0"

Read(type, text) ==
  CASE type = "bool" -> parse_bool(text)
    [] type = "level" -> parse_loglevel_val(text)
    [] type = "int" -> parse_int(text)
    [] type = "string" -> text

\* The text of a value in the document, as it will be read again.
Written(type, value) ==
  CASE type = "bool" -> bool_to_str(value)
    [] type = "level" -> loglevel_to_str(value)
    [] type = "int" -> Printed[value]
    [] type = "string" -> Recoded[value]
-----------------------------------------------------------------------------
(* Writing                                                                 *)

Start(name, attr) == [tag |-> "start", name |-> name, attr |-> attr]
End(name) == [tag |-> "end", name |-> name, attr |-> <<>>]
Around(name, inner) == <<Start(name, <<>>)>> \o inner \o <<End(name)>>
Element(name, attr) == <<Start(name, attr), End(name)>>

\* The document with these texts of the settings and of the accounts.
Layout(text, accounts) ==
  LET Leaf(name) ==
        Element(name, [a \in DOMAIN Attributes[name] |-> text[<<name, a>>]])
  IN Around("config",
          Around("accounts",
                 Leaf("accountmanagement")
              \o Around("list", FlattenSeq([i \in DOMAIN accounts |->
                                              Element("account", accounts[i])])))
       \o Around("core",
                 Around("events", Leaf("dispatcher"))
              \o Around("sipoutput", Leaf("registrarmanager")))
       \o Around("remote",
                 Around("callback", Leaf("xmlrpcclient"))
              \o Around("server", Leaf("xmlrpcserver")))
       \o Around("sipstack", Leaf("exosipadapter"))
       \o Around("util",
                 Around("logging",
                        Around("simplelogger", Leaf("console") \o Leaf("file")))
              \o Around("threadmanagement", Leaf("threads"))))

\* What cw_save_config writes of the settings.
Texts(config) == [s \in Setting |-> Written(TypeOf(s), config[s])]
-----------------------------------------------------------------------------
(* Reading                                                                 *)

\* The handlers take an element only where they know its parent to be open.
Expected(reader, name) ==
  name = Outermost \/ (name \in DOMAIN Parent /\ Parent[name] \in reader.within)

\* The attributes of an element as settings; those it does not know are skipped.
Assigned(tag) ==
  IF tag.name \notin DOMAIN Attributes THEN <<>>
  ELSE LET known == {<<tag.name, a>> : a \in DOMAIN tag.attr} \cap Setting
       IN [s \in known |-> Read(TypeOf(s), tag.attr[s[2]])]

\* Settings after these values were assigned to some of them.
With(config, assigned) ==
  [s \in DOMAIN config \cup DOMAIN assigned |->
     IF s \in DOMAIN assigned THEN assigned[s] ELSE config[s]]

\* list and the settings grow with every element, before the end is seen.
cr_elem_start(reader, tag) ==
  IF ~Expected(reader, tag.name) THEN reader
  ELSE IF tag.name = "account"
       THEN [reader EXCEPT !.accounts = Append(@, tag.attr)]
       ELSE [reader EXCEPT !.within = @ \cup {tag.name},
                           !.config = With(@, Assigned(tag))]

cr_elem_end(reader, tag) ==
  IF Expected(reader, tag.name)
  THEN [reader EXCEPT !.within = @ \ {tag.name}] ELSE reader

Handle(reader, tag) ==
  IF tag.tag = "start" THEN cr_elem_start(reader, tag) ELSE cr_elem_end(reader, tag)

\* The configuration and the accounts that a whole document leaves in memory.
Parsed(document, config) ==
  LET after[k \in 0..Len(document)] ==
        IF k = 0 THEN [within |-> {}, config |-> config, accounts |-> <<>>]
        ELSE Handle(after[k - 1], document[k])
  IN after[Len(document)]

\* What the program makes of a value: a flag is tested for being zero only.
Meaning(s, value) == IF TypeOf(s) = "bool" THEN value # "0" ELSE value

\* The values that the document has a form for: every flag, the levels that the
\* reader knows, short numbers, and texts in ASCII.
Writable(s) ==
  CASE TypeOf(s) = "bool" -> Text
    [] TypeOf(s) = "level" -> Level
    [] TypeOf(s) = "int" -> Short
    [] TypeOf(s) = "string" -> Ascii
=============================================================================
