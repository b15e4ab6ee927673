------------------------------ MODULE Settings ------------------------------
(***************************************************************************)
(* The settings (config/config.go and the first half of main in main.go):  *)
(* the defaults, settings.properties over them, and the command line over  *)
(* both; the file that a first start writes; the port that is opened.      *)
(*                                                                         *)
(* A text is the value that stands behind a key, read as what the key is:  *)
(* a string, a number, a list of pairs.  Malformed is any text that is no  *)
(* number or no pair.                                                      *)
(***************************************************************************)
EXTENDS Integers, Sequences, FiniteSetsExt

CONSTANTS
  Malformed,            \* a text that cannot be read as what it should be
  BreakDetectSupported  \* whether the platform has break detection

StringKey == {"comPort", "artnetDest", "artnetBind"}
IntKey    == {"channels", "artnetUniverse", "mergeTimeout"}
BoolKey   == {"noBreakDetect", "quiet", "artnet"}
Key       == StringKey \cup IntKey \cup BoolKey \cup {"mergeInputs"}

Defaults ==
  [comPort |-> "", channels |-> 512, noBreakDetect |-> FALSE, quiet |-> FALSE,
   artnet |-> FALSE, artnetDest |-> "255.255.255.255", artnetUniverse |-> 0,
   artnetBind |-> "", mergeInputs |-> <<>>, mergeTimeout |-> 5]

----------------------------------------------------------------------------
(* The file: missing, unreadable, or lines of a key and a text each.       *)

Line(k, t) == [key |-> k, text |-> t]

Missing      == [kind |-> "missing", lines |-> <<>>]
Unreadable   == [kind |-> "unreadable", lines |-> <<>>]
Readable(ls) == [kind |-> "lines", lines |-> ls]

\* Mutant: the template promises another timeout than Defaults.
ForgetfulTemplate ==
  <<Line("comPort", ""), Line("channels", 512), Line("noBreakDetect", "false"),
    Line("quiet", "false"), Line("artnet", "false"),
    Line("artnetDest", "255.255.255.255"), Line("artnetUniverse", 0),
    Line("artnetBind", ""), Line("mergeInputs", <<>>), Line("mergeTimeout", 0)>>

\* defaultTemplate.
Template ==
  <<Line("comPort", ""), Line("channels", 512), Line("noBreakDetect", "false"),
    Line("quiet", "false"), Line("artnet", "false"),
    Line("artnetDest", "255.255.255.255"), Line("artnetUniverse", 0),
    Line("artnetBind", ""), Line("mergeInputs", <<>>), Line("mergeTimeout", 5)>>

\* LoadProperties: the last line of a key counts.
LoadProperties(lines) ==
  [k \in {lines[i].key : i \in DOMAIN lines} |->
     lines[Max({i \in DOMAIN lines : lines[i].key = k})].text]

\* A number that cannot be read leaves the setting as it is.
Valid(k, text) == k \in IntKey => text \in Int

\* A malformed pair is skipped.
ParseMergeInputs(text) ==
  LET upto[n \in 0..Len(text)] ==
        IF n = 0 THEN <<>>
        ELSE IF text[n] = Malformed THEN upto[n - 1] ELSE Append(upto[n - 1], text[n])
  IN  upto[Len(text)]

\* Booleans are true when they say so.
Parsed(k, text) ==
  CASE k \in BoolKey     -> text = "true"
    [] k = "mergeInputs" -> ParseMergeInputs(text)
    [] OTHER             -> text

Apply(props, cfg) ==
  [k \in Key |-> IF k \in DOMAIN props /\ Valid(k, props[k])
                 THEN Parsed(k, props[k]) ELSE cfg[k]]

\* A file that cannot be read is not applied.
FromFile(file) ==
  IF file.kind = "lines" THEN Apply(LoadProperties(file.lines), Defaults) ELSE Defaults

\* A missing file is generated, where the directory can be written.
AfterStart(file, writable) ==
  IF file.kind = "missing" /\ writable THEN Readable(Template) ELSE file

----------------------------------------------------------------------------
(* The command line: the flags given, and the port name, or "" for none.   *)

\* An empty -merge-inputs is as good as none.
FlagGiven(flags, k) ==
  k \in DOMAIN flags /\ (k = "mergeInputs" => flags[k] # <<>>)

InForce(file, flags, arg) ==
  LET cfg == FromFile(file) IN
  [k \in Key |->
     CASE k = "comPort" -> IF arg # "" THEN arg ELSE cfg[k]
       [] k = "mergeInputs" /\ FlagGiven(flags, k) -> Parsed(k, flags[k])
       [] k \notin {"comPort", "mergeInputs"} /\ FlagGiven(flags, k) -> flags[k]
       [] k = "noBreakDetect" /\ ~FlagGiven(flags, k) -> cfg[k] \/ ~BreakDetectSupported
       [] OTHER -> cfg[k]]

\* The port to open: the one named, or the only one attached; "" for none.
PortName(settings, attached) ==
  IF settings.comPort # "" THEN settings.comPort
  ELSE IF Cardinality(attached) = 1 THEN CHOOSE p \in attached : TRUE ELSE ""
=============================================================================
