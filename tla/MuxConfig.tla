------------------------------ MODULE MuxConfig ------------------------------
(***************************************************************************)
(* The multiplexer from the bytes of its configuration file: the           *)
(* constructor of StaticPlatformAdapter reads the file, has it parsed      *)
(* (JsonParser), goes through the document with an iterator and loads the  *)
(* libraries it names (MuxAdapters).                                       *)
(***************************************************************************)
EXTENDS MuxAdapters, JsonParser

CONSTANTS
  FirstFiles,       \* the files of a process where no platform has been yet
  LaterFiles,       \* the files once it has: what is parsed is the same then,
                    \* and only the table matters
  LocationOf,       \* the number of each key: in the order of std::string
  LibraryOf         \* a path -> the library in that file

ASSUME ConfigAssumption ==
  /\ \A k \in DOMAIN LocationOf : LocationOf[k] \in Locations
  /\ \A path \in DOMAIN LibraryOf : LibraryOf[path] \in Libraries
  /\ \A text \in FirstFiles \cup LaterFiles : text \in Seq(0..255)

configVars == <<vars, parseVars>>

ConfigInit == Init /\ Idle

\* The file is there: its bytes are read and handed to json::parse.
ReadFile ==
  /\ "static" \in Kinds
  /\ phase \in {"off", "failed"} /\ reading = "idle"
  /\ \E text \in IF phase = "off" /\ opened = {} THEN FirstFiles ELSE LaterFiles : BeginParse(text)
  /\ UNCHANGED vars

ParseStep == ParseNext /\ UNCHANGED vars

\* c_str: what the bytes of a string say to dlopen, which stops at a null byte.
CString(bytes) ==
  SubSeq(bytes, 1, Min({k \in 1..(Len(bytes) + 1) : Byte(bytes, k) \in {0, EOF}}) - 1)

\* get<std::string>, which throws for any other value, and the file dlopen
\* finds under that path.  (The empty path, for the program itself, is left
\* out.)
LibraryNamed(v) ==
  IF v.kind = "string" /\ CString(v.bytes) \in DOMAIN LibraryOf
  THEN LibraryOf[CString(v.bytes)]
  ELSE NoLibrary

\* The members of an object as the iterator visits them: in the order of keys.
Table(document) ==
  [l \in {LocationOf[k] : k \in DOMAIN document.members} |->
     LibraryNamed(document.members[CHOOSE k \in DOMAIN document.members : LocationOf[k] = l])]

\* begin and end of a null and of an empty array or object are the same.
IteratesNothing(document) ==
  \/ document = NullValue
  \/ document = Array(<<>>)
  \/ document = Object(<<>>)

\* Only an iterator of an object has a key: key() throws for an array and for
\* a value that is none of both.
HasKeys(document) == document.kind = "object"

UseDocument ==
  /\ reading = "accepted"
  /\ \/ IteratesNothing(root) /\ StartWith("static", <<>>)
     \/ HasKeys(root) /\ root # Object(<<>>) /\ StartWith("static", Table(root))
     \/ ~IteratesNothing(root) /\ ~HasKeys(root) /\ StartRefused
  /\ Reset

\* json::parse throws.
DocumentRefused == reading = "rejected" /\ StartRefused /\ Reset

\* There is no file, or the adapter is the exec one, whose script lists the
\* locations or fails.
StartWithoutFile ==
  /\ reading = "idle"
  /\ \/ \E k \in Kinds : StartWith(k, <<>>)
     \/ StartRefused
  /\ UNCHANGED parseVars

Configuring ==
  /\ ConfigureLocation \/ ConfigureThrows
  /\ UNCHANGED parseVars

Serving ==
  /\ \/ \E l \in Locations : CreateModule(l) \/ QueryMetadata(l)
     \/ UseWildPointer
     \/ \E m \in modules : RemoveModule(m)
     \/ \E api \in Apis, level \in Levels :
          SetLog(api, level) \/ SetLogFails(api, level) \/ SetLogCrashes(api, level)
     \/ Destroy \/ DestroyCrashes
  /\ UNCHANGED parseVars

ConfigNext ==
  ReadFile \/ ParseStep \/ UseDocument \/ DocumentRefused \/ StartWithoutFile
  \/ Configuring \/ Serving

ConfigSpec == ConfigInit /\ [][ConfigNext]_configVars

=============================================================================
