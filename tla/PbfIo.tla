-------------------------------- MODULE PbfIo --------------------------------
(***************************************************************************)
(* PBF files and the code every command reads them with: src/io.cc, and    *)
(* the exceptions it raises, src/exceptions.h.                             *)
(*                                                                         *)
(* A PBF file is a FileHeader followed by length-prefixed messages.  A     *)
(* file is modelled by what is wholly in it: its header, or NoHeader, and  *)
(* its sequence of messages.  A header or message cut short at the end of  *)
(* a file is not in it, and reading it is a short read.                    *)
(***************************************************************************)
EXTENDS Naturals, Sequences

CONSTANTS
  Files,      \* the paths a command line can name
  Languages,  \* the proto::Language values, LANGUAGE_UNSPECIFIED left out
  Ids,        \* the non-empty openalex_id strings
  Bodies,     \* everything else in a message
  NoHeader,   \* "this file has no whole FileHeader"
  Absent      \* "there is no file at this path"

LANGUAGE_UNSPECIFIED == "LANGUAGE_UNSPECIFIED"
NoId   == ""  \* openalex_id not set, or a message type that has no such field
NoBody == ""  \* the body of a default-constructed message

(***************************************************************************)
(* proto::FileType.  OTHER is a value the enum names and ReadGenericMessage*)
(* has no case for; UNNAMED is a number the enum does not name (a file     *)
(* written with a later citescoop-proto), for which FindValueByNumber      *)
(* returns nullptr.                                                        *)
(***************************************************************************)
DumpTypes     == {"PAGES", "REVISIONS"}
OpenAlexTypes == {"AUTHORS", "INSTITUTIONS", "WORKS"}
FileTypes     == DumpTypes \cup OpenAlexTypes \cup {"UNSPECIFIED", "OTHER", "UNNAMED"}

Header  == [type     : FileTypes,
            count    : Nat,
            language : Languages \cup {LANGUAGE_UNSPECIFIED}]
Message == [id : Ids \cup {NoId}, body : Bodies \cup {NoBody}]
File    == [header : Header \cup {NoHeader}, messages : Seq(Message)]

DefaultHeader  == [type |-> "UNSPECIFIED", count |-> 0, language |-> LANGUAGE_UNSPECIFIED]
DefaultMessage == [id |-> NoId, body |-> NoBody]
EmptyFile      == [header |-> NoHeader, messages |-> <<>>]

\* What has reached the disk of a stream: some first messages, and of a file
\* nothing at all or its header and some first messages.
Parts(messages) == {SubSeq(messages, 1, n) : n \in 0..Len(messages)}
Beginnings(file) ==
  {EmptyFile} \cup {[file EXCEPT !.messages = part] : part \in Parts(file.messages)}

ASSUME PbfIoAssumption ==
  /\ LANGUAGE_UNSPECIFIED \notin Languages
  /\ NoId \notin Ids
  /\ NoHeader \notin Header
  /\ Absent \notin File \cup Seq(Message)

-----------------------------------------------------------------------------
(***************************************************************************)
(* exceptions.h.  A call returns a value or raises: an UnsupportedFileType,*)
(* which the commands catch, or something none of them catches.            *)
(***************************************************************************)
Nothing             == "nothing"
UnsupportedFileType == "UnsupportedFileType"
Uncaught            == "uncaught"
Raises              == {Nothing, UnsupportedFileType, Uncaught}

Value(v)          == [raise |-> Nothing, value |-> v]
Raise(what, dflt) == [raise |-> what, value |-> dflt]

(***************************************************************************)
(* UnsupportedFileType::code().  code() is a non-virtual member of         *)
(* CliException and returns the kExitCode that CliException declares; the  *)
(* kExitCode = kInputError that UserInputException declares hides that     *)
(* member without replacing it.                                            *)
(***************************************************************************)
UnsupportedFileTypeCode == "kGeneralError"

-----------------------------------------------------------------------------
(***************************************************************************)
(* io.cc.  Each operator is the set of ways the call can end on a stream   *)
(* over content (Absent when the ifstream could not be opened).            *)
(***************************************************************************)

(***************************************************************************)
(* MessageReader::ReadMessage<T>, of the citescoop library.  On a short    *)
(* read it returns a default-constructed message -- ReadPbfHeader answers  *)
(* that with "file type not specified or pbf file corrupt" -- or raises an *)
(* exception of its own, which no command catches.                         *)
(***************************************************************************)
ReadMessage(present, message, dflt) ==
  IF present THEN {Value(message)} ELSE {Value(dflt), Raise(Uncaught, dflt)}

HasHeader(content)     == content # Absent /\ content.header # NoHeader
HasMessage(content, n) == content # Absent /\ n \in 1..Len(content.messages)

(***************************************************************************)
(* The two checks of ReadPbfHeader on the header it read.  The trace call  *)
(* dereferences FindValueByNumber's result whatever the log level is, and  *)
(* dies of the null pointer for a number without a name.                   *)
(***************************************************************************)
CheckHeader(read) ==
  CASE read.raise # Nothing             -> read
    [] read.value.type = "UNNAMED"      -> Raise(Uncaught, DefaultHeader)
    [] read.value.type = "UNSPECIFIED"  -> Raise(UnsupportedFileType, DefaultHeader)
    [] OTHER                            -> read

ReadPbfHeader(content) ==
  {CheckHeader(read) :
     read \in ReadMessage(HasHeader(content), content.header, DefaultHeader)}

\* ReadGenericMessage, for the n-th message after the header.
ReadGenericMessage(content, n, type) ==
  IF type \in DumpTypes \cup OpenAlexTypes
  THEN ReadMessage(HasMessage(content, n), content.messages[n], DefaultMessage)
  ELSE {Raise(UnsupportedFileType, DefaultMessage)}
=============================================================================
