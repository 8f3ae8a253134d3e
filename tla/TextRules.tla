----------------------------- MODULE TextRules ------------------------------
(***************************************************************************)
(* Two rules of the code about texts: which of two versions is the newer   *)
(* one (is_update_available, ota_service.c), and which endpoint a request  *)
(* is for (http_server_register_uri and master_request_handler,            *)
(* http_server.c).  A text is a sequence of bytes without the closing NUL. *)
(***************************************************************************)
EXTENDS Integers, SequencesExt

CONSTANTS
  MaxUriLength,   \* MAX_URI_LENGTH, also the size of the buffer
  MaxUris,        \* MAX_URIS
  Letters,        \* bound of the model: the bytes of a URI
  Parts           \* bound of the model: the numbers of a release

ASSUME TextAssumption ==
  /\ MaxUriLength \in Nat \ {0}
  /\ MaxUris \in Nat
  /\ Letters \subseteq 1..255
  /\ Parts \subseteq Nat

At(text, i) == IF i \in DOMAIN text THEN text[i] ELSE 0

\* strcmp: the difference of the first bytes that differ.
Strcmp(a, b) ==
  LET differ == {i \in 1..Len(a) + Len(b) : At(a, i) # At(b, i)}
  IN IF differ = {} THEN 0 ELSE At(a, Min(differ)) - At(b, Min(differ))

-----------------------------------------------------------------------------
(***************************************************************************)
(* Versions.                                                               *)
(***************************************************************************)

\* Mutant of IsUpdateAvailable: whatever differs.
AnyOtherVersion(new, running) == new # <<>> /\ Strcmp(new, running) # 0

\* is_update_available, with the version of the running image.
IsUpdateAvailable(new, running) == new # <<>> /\ Strcmp(new, running) > 0

\* A number as printed: "0" is 48.
Decimal[n \in Nat] ==
  IF n < 10 THEN <<48 + n>> ELSE Append(Decimal[n \div 10], 48 + (n % 10))

\* A release is what a tag of the workflow says: "v1.2.3".
Releases == Parts \X Parts \X Parts

Tag(r) == <<118>> \o Decimal[r[1]] \o <<46>> \o Decimal[r[2]] \o <<46>>
                  \o Decimal[r[3]]

\* What a build may carry behind its tag: nothing, or "-1", "-d" for the
\* "-1-gabc" and "-dirty" of git describe.
BuildMarks == {<<>>, <<45, 49>>, <<45, 100>>}

\* Where two releases part.
Parting(a, b) == Min({i \in 1..3 : a[i] # b[i]})

\* Versions are compared byte by byte.  As long as the numbers
\* in which two of them part have the same number of digits, the node takes
\* the one with the greater number for the newer one, also against a build
\* made after its tag; and never a release for an update of itself.
OrderAgrees ==
  \A a, b \in Releases, s \in BuildMarks :
    IF a = b THEN ~IsUpdateAvailable(Tag(a), Tag(b) \o s)
    ELSE LET i == Parting(a, b) IN
         Len(Decimal[a[i]]) = Len(Decimal[b[i]]) =>
           (IsUpdateAvailable(Tag(a), Tag(b) \o s) <=> a[i] > b[i])

-----------------------------------------------------------------------------
(***************************************************************************)
(* Endpoints.                                                              *)
(***************************************************************************)

\* The bytes of a record's buffer, all zero at first.
Buffer(uri) == [i \in 1..MaxUriLength |-> At(uri, i)]

\* http_server_register_uri: memcpy without the NUL, if it is not too long.
AddRecord(table, uri) ==
  IF Len(uri) > MaxUriLength THEN table ELSE Append(table, Buffer(uri))

Table(uris) == FoldLeft(AddRecord, <<>>, uris)

\* Mutant of Matches: the comparison stops where the record does.
MatchesPrefix(record, uri) ==
  \A i \in 1..MaxUriLength : At(record, i) # 0 => At(uri, i) = At(record, i)

\* strcmp with the record.
Matches(record, uri) == Strcmp(record, uri) = 0

\* master_request_handler: the first record that matches, or none.
Lookup(table, uri) ==
  LET found == {i \in DOMAIN table : Matches(table[i], uri)}
  IN IF found = {} THEN 0 ELSE Min(found)

Uris(n) == UNION {[1..k -> Letters] : k \in 1..n}

\* What is registered: URIs that leave room for the NUL, no more of them than
\* there are records.
UriLists == UNION {[1..n -> Uris(MaxUriLength - 1)] : n \in 0..MaxUris}

\* Every request finds the endpoint of its very URI, be it a part of another
\* one, and any other URI finds none, if the URIs are shorter than the
\* buffer.  (One that is as long passes the test of its length but leaves no
\* room for the NUL.)
LookupFinds ==
  \A uris \in UriLists, uri \in Uris(MaxUriLength + 1) :
    LET i == Lookup(Table(uris), uri) IN
      \/ i = 0 /\ uri \notin Range(uris)
      \/ i \in DOMAIN uris /\ uris[i] = uri /\ \A j \in 1..i - 1 : uris[j] # uri
=============================================================================
