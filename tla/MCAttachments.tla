--------------------------- MODULE MCAttachments ---------------------------
(* The way of an attachment: transfers kept between requests and the export to a
   file, which this module extends, and the decoder that turns the slices of a
   part into pages. They are independent of each other here: component says
   whose behaviour it is. *)
EXTENDS Transfers, Export, TLC

VARIABLES
    component,  \* whose behaviour this is
    part, encoding, live, identity, wire_bytes, eof, dec, reading, fetched, given, integrity,
    beyond

decoderVars == <<part, encoding, live, identity, wire_bytes, eof, dec, reading, fetched, given,
        integrity, beyond>>
suiteVars == <<component, vars, exportVars, decoderVars>>

(* Transfers: a session with a quota of two and one with a quota of one, all
   requests on one executor. *)
SessionQuota == [s1 |-> 2, s2 |-> 1]
OneRuntime == [c \in Calls |-> "r1"]
TransferSymmetry == Permutations(Scopes) \cup Permutations(Calls) \cup Permutations(Ids)

(* Parts composed of pieces: quoted-printable with soft line breaks, trailing
   spaces and bare line ends; base64 with padding, line ends and stray groups;
   and two parts that differ, at two endpoints. *)
QpPieces == {<<"x">>, <<"=", "x", "y">>, <<"=", "r", "l">>, <<"s">>, <<"r", "l">>, <<"l">>,
             <<"r">>, <<"=">>, <<"g", "y">>}
QpParts ==
    {<<"x">>} \cup {a \o b \o c \o d : a \in QpPieces, b \in QpPieces, c \in QpPieces,
                                       d \in QpPieces}
Groups == {<<"x", "x", "y", "x">>, <<"y", "x">>, <<"x", "y", "=", "=">>, <<"x", "x", "y", "=">>,
           <<"r", "l">>, <<"y", "x", "x", "y", "x", "y", "y", "y">>}
Base64Parts == {a \o b \o c \o d : a \in Groups, b \in Groups, c \in Groups,
                                   d \in Groups \cup {<<>>}}
EndpointParts == {<<"x", "y", "x">>, <<"y", "y", "x", "x">>}

(* An attachment of three bytes and chunks of it, in and out of place. *)
Whole == <<"a", "b", "c">>
Piece(offset, data, ref, last, sha256) ==
    [offset |-> offset, data |-> data, ref |-> ref, last |-> last, sha256 |-> sha256]
ExportChunks ==
    {Piece(0, <<"a", "b">>, "mine", FALSE, <<>>), Piece(2, <<"c">>, "mine", TRUE, Whole),
     Piece(0, Whole, "mine", TRUE, Whole), Piece(2, <<>>, "mine", FALSE, <<>>),
     Piece(2, <<>>, "mine", TRUE, Whole), Piece(0, <<"c">>, "theirs", FALSE, <<>>),
     Piece(2, <<"c">>, "theirs", TRUE, Whole), Piece(2, <<"c", "c", "c">>, "mine", FALSE, <<>>)}

Q == INSTANCE AttachmentDecoder WITH Parts <- QpParts, Encodings <- {"QuotedPrintable"},
        Identities <- {"e1"}, FetchBytes <- 2, PageBytes <- 1, MaxWireBytes <- 10,
        MaxDecodedBytes <- 6, MaxDecodeSteps <- 11, MaxBeyond <- 1
B == INSTANCE AttachmentDecoder WITH Parts <- Base64Parts, Encodings <- {"Base64"},
        Identities <- {"e1"}, FetchBytes <- 9, PageBytes <- 4, MaxWireBytes <- 24,
        MaxDecodedBytes <- 14, MaxDecodeSteps <- 26, MaxBeyond <- 1
D == INSTANCE AttachmentDecoder WITH Parts <- EndpointParts,
        Encodings <- {"Identity", "QuotedPrintable", "Base64"}, Identities <- {"e1", "e2"},
        FetchBytes <- 2, PageBytes <- 1, MaxWireBytes <- 10, MaxDecodedBytes <- 6,
        MaxDecodeSteps <- 11, MaxBeyond <- 2

-----------------------------------------------------------------------------
(* While another component is at work no transfer and no export has begun, and
   the decoder has no state. *)
Unused == "unused"
DecoderIdle == part = Unused /\ encoding = Unused /\ live = Unused /\ identity = Unused
        /\ wire_bytes = Unused /\ eof = Unused /\ dec = Unused /\ reading = Unused
        /\ fetched = Unused /\ given = Unused /\ integrity = Unused /\ beyond = Unused

ExportIdle == ExportInit /\ \A k \in Names : entries[k] = "none"

SuiteInit ==
    /\ Init
    /\ \/ component = "transfers" /\ ExportIdle /\ DecoderIdle
       \/ component = "export" /\ ExportInit /\ DecoderIdle
       \/ component = "quoted_printable" /\ Q!Init /\ ExportIdle
       \/ component = "base64" /\ B!Init /\ ExportIdle
       \/ component = "endpoints" /\ D!Init /\ ExportIdle

TransfersStep ==
    /\ component = "transfers" /\ Next
    /\ UNCHANGED <<component, exportVars, decoderVars>>
ExportStep ==
    /\ component = "export" /\ ExportNext
    /\ UNCHANGED <<component, vars, decoderVars>>
QuotedPrintableStep ==
    /\ component = "quoted_printable" /\ Q!Next
    /\ UNCHANGED <<component, vars, exportVars>>
Base64Step ==
    /\ component = "base64" /\ B!Next
    /\ UNCHANGED <<component, vars, exportVars>>
EndpointsStep ==
    /\ component = "endpoints" /\ D!Next
    /\ UNCHANGED <<component, vars, exportVars>>

SuiteNext == TransfersStep \/ ExportStep \/ QuotedPrintableStep \/ Base64Step \/ EndpointsStep
SuiteSpec == SuiteInit /\ [][SuiteNext]_suiteVars

-----------------------------------------------------------------------------
ASSUME InstanceAssumption == TransfersAssumption /\ ExportAssumption

(* AttachmentReader: however a part is cut into slices and its bytes into pages,
   the pages are a prefix of what a decoder of the whole part gives
   (PagesArePrefix), the final digest covers exactly the whole (IntegrityIsWhole),
   the limits hold (Bounded), the fast paths do what the scalar ones do
   (FastIsScalar), and two endpoints are never mixed. *)
PagesAreTheAttachment ==
    /\ component = "quoted_printable" =>
           Q!PagesArePrefix /\ Q!IntegrityIsWhole /\ Q!Bounded /\ Q!FastIsScalar
    /\ component = "base64" =>
           B!PagesArePrefix /\ B!IntegrityIsWhole /\ B!Bounded /\ B!FastIsScalar
    /\ component = "endpoints" => D!PagesArePrefix
=============================================================================
