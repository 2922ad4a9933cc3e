--------------------------- MODULE BodySelection ---------------------------
(* Which part of a MIME message is its body, which headers must be fetched   *)
(* before that can be decided, and which parts are its attachments           *)
(* (imap/body.rs, imap/body/representation.rs, imap/attachment.rs,           *)
(* imap/mime.rs).                                                            *)
(*                                                                           *)
(* A BODYSTRUCTURE node is [type, att, id, start, kids]: att is a            *)
(* disposition "attachment", id the Content-ID a leaf carries, start the     *)
(* parameter of a multipart/related.  "bad" is a Content-ID that             *)
(* normalize_content_id refuses, "none" an absent one.  A path is a sequence *)
(* of child numbers.  A header section at the provider is [id, size, ending] *)
(* where ending says whether it ends in the empty line ("separator"), in a   *)
(* line ending only ("line") or in neither ("torn").                         *)
EXTENDS Integers, Sequences, SequencesExt, FiniteSetsExt

CONSTANTS
    Trees,           \* the structures a message may have
    HeaderShapes,    \* the header sections a message may have
    MaxNesting,      \* limits.max_nesting
    MaxMimeParts,    \* limits.max_mime_parts
    MaxHeaderBytes   \* limits.max_header_bytes

VARIABLES
    tree,         \* the message's structure
    mime,         \* its header sections, by path; <<>> is HEADER
    stage,        \* of read_selected, or of the two attachment operations
    plan,         \* needed_headers still to fetch
    header_bytes,
    related_ids,  \* path to Content-ID
    selected,     \* the answer of select
    listed,       \* the parts list_attachments named
    resolved      \* <<>>, or <<the part asked for, the parts found>>

vars == <<tree, mime, stage, plan, header_bytes, related_ids, selected, listed, resolved>>

Multiparts == {"mixed", "alternative", "related"}
IsMultipart(n) == n.type \in Multiparts
NoSelection == [found |-> "none", path |-> <<>>, media |-> "none"]
Malformed == [NoSelection EXCEPT !.found = "error"]
--------------------------------------------------------------------------
(* validate_structure: every node counts, the bodies of attached messages   *)
(* too.                                                                     *)
RECURSIVE Nodes(_), Depth(_)
Nodes(n) == 1 + FoldLeft(LAMBDA sum, kid : sum + Nodes(kid), 0, n.kids)
Depth(n) == 1 + FoldLeft(LAMBDA most, kid : IF Depth(kid) > most THEN Depth(kid) ELSE most,
                         0, n.kids)
ValidateStructure(n) == Nodes(n) <= MaxMimeParts /\ Depth(n) <= MaxNesting

(* text_media_type, leaf: only plain and HTML text can be a body.           *)
TextMediaType(n) == IF n.type \in {"plain", "html"} THEN n.type ELSE "none"
LeafCandidate(n) ==
    IF TextMediaType(n) = "none" THEN NoSelection
    ELSE [found |-> "some", path |-> <<>>, media |-> TextMediaType(n)]

(* The start of a multipart/related; the identity of a child, from its      *)
(* fetched headers or else, for a leaf, from the structure.                 *)
Root(n) == IF n.type = "related" THEN n.start ELSE "none"
StructureContentId(n) == IF IsMultipart(n) THEN "none" ELSE n.id
ChildId(n, path, ids) ==
    IF path \in DOMAIN ids /\ ids[path] # "none" THEN ids[path] ELSE StructureContentId(n)

(* select_part over the children of a multipart: the first candidate, in an *)
(* alternative the first plain one, unless the related root is a candidate. *)
Preferred(selection, candidate, n) ==
    candidate.found = "some"
    /\ \/ selection.found = "none"
       \/ n.type = "alternative" /\ candidate.media = "plain" /\ selection.media # "plain"
RECURSIVE SelectPart(_, _, _)
SelectChildren(n, path, ids) ==
    FoldLeftDomain(
        LAMBDA s, i :
          LET kid == n.kids[i]
              at == Append(path, i)
              candidate == SelectPart(kid, at, ids)
              numbered == [candidate EXCEPT !.path = <<i>> \o @]
              seeking == Root(n) # "none" /\ ~s.matched
              bad == seeking /\ StructureContentId(kid) = "bad"
              matches == seeking /\ ChildId(kid, at, ids) = Root(n)
          IN  IF s.error THEN s
              ELSE IF candidate.found = "error" \/ bad THEN [s EXCEPT !.error = TRUE]
              ELSE IF matches
              THEN [s EXCEPT !.matched = TRUE,
                             !.root = IF candidate.found = "some" THEN numbered ELSE NoSelection]
              ELSE IF Preferred(s.selection, candidate, n) THEN [s EXCEPT !.selection = numbered]
              ELSE s,
        [selection |-> NoSelection, root |-> NoSelection, matched |-> FALSE, error |-> FALSE], n.kids)
SelectPart(n, path, ids) ==
    IF n.att THEN NoSelection
    ELSE IF ~IsMultipart(n) THEN LeafCandidate(n)
    ELSE LET s == SelectChildren(n, path, ids)
         IN  IF Root(n) = "bad" \/ s.error THEN Malformed
             ELSE IF s.root.found = "some" THEN s.root ELSE s.selection

(* select: a message that is one part calls it part 1.                      *)
Select(n, ids) ==
    LET candidate == SelectPart(n, <<>>, ids)
    IN  IF candidate.found = "some" /\ candidate.path = <<>>
        THEN [candidate EXCEPT !.path = <<1>>] ELSE candidate

(* related_headers: the paths whose headers can still change the selection, *)
(* stopping as soon as no later child can.                                  *)
StopsAtAnyPlain(n, s, candidate, grew) ==
    \/ ((n.type # "alternative" /\ Root(n) = "none") \/ s.matched) /\ s.media # "none"
    \/ n.type = "alternative" /\ candidate.media = "plain"
Stops(n, s, candidate, grew) ==
    \/ ((n.type # "alternative" /\ Root(n) = "none") \/ s.matched) /\ s.media # "none"
    \/ n.type = "alternative" /\ ~grew /\ candidate.media = "plain"
RECURSIVE RelatedHeaders(_, _)
PlanChild(n, path, s, i) ==
    LET kid == n.kids[i]
        at == Append(path, i)
        candidate == RelatedHeaders(kid, at)
        asks == Root(n) # "none" /\ IsMultipart(kid)
        id == StructureContentId(kid)
        first == IF s.media = "none" \/ (n.type = "alternative" /\ candidate.media = "plain")
                 THEN candidate.media ELSE s.media
        roots == Root(n) # "none" /\ ~s.matched /\ id = Root(n)
        after == [paths |-> s.paths \o (IF asks THEN <<at>> ELSE <<>>) \o candidate.paths,
                  media |-> IF roots /\ candidate.media # "none" THEN candidate.media ELSE first,
                  matched |-> s.matched \/ roots, stop |-> FALSE,
                  error |-> candidate.error \/ (Root(n) # "none" /\ ~s.matched /\ id = "bad")]
    IN  IF s.stop \/ s.error THEN s
        ELSE [after EXCEPT !.stop = Stops(n, after, candidate,
                                          Len(after.paths) > Len(s.paths))]
RelatedHeaders(n, path) ==
    LET nothing == [paths |-> <<>>, media |-> "none", matched |-> FALSE, stop |-> FALSE,
                    error |-> FALSE]
    IN  IF n.att THEN nothing
        ELSE IF ~IsMultipart(n) THEN [nothing EXCEPT !.media = TextMediaType(n)]
        ELSE IF Root(n) = "bad" THEN [nothing EXCEPT !.error = TRUE]
        ELSE FoldLeftDomain(LAMBDA s, i : PlanChild(n, path, s, i), nothing, n.kids)

(* related_multipart_headers: nothing is planned for a structure that, in   *)
(* any part, breaks a limit.                                                *)
RelatedMultipartHeaders(n) ==
    LET planned == RelatedHeaders(n, <<>>)
    IN  [planned EXCEPT !.error = @ \/ ~ValidateStructure(n)]

(* attachments, attachment_definition: every leaf with the disposition, the *)
(* only part of a message as part 1; one of them when one is wanted.        *)
PartName(path) == IF path = <<>> THEN <<1>> ELSE path
RECURSIVE AttachedLeaves(_, _)
AttachedLeaves(n, path) ==
    IF IsMultipart(n)
    THEN FoldLeftDomain(LAMBDA out, i : out \o AttachedLeaves(n.kids[i], Append(path, i)),
                        <<>>, n.kids)
    ELSE IF n.att THEN <<path>> ELSE <<>>
Attachments(n) == [i \in DOMAIN AttachedLeaves(n, <<>>) |-> PartName(AttachedLeaves(n, <<>>)[i])]
Wanted(n, part) == SelectSeq(Attachments(n), LAMBDA path : path = part)

(* parse_part: at most max_nesting numbers.                                 *)
ParsePart(path) == path # <<>> /\ Len(path) <= MaxNesting
--------------------------------------------------------------------------
RECURSIVE MultipartPaths(_, _)
MultipartPaths(n, path) ==
    IF IsMultipart(n)
    THEN {path} \cup UNION {MultipartPaths(n.kids[i], Append(path, i)) : i \in DOMAIN n.kids}
    ELSE {}

Init ==
    /\ tree \in Trees
    /\ mime \in [MultipartPaths(tree, <<>>) \cup {<<>>} -> HeaderShapes]
    /\ stage = "examined" /\ plan = <<>> /\ header_bytes = 0
    /\ related_ids = << >> /\ selected = NoSelection /\ listed = {} /\ resolved = <<>>

(* read_selected after EXAMINE: the structure is validated whole, then the  *)
(* headers needed are planned.                                              *)
Metadata ==
    /\ stage = "examined"
    /\ LET planned == RelatedMultipartHeaders(tree)
       IN  IF planned.error
           THEN stage' = "failed" /\ UNCHANGED plan
           ELSE stage' = "headers" /\ plan' = <<<<>>>> \o planned.paths
    /\ UNCHANGED <<tree, mime, header_bytes, related_ids, selected, listed, resolved>>

(* validate_headers: a complete block, with at most a Content-ID that can be *)
(* read.                                                                    *)
ValidHeaders(section) == section.ending # "torn" /\ section.id # "bad"

(* headers: one section within what the others left of the budget, its      *)
(* missing separator supplied within it too, and then validated.            *)
SeparatorFits(used) == used + 2 <= MaxHeaderBytes
Headers ==
    /\ stage = "headers" /\ plan # <<>>
    /\ LET section == mime[Head(plan)]
           used == header_bytes + section.size
           normalized == section.ending = "line" /\ section.size > 2
       IN  IF \/ used > MaxHeaderBytes
              \/ normalized /\ ~SeparatorFits(used)
              \/ ~ValidHeaders(section)
           THEN stage' = "failed" /\ UNCHANGED <<plan, header_bytes, related_ids>>
           ELSE /\ header_bytes' = IF normalized THEN used + 2 ELSE used
                /\ related_ids' =
                     IF Head(plan) # <<>> /\ section.id # "none"
                     THEN [p \in DOMAIN related_ids \cup {Head(plan)} |-> mime[p].id]
                     ELSE related_ids
                /\ plan' = Tail(plan) /\ UNCHANGED stage
    /\ UNCHANGED <<tree, mime, selected, listed, resolved>>

SelectBody ==
    /\ stage = "headers" /\ plan = <<>>
    /\ selected' = Select(tree, related_ids)
    /\ stage' = IF selected'.found = "error" THEN "failed" ELSE "selected"
    /\ UNCHANGED <<tree, mime, plan, header_bytes, related_ids, listed, resolved>>

(* list_attachments, and the first read of a transfer of one part.          *)
ListAttachments ==
    /\ stage = "examined"
    /\ IF ValidateStructure(tree)
       THEN stage' = "listed" /\ listed' = ToSet(Attachments(tree))
       ELSE stage' = "failed" /\ UNCHANGED listed
    /\ UNCHANGED <<tree, mime, plan, header_bytes, related_ids, selected, resolved>>

ReadPart(path) ==
    /\ stage = "listed" /\ resolved = <<>>
    /\ resolved' = IF ParsePart(path) THEN <<path, Wanted(tree, path)>> ELSE <<path, <<>>>>
    /\ UNCHANGED <<tree, mime, stage, plan, header_bytes, related_ids, selected, listed>>

Next == Metadata \/ Headers \/ SelectBody \/ ListAttachments \/ (\E p \in listed : ReadPart(p))
Spec == Init /\ [][Next]_vars
--------------------------------------------------------------------------
(* related_headers against select_part: the headers not fetched could not   *)
(* have changed the selection, whatever they say.                           *)
AllIds == [p \in DOMAIN mime \ {<<>>} |-> mime[p].id]
PlanSuffices == stage = "selected" => selected = Select(tree, AllIds)

(* select_part, attachments: the body is text of the message itself, never  *)
(* an attachment and never inside an attached or embedded structure.        *)
RECURSIVE NodeAt(_, _)
NodeAt(n, path) == IF path = <<>> THEN n ELSE NodeAt(n.kids[Head(path)], Tail(path))
Enclosing(path) ==
    {tree} \cup (IF IsMultipart(tree)
                 THEN {NodeAt(tree, SubSeq(path, 1, k)) : k \in 1..Len(path)} ELSE {})
BodyIsOwnText ==
    (stage = "selected" /\ selected.found = "some") =>
       /\ \A n \in Enclosing(selected.path) : ~n.att /\ n.type # "message"
       /\ selected.path \notin ToSet(Attachments(tree))

(* list_attachments, attachment_definitions: a part that was listed is one  *)
(* a transfer accepts and finds, exactly once.                              *)
ListedIsReadable == resolved # <<>> => resolved[2] = <<resolved[1]>>

(* headers: all sections together stay within one header budget, with the   *)
(* separators supplied for them.                                            *)
HeaderBudget == header_bytes <= MaxHeaderBytes
============================================================================
