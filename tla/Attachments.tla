------------------------------ MODULE Attachments ------------------------------
(***************************************************************************)
(* What becomes of the parts of the last user turn: extractAttachments     *)
(* (packages/engine/src/attachments.ts), the reduction of the prompt       *)
(* (messages.ts) and the gates of doStream and of pi's runTurn around      *)
(* them.  Sizes, media types and payloads are reduced to the classes the   *)
(* code tells apart.                                                       *)
(***************************************************************************)
EXTENDS Naturals, Sequences, FiniteSets, SequencesExt

\* A media type: missing, one of the four images the bridge takes, another
\* image, or none of an image.
Media == {"none", "allowed", "otherImage", "noImage"}

\* A media type is declared under either key.  A payload holds bytes, too many of
\* them, a string that is a web address, or nothing; address is what a request to
\* the part's own url gives, if it has one.
PromptPart ==
    [type : {"text", "file", "image", "image-url", "other"},
     media : Media, key : {"mediaType", "mimeType"},
     data : {"none", "bytes", "tooManyBytes", "webAddress"},
     address : {"none", "unreachable", "tooManyBytes", "allowed", "noImage"}]

Skipped == "skipped"
Taken == "taken"
Unsupported == "unsupported"
Thrown == "thrown"

\* fetchUrlImage and the media type of its answer; the part's own one wins.
fetchUrlImage(part) ==
    IF part.address \in {"unreachable", "tooManyBytes"} THEN Thrown
    ELSE IF part.media = "allowed" \/ part.address = "allowed" THEN Taken
    ELSE Unsupported

ofAddress(part) == IF part.address = "none" THEN Unsupported ELSE fetchUrlImage(part)

\* dataBytes reads any string as base64, so a web address becomes bytes too.
ofFile(part) ==
    IF part.media # "allowed" THEN Unsupported
    ELSE CASE part.data = "tooManyBytes" -> Thrown
           [] part.data \in {"bytes", "webAddress"} -> Taken
           [] OTHER -> ofAddress(part)

ofImage(part) ==
    LET inline == part.type = "image" /\ part.data # "none"
    IN IF part.media \in {"otherImage", "noImage"} THEN Unsupported
       ELSE IF ~inline THEN ofAddress(part)
       ELSE IF part.media = "none" THEN Unsupported
       ELSE IF part.data = "tooManyBytes" THEN Thrown
       ELSE Taken

Fate(part) ==
    CASE part.type = "text" -> Skipped
      [] part.type = "file" -> ofFile(part)
      [] part.type \in {"image", "image-url"} -> ofImage(part)
      [] OTHER -> Unsupported

Fates(content) == {Fate(content[i]) : i \in DOMAIN content}

\* The parts extracted: all that are no text, or none.
extractAttachments(content) ==
    IF Unsupported \in Fates(content) THEN {}
    ELSE {i \in DOMAIN content : Fate(content[i]) = Taken}

ImageMedia(part) == part.media \in {"allowed", "otherImage"}

\* Mutant of promptHasImage: images that arrive as files are not seen.
promptHasImageByType(content) ==
    \E i \in DOMAIN content : content[i].type \in {"image", "image-url"}

promptHasImage(content) ==
    \E i \in DOMAIN content :
        content[i].type \in {"image", "image-url"} \/ ImageMedia(content[i])

\* What each adapter drops from the copy it builds the prompt from.  The filter of
\* doStream looks under one key only.
isImagePartShape(part, adapter) ==
    \/ part.type \in {"image", "image-url"}
    \/ /\ part.type = "file" /\ ImageMedia(part)
       /\ adapter = "opencode" => part.key = "mediaType"

Dropped(content, staged, adapter) ==
    {i \in DOMAIN content : staged # {} /\ isImagePartShape(content[i], adapter)}

\* mapMessages and mapPiPrompt keep the text and warn of every other part left.
Warned(content, dropped) ==
    {i \in DOMAIN content \ dropped : content[i].type # "text"}

Rejected == [runs |-> FALSE, staged |-> {}, warned |-> {}]

\* The turn: rejected before anything is staged or spawned, or run.
Turn(content, imageInput, adapter) ==
    LET staged == IF imageInput THEN extractAttachments(content) ELSE {}
    IN IF \/ ~imageInput /\ promptHasImage(content)
          \/ imageInput /\ Fates(content) \cap {Unsupported, Thrown} # {}
       THEN Rejected
       ELSE [runs |-> TRUE, staged |-> staged,
             warned |-> Warned(content, Dropped(content, staged, adapter))]
=============================================================================
