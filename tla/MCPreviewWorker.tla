-------------------------- MODULE MCPreviewWorker --------------------------
(* Documents of up to four sources, a source's kind and settings with it. *)
EXTENDS PreviewWorker

CONSTANTS p1, p2, s1, s2

Camera(value) == [kind |-> "camera", settings |-> value]
Colour(value) == [kind |-> "color_source", settings |-> value]
Broken == [kind |-> "camera", settings |-> Refused]

\* Source 1 is a camera whose settings are refused or a colour in its place,
\* 2 a camera, 3 a colour.
Plain == [active |-> p1, scenes |-> <<s1, s2>>, canvas |-> 1,
          visible |-> (s1 :> {2} @@ s2 :> {3}),
          sources |-> (2 :> Camera("first") @@ 3 :> Colour("red"))]
Mixed == [Plain EXCEPT !.scenes = <<s1>>, !.visible = (s1 :> {2, 3}),
                       !.sources[2] = Camera("second")]
OtherProfile == [active |-> p2, scenes |-> <<s2>>, canvas |-> 2,
                 visible |-> (s2 :> {2}), sources |-> (2 :> Camera("first"))]
WithBroken == [Plain EXCEPT !.visible[s2] = {1, 3}, !.sources = 1 :> Broken @@ @]
WithColour == [WithBroken EXCEPT !.sources[1] = Colour("blue")]

MCDocuments == {Plain, Mixed, OtherProfile, WithBroken, WithColour}

(***************************************************************************)
(* What MCDocuments leaves out, because RendersCurrentProject does not     *)
(* hold with it: of a source that no scene shows the renderer takes up the *)
(* new settings and not the instance (preview_sync.rs, 126), and a sync    *)
(* that fails keeps what it has done to earlier sources (preview_sync.rs,  *)
(* 128).  FailingDocuments are about the latter.                           *)
(***************************************************************************)
HiddenSourcesKept(documents) ==
    \A c, d \in documents : \A s \in DOMAIN c.sources \cap DOMAIN d.sources :
        c.sources[s] # d.sources[s] => s \in Shown(c) \cap Shown(d)

RefusedSourcesFirst(documents) ==
    \A c, d \in documents : \A s \in Shown(c) : \A t \in Shown(d) :
        c.sources[s].settings = Refused => s <= t

ASSUME MCDocumentsOrderly ==
    HiddenSourcesKept(MCDocuments) /\ RefusedSourcesFirst(MCDocuments)

\* The user changes camera 2 and adds a source 4 that is refused.
Failing == [Plain EXCEPT !.visible[s2] = {3, 4},
                         !.sources = 4 :> Broken @@ [@ EXCEPT ![2] = Camera("second")]]
FailingDocuments == {Plain, Failing}
=============================================================================
