---------------------------- MODULE MCDocuments ----------------------------
(***************************************************************************)
(* Documents on small instances.                                           *)
(***************************************************************************)
EXTENDS Documents, TLC

MCLengths == {0, 1, 15}
MCFaults == FaultKinds

CONSTANTS u1, u2, t1, t2, p1

All == {"rag.upload", "vision.analyze", "vision.extract"}

In(door, t, p, index, file, length, permissions) ==
  [ door |-> door, tenant |-> t, project |-> p, index_into_rag |-> index, file |-> file,
    length |-> length, permissions |-> permissions ]

\* Every door with a text that can be indexed, and each reason to refuse one at
\* a door where it counts.
AnyInput ==
  { In(d, t1, p1, TRUE, "fine", 15, All) :
      d \in {"upload", "rag_index", "analyze", "ocr", "extract", "vision_extract"} }
  \cup
  { In("upload", t2, p1, FALSE, "fine", 1, All),
    In("rag_index", t1, NoProject, FALSE, "fine", 1, All),
    In("rag_index", t1, p1, FALSE, "malformed", 1, All),
    In("upload", t1, p1, FALSE, "size", 15, All),
    In("upload", t1, p1, FALSE, "fine", 0, All),
    In("analyze", t1, p1, TRUE, "fine", 15, {"vision.analyze"}),
    In("ocr", t1, NoProject, TRUE, "fine", 15, {"vision.analyze"}),
    In("ocr", t1, BadProject, TRUE, "fine", 15, All),
    In("vision_extract", t1, BadProject, TRUE, "fine", 15, All),
    In("extract", t1, NoProject, TRUE, "fine", 15, All),
    In("extract", t1, p1, TRUE, "malformed", 15, All),
    In("extract", t1, p1, TRUE, "type", 15, All),
    In("extract", t1, p1, TRUE, "fine", 0, {"vision.extract"}),
    In("analyze", t1, p1, TRUE, "fine", 15, {"rag.upload"}),
    In("vision_analyze", t2, p1, TRUE, "size", 15, All),
    In("vision_analyze", t2, p1, TRUE, "fine", 1, All) }
\* The second upload is there for what a search mixes.
MCInputs ==
  (u1 :> AnyInput) @@
  (u2 :> { In("upload", t, p1, FALSE, "fine", 15, All) : t \in {t1, t2} })
=============================================================================
