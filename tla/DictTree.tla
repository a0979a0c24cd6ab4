------------------------------- MODULE DictTree -------------------------------
(***************************************************************************)
(* The dictionary of report fields as the code holds it, twice: the rows     *)
(* and keywords of TreeStructure.ts, which GET dict-type/export turns into a *)
(* tree, and the tree that prisma/seed.ts inserts.  Names are left out: a    *)
(* row is its position in data, which is its id, a keyword its number        *)
(* among those of its row.  One definition per section of a plant's files,   *)
(* hart first and then ff.                                                   *)
(***************************************************************************)
EXTENDS Naturals, Sequences

\* parent_id of every row, in the order of data; 0 for null.
HartRoot == <<0>>
HartBasicRows == <<1, 2, 3, 3, 2, 6, 6, 2, 9, 2, 11, 11, 11, 2, 15, 2, 2, 18, 18, 18, 2>>
HartAlertsRows ==
  <<1, 23, 24, 24, 23, 27, 27, 27, 27, 27, 27, 27, 23, 35, 35, 35, 35, 35, 35, 35>>
HartAlertsContRows ==
  <<1, 43, 44, 44, 44, 44, 43, 49, 49, 43, 52, 52, 52, 52, 52, 52, 52, 52, 43, 61, 61, 61,
   61>>
HartSpecSheetRows == <<1, 66, 66, 66, 66>>
HartMonitorRows == <<1, 71, 71, 71>>
HartDiagnosticsRows == <<1, 1, 1, 1, 1, 1>>
HartScanRows == <<1, 81, 81, 81, 84, 84, 84>>
HartScanSettingsRows == <<1, 88>>
HartScanNotesRows == <<1, 90>>
HartScanSpecSheetRows == <<1, 92, 92, 92, 92>>
HartStepRows == <<1, 97, 98, 97, 100, 100, 100>>
HartStepDataRows == <<1, 104>>
HartStepNotesRows == <<1, 106>>
FfRoot == <<0>>
FfBasicRows == <<108, 109, 110, 110, 109, 113, 113, 113, 109, 117, 117, 109>>
FfAlertsRows ==
  <<108, 121, 122, 122, 122, 121, 126, 126, 126, 121, 130, 130, 130, 130, 121, 135, 135, 121,
   138, 138, 138, 138, 121, 143, 143, 143, 143, 143, 143, 143, 143>>
FfAlertsContRows ==
  <<108, 152, 153, 153, 153, 153, 152, 158, 158, 158, 158, 158, 152, 164, 164>>
FfSpecSheetRows == <<108, 167, 168, 168, 168, 168, 167, 173, 167, 167, 176, 167, 167>>
FfResourceBlockRows == <<108, 180, 181, 180, 180, 180, 185, 180, 187, 187, 187, 180, 191>>
FfMonitorRows ==
  <<108, 193, 193, 195, 195, 193, 198, 198, 193, 201, 201, 201, 193, 205, 205, 193, 208, 208,
   208, 208, 208, 193, 214, 214, 214, 193, 218, 193, 220, 220, 220, 220, 193, 225, 225, 193,
   228, 228, 193, 231, 231, 231, 193, 235, 235>>
FfStepRows == <<108, 238, 239, 238, 241, 241, 241>>
FfStepDataRows == <<108, 245>>
FfStepNotesRows == <<108, 247>>
FfScanRows == <<108, 249, 249, 249, 252, 252, 252>>
FfScanNotesRows == <<108, 256>>
FfScanSpecSheetRows == <<108, 258, 258, 258>>
FfFrictionRows == <<108>>
LateRow == <<18>>

Data ==
  HartRoot \o HartBasicRows \o HartAlertsRows \o HartAlertsContRows \o HartSpecSheetRows
    \o HartMonitorRows \o HartDiagnosticsRows \o HartScanRows \o HartScanSettingsRows \o
    HartScanNotesRows \o HartScanSpecSheetRows \o HartStepRows \o HartStepDataRows \o
    HartStepNotesRows \o FfRoot \o FfBasicRows \o FfAlertsRows \o FfAlertsContRows \o
    FfSpecSheetRows \o FfResourceBlockRows \o FfMonitorRows \o FfStepRows \o
    FfStepDataRows \o FfStepNotesRows \o FfScanRows \o FfScanNotesRows \o
    FfScanSpecSheetRows \o FfFrictionRows \o LateRow

\* How many keywords name each row of a section as their parent: the entries lie
\* together, but for six of hart's at the end of keyWord and row 263's three.
HartBasicKeys == <<0, 0, 6, 8, 0, 2, 7, 0, 4, 0, 6, 2, 5, 0, 5, 1, 0, 3, 6, 3, 2>>
HartAlertsKeys == <<0, 1, 3, 3, 1, 3, 2, 2, 2, 2, 1, 1, 0, 1, 1, 1, 1, 1, 1, 1>>
HartAlertsContKeys == <<0, 0, 2, 2, 3, 3, 2, 1, 1, 0, 1, 1, 1, 2, 1, 1, 1, 1, 0, 1, 1, 1, 1>>
HartSpecSheetKeys == <<0, 14, 9, 14, 6>>
HartMonitorKeys == <<0, 25, 22, 42>>
HartDiagnosticsKeys == <<1, 1, 1, 1, 1, 5>>
HartScanKeys == <<0, 4, 19, 2, 1, 3, 2>>
HartScanSettingsKeys == <<0, 7>>
HartScanNotesKeys == <<0, 1>>
HartScanSpecSheetKeys == <<0, 12, 9, 6, 11>>
HartStepKeys == <<1, 0, 0, 2, 1, 3, 2>>
HartStepDataKeys == <<0, 12>>
HartStepNotesKeys == <<0, 1>>
FfBasicKeys == <<0, 0, 2, 8, 0, 6, 6, 4, 0, 3, 4, 2>>
FfAlertsKeys ==
  <<0, 0, 7, 3, 6, 0, 3, 3, 4, 0, 6, 3, 2, 1, 0, 6, 6, 0, 1, 3, 3, 3, 0, 1, 3, 3, 2, 3, 4, 2,
   2>>
FfAlertsContKeys == <<0, 0, 5, 8, 3, 3, 0, 5, 6, 3, 3, 3, 0, 6, 6>>
FfSpecSheetKeys == <<0, 0, 6, 5, 3, 7, 0, 8, 12, 5, 0, 14, 2>>
FfResourceBlockKeys == <<0, 0, 2, 2, 2, 0, 4, 1, 2, 2, 2, 0, 3>>
FfMonitorKeys ==
  <<0, 21, 0, 6, 16, 0, 17, 12, 0, 2, 2, 8, 0, 3, 3, 0, 2, 3, 2, 2, 2, 0, 2, 2, 5, 0, 6, 0, 2,
   3, 1, 1, 0, 2, 2, 0, 2, 21, 0, 2, 8, 9, 0, 2, 16>>
FfStepKeys == <<0, 0, 0, 2, 1, 3, 2>>
FfStepDataKeys == <<0, 11>>
FfStepNotesKeys == <<0, 1>>
FfScanKeys == <<0, 4, 16, 2, 1, 3, 2>>
FfScanNotesKeys == <<0, 1>>
FfScanSpecSheetKeys == <<0, 10, 10, 9>>
FfFrictionKeys == <<1>>
LateKeys == <<3>>

KeyWords ==
  <<0>> \o HartBasicKeys \o HartAlertsKeys \o HartAlertsContKeys \o HartSpecSheetKeys \o
    HartMonitorKeys \o HartDiagnosticsKeys \o HartScanKeys \o HartScanSettingsKeys \o
    HartScanNotesKeys \o HartScanSpecSheetKeys \o HartStepKeys \o HartStepDataKeys \o
    HartStepNotesKeys \o <<0>> \o FfBasicKeys \o FfAlertsKeys \o FfAlertsContKeys \o
    FfSpecSheetKeys \o FfResourceBlockKeys \o FfMonitorKeys \o FfStepKeys \o
    FfStepDataKeys \o FfStepNotesKeys \o FfScanKeys \o FfScanNotesKeys \o
    FfScanSpecSheetKeys \o FfFrictionKeys \o LateKeys

\* The seed's tree: the sort of a row's datum, 0 when it has none, then its children.
HartBasicTree ==
  <<0, <<0, <<1>>, <<2>>>>, <<0, <<1>>, <<2>>>>, <<0, <<1>>>>, <<0, <<1>>, <<2>>, <<3>>>>,
   <<0, <<1>>>>, <<6>>, <<0, <<1>>, <<2>>, <<3>>, <<4>>>>, <<8>>>>
HartAlertsTree ==
  <<0, <<1, <<1>>, <<2>>>>, <<2, <<1>>, <<2>>, <<3>>, <<4>>, <<5>>, <<6>>, <<7>>>>, <<0,
   <<1>>, <<2>>, <<3>>, <<4>>, <<5>>, <<6>>, <<7>>>>>>
HartAlertsContTree ==
  <<0, <<0, <<1>>, <<2>>, <<3>>, <<4>>>>, <<2, <<1>>, <<2>>>>, <<0, <<1>>, <<2>>, <<3>>,
   <<4>>, <<5>>, <<6>>, <<7>>, <<8>>>>, <<0, <<1>>, <<2>>, <<3>>, <<4>>>>>>
HartSpecSheetTree == <<0, <<1>>, <<2>>, <<3>>, <<4>>>>
HartMonitorTree == <<0, <<1>>, <<2>>, <<3>>>>
HartDiagnosticsTree == <<<<6>>, <<7>>, <<8>>, <<9>>, <<10>>, <<11>>>>
HartScanTree == <<0, <<1>>, <<2>>, <<3, <<1>>, <<2>>, <<3>>>>>>
HartScanSettingsTree == <<0, <<1>>>>
HartScanNotesTree == <<0, <<1>>>>
HartScanSpecSheetTree == <<0, <<1>>, <<2>>, <<3>>, <<4>>>>
HartStepTree == <<16, <<0, <<0>>>>, <<2, <<1>>, <<2>>, <<3>>>>>>
HartStepDataTree == <<0, <<1>>>>
HartStepNotesTree == <<0, <<1>>>>
FfBasicTree ==
  <<0, <<0, <<1>>, <<2>>>>, <<0, <<1>>, <<2>>, <<3>>>>, <<0, <<1>>, <<2>>>>, <<4>>>>
FfAlertsTree ==
  <<0, <<0, <<1>>, <<2>>, <<3>>>>, <<0, <<1>>, <<2>>, <<3>>>>, <<0, <<1>>, <<2>>, <<3>>,
   <<4>>>>, <<0, <<1>>, <<2>>>>, <<0, <<1>>, <<2>>, <<3>>, <<4>>>>, <<0, <<1>>, <<2>>, <<3>>,
   <<4>>, <<5>>, <<6>>, <<7>>, <<8>>>>>>
FfAlertsContTree ==
  <<0, <<0, <<1>>, <<2>>, <<3>>, <<4>>>>, <<0, <<1>>, <<2>>, <<3>>, <<4>>, <<5>>>>, <<0,
   <<1>>, <<2>>>>>>
FfSpecSheetTree ==
  <<0, <<0, <<1>>, <<2>>, <<3>>, <<4>>>>, <<0, <<1>>>>, <<3>>, <<4, <<0>>>>, <<5>>, <<6>>>>
FfResourceBlockTree ==
  <<0, <<0, <<1>>>>, <<2>>, <<3>>, <<0, <<1>>>>, <<5, <<1>>, <<2>>, <<3>>>>, <<0, <<1>>>>>>
FfMonitorTree ==
  <<0, <<1>>, <<0, <<1>>, <<2>>>>, <<0, <<1>>, <<2>>>>, <<0, <<1>>, <<2>>, <<3>>>>, <<0,
   <<1>>, <<2>>>>, <<0, <<1>>, <<2>>, <<3>>, <<4>>, <<5>>>>, <<0, <<1>>, <<2>>, <<3>>>>, <<0,
   <<1>>>>, <<0, <<1>>, <<2>>, <<3>>, <<4>>>>, <<0, <<1>>, <<2>>>>, <<0, <<1>>, <<2>>>>, <<0,
   <<1>>, <<2>>, <<3>>>>, <<0, <<1>>, <<2>>>>>>
FfStepTree == <<0, <<0, <<0>>>>, <<2, <<1>>, <<2>>, <<3>>>>>>
FfStepDataTree == <<0, <<1>>>>
FfStepNotesTree == <<0, <<1>>>>
FfScanTree == <<0, <<1>>, <<2>>, <<3, <<1>>, <<2>>, <<3>>>>>>
FfScanNotesTree == <<0, <<1>>>>
FfScanSpecSheetTree == <<0, <<1>>, <<2>>, <<3>>>>
FfFrictionTree == <<13>>

HartBranch ==
  <<0, HartBasicTree, HartAlertsTree, HartAlertsContTree, HartSpecSheetTree,
    HartMonitorTree>> \o HartDiagnosticsTree \o <<HartScanTree, HartScanSettingsTree,
    HartScanNotesTree, HartScanSpecSheetTree, HartStepTree, HartStepDataTree,
    HartStepNotesTree>>
FfBranch ==
  <<0, FfBasicTree, FfAlertsTree, FfAlertsContTree, FfSpecSheetTree, FfResourceBlockTree,
    FfMonitorTree, FfStepTree, FfStepDataTree, FfStepNotesTree, FfScanTree,
    FfScanNotesTree, FfScanSpecSheetTree, FfFrictionTree>>
SeededFf == <<0, HartBranch, FfBranch>>
===============================================================================
