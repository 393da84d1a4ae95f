-------------------------- MODULE DashboardScreens --------------------------
(***************************************************************************)
(* The screens of the dashboard behind its router: a visit to one of them. *)
(***************************************************************************)
EXTENDS ListPage, CatalogPage, ExportWatch, Autocomplete, AssignmentPanel,
        RecordForm

listParts == <<stored, listVars, optionsVars, form, delete, writes, unseen>>
catalogParts == <<view, reads, astray>>
fieldParts == <<field, value, control, initial, timer, searches, list, popup, sent>>
panelParts == <<kind, assigned, listed, panel, waiting, savingPanel, loads, saves>>
formParts == <<resource, record, values, submitted, saved>>

vars == <<screenVars, company, listParts, catalogParts, exportVars, fieldParts, panelParts,
          formParts>>

Init ==
    /\ ScreenInit
    /\ ListInit /\ CatalogPageInit /\ ExportWatchInit /\ AutocompleteInit /\ AssignmentPanelInit
    /\ RecordFormInit
    /\ screen # "field" => value = None      \* what is not on screen starts in one way
    /\ screen # "panel" => kind = "users"
    /\ screen # "form" => resource = "marketplaces"

Next ==
    \/ ListNext /\ UNCHANGED <<catalogParts, exportVars, fieldParts, panelParts, formParts>>
    \/ CatalogPageNext /\ UNCHANGED <<listParts, exportVars, fieldParts, panelParts, formParts>>
    \/ ExportWatchNext /\ UNCHANGED <<listParts, catalogParts, fieldParts, panelParts, formParts>>
    \/ AutocompleteNext /\ UNCHANGED <<listParts, catalogParts, exportVars, panelParts, formParts>>
    \/ AssignmentPanelNext /\ UNCHANGED <<listParts, catalogParts, exportVars, fieldParts, formParts>>
    \/ RecordFormNext /\ UNCHANGED <<listParts, catalogParts, exportVars, fieldParts, panelParts>>

Spec == Init /\ [][Next]_vars /\ ExportWatchFairness
=============================================================================
