----------------------------- MODULE MC_ShowDimms -----------------------------
(***************************************************************************)
(* ShowDimms for TLC: the DIMM_INFO records the driver may return.  Each  *)
(* record varies one thing from a plain manageable DIMM on socket 0: its  *)
(* socket, manageability, FIS version, App Direct interface format code, *)
(* SKU, or an ErrorMask bit.                                              *)
(***************************************************************************)
EXTENDS ShowDimms

Base == [socket |-> 0, manageable |-> TRUE, fis20 |-> FALSE, appDirect |-> FALSE,
         errorMask |-> {}, sku |-> "s1"]

MCDimmInfos ==
    { Base,
      [Base EXCEPT !.socket = 1],
      [Base EXCEPT !.manageable = FALSE],
      [Base EXCEPT !.fis20 = TRUE],
      [Base EXCEPT !.fis20 = TRUE, !.errorMask = {"SmartAndHealth"}],
      [Base EXCEPT !.errorMask = {"MemInfoPage"}],
      [Base EXCEPT !.appDirect = TRUE],
      [Base EXCEPT !.sku = "s2"],
      [Base EXCEPT !.manageable = FALSE, !.sku = "s2"] }
=============================================================================
