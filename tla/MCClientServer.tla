--------------------------- MODULE MCClientServer ---------------------------
(* Small instances of ClientServer for TLC: what a code may do. *)
EXTENDS ClientServer

CONSTANTS r1, r2

Plan(ranks, v, calls) == [ranks |-> ranks, verbose |-> v, calls |-> calls]
Plain(fns) == {Ask(fn, Nothing, {}) : fn \in fns}
For(fns, shared) == {Ask(fn, shared, {}) : fn \in fns}

Cpl_create(n_part, displacement) ==
  Ask("Cpl_create", ("n_part" :> n_part) @@ ("displacement" :> displacement), {})
OnPart(i)    == "i_part" :> i
Numbered(f)  == "NULL_flag" :> f
InBlock(b)   == "block_id" :> b

Points_set(fn, i, flag) == Ask(fn, OnPart(i) @@ Numbered(flag), {"n_pts"})
Field_create(location, n) ==
  Ask("Field_create", ("target_location" :> location) @@ ("n_component" :> n), {})
Data_set(i, map) == Ask("Field_data_set", OnPart(i) @@ ("map_type" :> map), {})

\* Codes, states, time steps and parameters.
OfType(t) == ("data_type" :> t) @@ ("value" :> "s")
Params ==
  For({"Param_add", "Param_set", "Param_get"}, OfType("CWP_CHAR"))
  \cup For({"Param_add", "Param_set", "Param_get"}, OfType("CWP_DOUBLE"))
  \cup For({"Param_del", "Param_is", "Param_n_get", "Param_list_get"}, "data_type" :> "CWP_CHAR")
  \cup {Ask("Param_reduce", ("data_type" :> "CWP_INT") @@ ("nCode" :> 2), {})}
Codes ==
  Plain({"Properties_dump", "State_update", "State_get", "Time_step_beg", "Time_step_end",
         "Codes_nb_get", "Codes_list_get", "Loc_codes_nb_get", "Loc_codes_list_get",
         "Param_lock", "Param_unlock"})

\* A mesh of n_part parts.
Meshes(n_part, disp) ==
  {Cpl_create(n_part, disp)}
  \cup {Points_set("Mesh_interf_vtx_set", i, i) : i \in Parts(n_part)}
  \cup Plain({"Cpl_del", "Spatial_interp_weights_compute", "Mesh_interf_finalize"})
Deleted == Plain({"Mesh_interf_del"})
UserPoints(n_part, flag) == {Points_set("User_tgt_pts_set", i, flag) : i \in Parts(n_part)}
Settings ==
  Plain({"Cpl_barrier", "Cpl_spatial_interp_algo_get", "Visu_set",
         "Spatial_interp_property_set"})

\* Blocks.
Std(b) == Ask("Mesh_interf_block_std_set", OnPart(0) @@ Numbered(0) @@ InBlock(b), {"n_elts"})
Ho(b)  == Ask("Mesh_interf_block_ho_set",
              OnPart(0) @@ Numbered(1) @@ InBlock(b) @@ ("order" :> 2), {"n_elts"})
F_poly == Ask("Mesh_interf_f_poly_block_set",
              OnPart(0) @@ Numbered(1) @@ InBlock(0), {"n_elts", "connec_idx"})
C_poly == Ask("Mesh_interf_c_poly_block_set",
              OnPart(0) @@ Numbered(0) @@ InBlock(0) @@ ("connec_faces_idx" :> 1),
              {"n_elts", "n_faces", "connec_cells_idx"})
Cellface == Ask("Mesh_interf_from_cellface_set",
                OnPart(0) @@ Numbered(0) @@ ("n_faces" :> 2),
                {"n_cells", "cell_face_idx", "face_vtx_idx"})
Faceedge == Ask("Mesh_interf_from_faceedge_set",
                OnPart(0) @@ Numbered(1) @@ ("n_edges" :> 1), {"n_faces", "face_edge_idx"})
BlockGets ==
  For({"Mesh_interf_block_std_get", "Mesh_interf_block_ho_get",
       "Mesh_interf_f_poly_block_get", "Mesh_interf_c_poly_block_get",
       "std_block_type_get"}, InBlock(0) @@ OnPart(0))
  \cup Plain({"Mesh_interf_block_add"})
  \cup {Ask("Mesh_interf_ho_ordering_from_IJK_set",
            ("n_nodes" :> 3) @@ ("elt_dim" :> 2), {})}
Blocks == {Cpl_create(1, "STATIC"), Std(0), Std(1), Ho(2)} \cup Plain({"Cpl_del", "Mesh_interf_del"})

\* Fields.
FieldGets ==
  Plain({"Field_dof_location_get", "Field_storage_get", "Field_n_components_get",
         "Computed_tgts_bcast_enable", "Involved_srcs_bcast_enable"})
  \cup For({"Field_n_dof_get", "N_uncomputed_tgts_get", "Uncomputed_tgts_get",
            "N_computed_tgts_get", "Computed_tgts_get", "N_involved_srcs_get",
            "Involved_srcs_get"}, OnPart(0))
Exchange(map) ==
  IF map = "SOURCE" THEN Plain({"Field_issend", "Field_wait_issend"})
  ELSE Plain({"Field_irecv", "Field_wait_irecv"})
Fields(n_part, map) ==
  {Cpl_create(n_part, "STATIC"), Field_create("NODE", 2)}
  \cup {Points_set("Mesh_interf_vtx_set", i, 1) : i \in Parts(n_part)}
  \cup {Data_set(i, map) : i \in Parts(n_part)}
  \cup Exchange(map) \cup Plain({"Field_del"})

\* Global and partitioned data.
Global ==
  {Cpl_create(1, "STATIC")} \cup Plain({"Global_data_wait_issend", "Global_data_wait_irecv"})
  \cup {Ask(fn, ("s_entity" :> 8) @@ ("stride" :> s), {"n_entity"}) :
          fn \in {"Global_data_issend", "Global_data_irecv"}, s \in 1..2}
OfExchange == "exch_id" :> 0
PartData ==
  {Cpl_create(1, "STATIC"),
   Ask("Part_data_create", ("n_part" :> 2) @@ ("n_elt" :> [i \in 0..1 |-> i]), {})}
  \cup {Ask(fn, OfExchange @@ ("s_data" :> 8) @@ ("n_components" :> n), {}) :
          fn \in {"Part_data_issend", "Part_data_irecv"}, n \in 1..2}
  \cup For({"Part_data_wait_issend", "Part_data_wait_irecv"}, OfExchange)
  \cup Plain({"Part_data_del"})

AllRanks == {r1, r2}
OneRank ==
  {Plan({r1}, TRUE, Codes \cup Params), Plan({r1}, FALSE, Params),
   Plan({r1}, FALSE, Meshes(2, "DEFORMABLE") \cup Deleted),
   Plan({r1}, TRUE, Meshes(2, "DEFORMABLE") \cup UserPoints(2, 1)),
   Plan({r1}, TRUE, Meshes(1, "STATIC") \cup UserPoints(1, 1) \cup Settings),
   Plan({r1}, TRUE, Blocks), Plan({r1}, FALSE, {Cpl_create(1, "STATIC"), Std(0)} \cup BlockGets),
   Plan({r1}, TRUE, {Cpl_create(1, "STATIC"), F_poly} \cup Deleted),
   Plan({r1}, TRUE, {Cpl_create(1, "STATIC"), C_poly} \cup Deleted),
   Plan({r1}, TRUE, {Cpl_create(1, "STATIC"), Cellface} \cup Deleted),
   Plan({r1}, TRUE, {Cpl_create(1, "STATIC"), Faceedge} \cup Deleted),
   Plan({r1}, TRUE, Fields(2, "SOURCE")), Plan({r1}, FALSE, Fields(1, "TARGET")),
   Plan({r1}, TRUE, {Cpl_create(1, "STATIC"), Std(0), Std(1), Field_create("CELL_CENTER", 1),
                     Data_set(0, "SOURCE")} \cup Exchange("SOURCE") \cup FieldGets),
   Plan({r1}, FALSE, Global), Plan({r1}, FALSE, PartData)}
TwoRanks ==
  {Plan(AllRanks, FALSE, {Cpl_create(1, "STATIC")} \cup Plain({"Cpl_barrier", "Cpl_del", "State_get"})),
   Plan(AllRanks, TRUE, {Cpl_create(1, "DEFORMABLE"), Points_set("Mesh_interf_vtx_set", 0, 1)}
                          \cup Plain({"Spatial_interp_weights_compute", "Mesh_interf_del"}))}
MCPlans == OneRank \cup TwoRanks

\* Calls whose outcome the documentation says.
BarrierPlans == {Plan(AllRanks, FALSE, {Cpl_create(1, "STATIC")} \cup Plain({"Cpl_barrier"}))}
SendRecvPlans ==
  {Plan({r1}, TRUE, Fields(1, "SOURCE") \cup {Data_set(0, "TARGET")})}
MixedPlans == {Plan({r1}, TRUE, {Cpl_create(1, "STATIC"), Std(1), F_poly} \cup Deleted)}
NumberedPlans == {Plan({r1}, TRUE, Meshes(2, "STATIC") \cup UserPoints(2, 0))}
=============================================================================
