--------------------------- MODULE ServerScripts ---------------------------
(***************************************************************************)
(* The functions of the server side: CWP_server_X(a, c) is what            *)
(* CWP_server_X does once it is dispatched on the message of CWP_client_X: *)
(* it reads the arguments, calls CWP_X of the library on the rank of the   *)
(* server, and sends the results.  a holds what has been read, and what    *)
(* the library has answered; c is the t_cwp of the server.                 *)
(*                                                                         *)
(* The library is external here: its answers are chosen, from small sets.  *)
(***************************************************************************)
EXTENDS SocketSteps

CONSTANTS
  Counts,       \* the numbers of things the library may answer
  Strings,      \* the values of the parameters
  StdTypes,     \* the types of standard blocks
  HoTypes       \* the types of high order blocks

InCoupling == ReadNames(<<"local_code_name", "cpl_id">>)
InField    == ReadNames(<<"local_code_name", "cpl_id", "field_id">>)
InGlobal   == ReadNames(<<"local_code_name", "cpl_id", "global_data_id">>)
InPart     == ReadNames(<<"local_code_name", "cpl_id", "part_data_id">>)

Void(fn) == Call(fn, NoResult)

-----------------------------------------------------------------------------
(* Connection and codes. *)

\* Before the loop of CWP_server_run.
CWP_server_accept(a, c) ==
  Read("endianess", Integer) \o Write("endianess", Integer, Opaque) \o Read("flags", Integer)
    \o Keep(NewCwp(N(a, "flags")))

\* The loop of CWP_server_run reads a message and dispatches on its type.
NextMessage == Read("message", Message)

CWP_server_Init(a, c) ==
  Begin(c) \o ReadInts(<<"n_code">>) \o ReadNames(<<"code_name">>)
    \o Read("is_active_rank", Integer * N(a, "n_code")) \o Launch(c, Void("Init"))

CWP_server_Finalize(a, c) ==
  Begin(c) \o Keep([c EXCEPT !.char_param_value = NULL]) \o Void("Finalize") \o LaunchEnd(c)

CWP_server_Properties_dump(a, c) ==
  Begin(c) \o Call("Properties_dump", [size : Counts]) \o LaunchEnd(c)
    \o WriteInts(a, <<"size">>) \o Write("properties", N(a, "size"), Opaque)

CWP_server_State_update(a, c) ==
  Begin(c) \o ReadNames(<<"local_code_name">>) \o ReadInts(<<"state">>)
    \o Launch(c, Void("State_update"))

CWP_server_State_get(a, c) ==
  Begin(c) \o ReadNames(<<"code_name">>)
    \o Launch(c, Void("State_get")) \o WriteInts(a, <<"state">>)

CWP_server_Time_step_beg(a, c) ==
  Begin(c) \o ReadNames(<<"local_code_name">>) \o Read("current_time", Double)
    \o Launch(c, Void("Time_step_beg"))

CWP_server_Time_step_end(a, c) ==
  Begin(c) \o ReadNames(<<"local_code_name">>) \o Launch(c, Void("Time_step_end"))

CWP_server_Codes_nb_get(a, c) ==
  Begin(c) \o Call("Codes_nb_get", [nb_codes : Counts]) \o LaunchEnd(c)
    \o WriteInts(a, <<"nb_codes">>)

CWP_server_Codes_list_get(a, c) ==
  Begin(c) \o Call("Codes_list_get", [nb_codes : Counts]) \o LaunchEnd(c)
    \o WriteInts(a, <<"nb_codes">>) \o WriteList("code_name", N(a, "nb_codes"))

CWP_server_Loc_codes_nb_get(a, c) ==
  Begin(c) \o Call("Loc_codes_nb_get", [nb_codes : Counts]) \o LaunchEnd(c)
    \o WriteInts(a, <<"nb_codes">>)

CWP_server_Loc_codes_list_get(a, c) ==
  Begin(c) \o Call("Loc_codes_list_get", [nb_codes : Counts]) \o LaunchEnd(c)
    \o WriteInts(a, <<"nb_codes">>) \o WriteList("code_name", N(a, "nb_codes"))

-----------------------------------------------------------------------------
(* Control parameters. *)

CWP_server_Param_lock(a, c) ==
  Begin(c) \o ReadNames(<<"code_name">>) \o Launch(c, Void("Param_lock"))

CWP_server_Param_unlock(a, c) ==
  Begin(c) \o ReadNames(<<"code_name">>) \o Launch(c, Void("Param_unlock"))

OfParam == ReadNames(<<"code_name", "param_name">>) \o ReadInts(<<"data_type">>)

\* The size of a value of the type that has been read.
SizeOf(a) ==
  IF "data_type" \in DOMAIN a
  THEN [CWP_DOUBLE |-> Double, CWP_INT |-> Integer, CWP_CHAR |-> Name][a.data_type]
  ELSE Integer
IsString(a) == "data_type" \in DOMAIN a /\ a.data_type = "CWP_CHAR"

\* The server owns the strings whose address it gives to the library.
KeepString(a, c, s) ==
  IF IsString(a) THEN Keep([c EXCEPT !.char_param_value = s]) ELSE <<>>

CWP_server_Param_add(a, c) ==
  Begin(c) \o OfParam \o Read("value", SizeOf(a))
    \o KeepString(a, c, IF c.char_param_value = NULL THEN Val(a, "value")
                        ELSE c.char_param_value)
    \o Launch(c, Void("Param_add"))

CWP_server_Param_set(a, c) ==
  Begin(c) \o OfParam \o Read("value", SizeOf(a)) \o KeepString(a, c, Val(a, "value"))
    \o Launch(c, Void("Param_set"))

CWP_server_Param_del(a, c) ==
  Begin(c) \o OfParam \o Launch(c, Void("Param_del")) \o KeepString(a, c, NULL)

CWP_server_Param_get(a, c) ==
  Begin(c) \o OfParam \o Launch(c, Call("Param_get", [value : Strings]))
    \o Write("value", SizeOf(a), Val(a, "value"))

CWP_server_Param_is(a, c) ==
  Begin(c) \o OfParam \o Launch(c, Call("Param_is", [is_param : {0, 1}]))
    \o WriteInts(a, <<"is_param">>)

CWP_server_Param_n_get(a, c) ==
  Begin(c) \o ReadNames(<<"code_name">>) \o ReadInts(<<"data_type">>)
    \o Launch(c, Call("Param_n_get", [n_param : Counts])) \o WriteInts(a, <<"n_param">>)

CWP_server_Param_list_get(a, c) ==
  Begin(c) \o ReadNames(<<"code_name">>) \o ReadInts(<<"data_type">>)
    \o Launch(c, Call("Param_list_get", [n_param_names : Counts]))
    \o WriteInts(a, <<"n_param_names">>) \o WriteList("param_name", N(a, "n_param_names"))

CWP_server_Param_reduce(a, c) ==
  Begin(c) \o ReadInts(<<"op">>) \o ReadNames(<<"param_name">>)
    \o ReadInts(<<"data_type", "nCode">>) \o ReadList("code_name", N(a, "nCode"))
    \o Launch(c, Void("Param_reduce")) \o Write("res", SizeOf(a), Opaque)

-----------------------------------------------------------------------------
(* Couplings, their meshes and the weights of their interpolation. *)

CWP_server_Cpl_create(a, c) ==
  Begin(c) \o ReadNames(<<"local_code_name", "cpl_id", "coupled_code_name">>)
    \o ReadInts(<<"entities_dim", "comm_type", "spatial_interp", "n_part",
                  "displacement", "recv_freq_type">>)
    \o Launch(c, Void("Cpl_create"))
    \o Keep([c EXCEPT !.coupling =
                NewCoupling(N(a, "n_part"), Val(a, "displacement") = "DEFORMABLE")])

CWP_server_Cpl_barrier(a, c) == Begin(c) \o InCoupling \o Launch(c, Void("Cpl_barrier"))

\* Every array that is kept is freed, the global numbers of points among them.
CWP_server_Cpl_del(a, c) ==
  Begin(c) \o InCoupling \o Launch(c, Void("Cpl_del"))
    \o Free(IF c.coupling = NULL THEN NULL ELSE c.coupling.usr_global_num)
    \o Keep([c EXCEPT !.coupling = NULL])

CWP_server_Cpl_spatial_interp_algo_get(a, c) ==
  Begin(c) \o InCoupling \o Launch(c, Void("Cpl_spatial_interp_algo_get"))
    \o WriteInts(a, <<"spatial_interp_algo">>)

\* All three statuses say that the function has begun.
CWP_server_Visu_set(a, c) ==
  Begin(c) \o InCoupling \o ReadInts(<<"freq", "format">>) \o ReadNames(<<"format_option">>)
    \o Begin(c) \o Void("Visu_set") \o Begin(c)

CWP_server_Spatial_interp_property_set(a, c) ==
  Begin(c) \o InCoupling \o ReadNames(<<"property_name">>) \o ReadInts(<<"property_type">>)
    \o ReadNames(<<"property_value">>) \o Launch(c, Void("Spatial_interp_property_set"))

\* The coordinates of a deformable mesh are read over the last ones, with the
\* sizes that this side keeps.
Coordinates(cpl, j) ==
  Read("vtx_coord", 3 * Double * cpl.n_vtx[j])
    \o (IF cpl.usr_coord = NULL THEN <<>>
        ELSE Read("usr_coord", 3 * Double * cpl.n_user_vtx[j]))

CWP_server_Spatial_interp_weights_compute(a, c) ==
  Begin(c) \o InCoupling
    \o (IF c.coupling.deformable
        THEN EachPart(c.coupling.n_part, LAMBDA j : Coordinates(c.coupling, j))
        ELSE <<>>)
    \o Launch(c, Void("Spatial_interp_weights_compute"))

\* The arrays of user points of a coupling are allocated together.  Sizes are
\* kept for a deformable mesh only, in an array that is not initialized.
UserPoints(a, cpl) ==
  LET i == N(a, "i_part") n_pts == N(a, "n_pts") parts == Parts(cpl.n_part) IN
  [cpl EXCEPT
    !.usr_global_num = IF cpl.usr_coord = NULL THEN [j \in parts |-> NULL] ELSE @,
    !.usr_coord      = Put(@, cpl.n_part, NULL, i, "set"),
    !.n_user_vtx     = IF cpl.deformable THEN Put(@, cpl.n_part, Unset, i, n_pts) ELSE @]

\* The numbers are read over the table of the arrays of the parts, from its
\* first entry: they are found there in place of the arrays of the first parts.
Overwritten(p, i, n) ==
  IF p = NULL THEN NULL
  ELSE [j \in DOMAIN p |-> IF j < n THEN "numbers" ELSE IF j = i THEN "array" ELSE p[j]]

CWP_server_User_tgt_pts_set(a, c) ==
  Begin(c) \o InCoupling \o ReadInts(<<"i_part", "n_pts">>)
    \o Keep([c EXCEPT !.coupling = UserPoints(a, @)])
    \o Read("coord", 3 * Double * N(a, "n_pts")) \o ReadNumbers(a, N(a, "n_pts"))
    \o (IF N(a, "NULL_flag") = 1 THEN <<>>
        ELSE Keep([c EXCEPT !.coupling.usr_global_num =
                     Overwritten(@, N(a, "i_part"), N(a, "n_pts"))]))
    \o Launch(c, Void("User_tgt_pts_set"))

\* Faulty variant: the size a part has had first is kept.
FirstVertexArrays(a, cpl) ==
  LET i == N(a, "i_part") n_pts == N(a, "n_pts")
      known == cpl.n_vtx # NULL /\ cpl.n_vtx[i] # Unset
  IN [cpl EXCEPT
        !.vtx_coord = Put(@, cpl.n_part, NULL, i, "set"),
        !.n_vtx     = IF cpl.deformable /\ ~known THEN Put(@, cpl.n_part, Unset, i, n_pts) ELSE @]

VertexArrays(a, cpl) ==
  LET i == N(a, "i_part") n_pts == N(a, "n_pts") IN
  [cpl EXCEPT
    !.vtx_coord = Put(@, cpl.n_part, NULL, i, "set"),
    !.n_vtx     = IF cpl.deformable THEN Put(@, cpl.n_part, Unset, i, n_pts) ELSE @]

CWP_server_Mesh_interf_vtx_set(a, c) ==
  Begin(c) \o InCoupling \o ReadInts(<<"i_part", "n_pts">>)
    \o Keep([c EXCEPT !.coupling = VertexArrays(a, @)])
    \o Read("coord", 3 * Double * N(a, "n_pts")) \o ReadNumbers(a, N(a, "n_pts"))
    \o Launch(c, Void("Mesh_interf_vtx_set"))

CWP_server_Mesh_interf_finalize(a, c) ==
  Begin(c) \o InCoupling \o Launch(c, Void("Mesh_interf_finalize"))

\* Of the arrays that are freed, only the one of the global numbers of points
\* is not forgotten.
CWP_server_Mesh_interf_del(a, c) ==
  Begin(c) \o InCoupling \o Launch(c, Void("Mesh_interf_del"))
    \o Free(c.coupling.usr_global_num)
    \o Keep([c EXCEPT
         !.coupling.n_user_vtx = IF c.coupling.deformable THEN NULL ELSE @,
         !.coupling.n_vtx      = IF c.coupling.deformable THEN NULL ELSE @,
         !.coupling.vtx_coord = NULL, !.coupling.usr_coord = NULL,
         !.coupling.usr_global_num = IF @ = NULL THEN NULL ELSE Freed])

-----------------------------------------------------------------------------
(* Blocks of elements. *)

CWP_server_Mesh_interf_block_add(a, c) ==
  Begin(c) \o InCoupling \o ReadInts(<<"block_type">>)
    \o Launch(c, Void("Mesh_interf_block_add")) \o WriteInts(a, <<"block_id">>)

CWP_server_std_block_type_get(a, c) ==
  Begin(c) \o InCoupling \o ReadInts(<<"block_id">>)
    \o Launch(c, Call("std_block_type_get", [block_type : StdTypes \cup HoTypes]))
    \o WriteInts(a, <<"block_type">>)

CWP_server_Mesh_interf_block_std_set(a, c) ==
  Begin(c) \o InCoupling \o ReadInts(<<"i_part", "block_id", "n_elts">>)
    \o Call("std_block_type_get", [block_type : StdTypes])
    \o WriteInts(a, <<"block_type">>) \o ReadInts(<<"n_vtx_elt">>)
    \o Read("connec", Integer * N(a, "n_elts") * N(a, "n_vtx_elt"))
    \o ReadNumbers(a, N(a, "n_elts")) \o Launch(c, Void("Mesh_interf_block_std_set"))

CWP_server_Mesh_interf_block_std_get(a, c) ==
  Begin(c) \o InCoupling \o ReadInts(<<"i_part", "block_id">>)
    \o Launch(c, Call("Mesh_interf_block_std_get",
                      [n_elts : Counts, n_vtx_elt : {3}, NULL_flag : {0, 1}]))
    \o WriteInts(a, <<"n_elts", "n_vtx_elt">>)
    \o Write("connec", Integer * N(a, "n_elts") * N(a, "n_vtx_elt"), Opaque)
    \o WriteNumbers(a, N(a, "n_elts"))

CWP_server_Mesh_interf_block_ho_set(a, c) ==
  Begin(c) \o InCoupling \o ReadInts(<<"i_part", "block_id", "n_elts", "order">>)
    \o Call("std_block_type_get", [block_type : HoTypes])
    \o WriteInts(a, <<"block_type">>) \o ReadInts(<<"n_vtx_elt">>)
    \o Read("connec", Integer * N(a, "n_elts") * N(a, "n_vtx_elt"))
    \o ReadNumbers(a, N(a, "n_elts")) \o Launch(c, Void("Mesh_interf_block_ho_set"))

CWP_server_Mesh_interf_block_ho_get(a, c) ==
  Begin(c) \o InCoupling \o ReadInts(<<"i_part", "block_id">>)
    \o Launch(c, Call("Mesh_interf_block_ho_get",
                      [n_elts : Counts, n_vtx_elt : {6}, NULL_flag : {0, 1}]))
    \o WriteInts(a, <<"n_elts", "order", "n_vtx_elt">>)
    \o Write("connec", Integer * N(a, "n_elts") * N(a, "n_vtx_elt"), Opaque)
    \o WriteNumbers(a, N(a, "n_elts"))

CWP_server_Mesh_interf_ho_ordering_from_IJK_set(a, c) ==
  Begin(c) \o InCoupling \o ReadInts(<<"block_type", "order", "n_nodes", "size">>)
    \o Read("ijk_grid", Integer * N(a, "size"))
    \o Launch(c, Void("Mesh_interf_ho_ordering_from_IJK_set"))

CWP_server_Mesh_interf_f_poly_block_set(a, c) ==
  Begin(c) \o InCoupling \o ReadInts(<<"i_part", "block_id", "n_elts">>)
    \o ReadConnec(a, "connec_idx", "connec", N(a, "n_elts"))
    \o ReadNumbers(a, N(a, "n_elts")) \o Launch(c, Void("Mesh_interf_f_poly_block_set"))

CWP_server_Mesh_interf_f_poly_block_get(a, c) ==
  Begin(c) \o InCoupling \o ReadInts(<<"i_part", "block_id">>)
    \o Launch(c, Call("Mesh_interf_f_poly_block_get",
                      [n_elts : Counts, connec_idx : Counts, NULL_flag : {0, 1}]))
    \o WriteInts(a, <<"n_elts">>)
    \o WriteConnec(a, "connec_idx", "connec", N(a, "n_elts"))
    \o WriteNumbers(a, N(a, "n_elts"))

CWP_server_Mesh_interf_c_poly_block_set(a, c) ==
  Begin(c) \o InCoupling \o ReadInts(<<"i_part", "block_id", "n_elts", "n_faces">>)
    \o ReadConnec(a, "connec_faces_idx", "connec_faces", N(a, "n_faces"))
    \o ReadConnec(a, "connec_cells_idx", "connec_cells", N(a, "n_elts"))
    \o ReadNumbers(a, N(a, "n_elts")) \o Launch(c, Void("Mesh_interf_c_poly_block_set"))

CWP_server_Mesh_interf_c_poly_block_get(a, c) ==
  Begin(c) \o InCoupling \o ReadInts(<<"i_part", "block_id">>)
    \o Launch(c, Call("Mesh_interf_c_poly_block_get",
                      [n_elts : Counts, n_faces : Counts, connec_faces_idx : Counts,
                       connec_cells_idx : Counts, NULL_flag : {0, 1}]))
    \o WriteInts(a, <<"n_elts", "n_faces">>)
    \o WriteConnec(a, "connec_faces_idx", "connec_faces", N(a, "n_faces"))
    \o WriteConnec(a, "connec_cells_idx", "connec_cells", N(a, "n_elts"))
    \o WriteNumbers(a, N(a, "n_elts"))

CWP_server_Mesh_interf_from_cellface_set(a, c) ==
  Begin(c) \o InCoupling \o ReadInts(<<"i_part", "n_cells">>)
    \o ReadConnec(a, "cell_face_idx", "cell_face", N(a, "n_cells"))
    \o ReadInts(<<"n_faces">>)
    \o ReadConnec(a, "face_vtx_idx", "face_vtx", N(a, "n_faces"))
    \o ReadNumbers(a, N(a, "n_cells")) \o Launch(c, Void("Mesh_interf_from_cellface_set"))

CWP_server_Mesh_interf_from_faceedge_set(a, c) ==
  Begin(c) \o InCoupling \o ReadInts(<<"i_part", "n_faces">>)
    \o ReadConnec(a, "face_edge_idx", "face_edge", N(a, "n_faces"))
    \o ReadInts(<<"n_edges">>) \o Read("edge_vtx", Integer * 2 * N(a, "n_edges"))
    \o ReadNumbers(a, N(a, "n_faces")) \o Launch(c, Void("Mesh_interf_from_faceedge_set"))

-----------------------------------------------------------------------------
(* Fields. *)

\* The sizes of the parts are not initialized.
CWP_server_Field_create(a, c) ==
  LET parts == Parts(c.coupling.n_part) IN
  Begin(c) \o InField
    \o ReadInts(<<"data_type", "storage", "n_component", "target_location",
                  "exch_type", "visu_status">>)
    \o Launch(c, Void("Field_create"))
    \o Keep([c EXCEPT !.coupling.field =
         [map_type |-> Unset, data |-> [j \in parts |-> NULL],
          size |-> [j \in parts |-> Unset]]])

\* One array for each part, which is moved for either map.
CWP_server_Field_data_set(a, c) ==
  Begin(c) \o InField \o ReadInts(<<"i_part", "map_type", "size">>)
    \o Keep([c EXCEPT !.coupling.field.map_type = Val(a, "map_type"),
                      !.coupling.field.data[N(a, "i_part")] = Val(a, "map_type"),
                      !.coupling.field.size[N(a, "i_part")] = N(a, "size")])
    \o (IF Val(a, "map_type") = "SOURCE" THEN Read("data", Double * N(a, "size")) ELSE <<>>)
    \o Launch(c, Void("Field_data_set"))

CWP_server_Field_issend(a, c) ==
  Begin(c) \o InField
    \o EachPart(c.coupling.n_part, LAMBDA j : Read("data", Double * c.coupling.field.size[j]))
    \o Launch(c, Void("Field_issend"))

CWP_server_Field_irecv(a, c) == Begin(c) \o InField \o Launch(c, Void("Field_irecv"))

CWP_server_Field_wait_issend(a, c) ==
  Begin(c) \o InField \o Launch(c, Void("Field_wait_issend"))

\* The numbers of computed targets of the parts on which the field is defined,
\* which is what the client says; of the others they are not initialized.
CWP_server_Field_wait_irecv(a, c) ==
  LET n_part == N(a, "n_part")
      Defined(j) == "n_entities" \in DOMAIN a /\ a.n_entities[j] # -1
      Computed(j) == IF "n_computed_tgts" \in DOMAIN a THEN a.n_computed_tgts[j] ELSE 0
      Data(j) == IF Defined(j)
                 THEN Write("data", Double * Computed(j) * N(a, "n_component"), "TARGET")
                 ELSE <<>>
  IN Begin(c) \o InField \o ReadInts(<<"map_type", "n_part", "n_component">>)
       \o Read("n_entities", Integer * n_part)
       \o Launch(c, Call("Field_wait_irecv",
                         [n_computed_tgts : [Parts(n_part) -> Counts]]))
       \o Write("n_computed_tgts", Integer * n_part, Val(a, "n_computed_tgts"))
       \o EachPart(n_part, Data)

CWP_server_Field_del(a, c) ==
  Begin(c) \o InField \o Launch(c, Void("Field_del")) \o Keep([c EXCEPT !.coupling.field = NULL])

CWP_server_Field_dof_location_get(a, c) ==
  Begin(c) \o InField \o Launch(c, Void("Field_dof_location_get"))
    \o WriteInts(a, <<"dof_location">>)

CWP_server_Field_storage_get(a, c) ==
  Begin(c) \o InField \o Launch(c, Void("Field_storage_get")) \o WriteInts(a, <<"storage">>)

CWP_server_Field_n_components_get(a, c) ==
  Begin(c) \o InField \o Launch(c, Void("Field_n_components_get"))
    \o WriteInts(a, <<"n_components">>)

CWP_server_Field_n_dof_get(a, c) ==
  Begin(c) \o InField \o ReadInts(<<"i_part">>) \o Launch(c, Void("Field_n_dof_get"))
    \o WriteInts(a, <<"n_dof">>)

CWP_server_Computed_tgts_bcast_enable(a, c) ==
  Begin(c) \o InField \o Launch(c, Void("Computed_tgts_bcast_enable"))

CWP_server_Involved_srcs_bcast_enable(a, c) ==
  Begin(c) \o InField \o Launch(c, Void("Involved_srcs_bcast_enable"))

CWP_server_N_uncomputed_tgts_get(a, c) ==
  Begin(c) \o InField \o ReadInts(<<"i_part">>)
    \o Launch(c, Call("N_uncomputed_tgts_get", [nb_tgts : Counts]))
    \o WriteInts(a, <<"nb_tgts">>)

CWP_server_Uncomputed_tgts_get(a, c) ==
  Begin(c) \o InField \o ReadInts(<<"i_part">>)
    \o Launch(c, Call("Uncomputed_tgts_get", [nb_tgts : Counts]))
    \o WriteInts(a, <<"nb_tgts">>) \o Write("tgts", Integer * N(a, "nb_tgts"), Opaque)

CWP_server_N_computed_tgts_get(a, c) ==
  Begin(c) \o InField \o ReadInts(<<"i_part">>)
    \o Launch(c, Call("N_computed_tgts_get", [nb_tgts : Counts]))
    \o WriteInts(a, <<"nb_tgts">>)

CWP_server_Computed_tgts_get(a, c) ==
  Begin(c) \o InField \o ReadInts(<<"i_part">>)
    \o Launch(c, Call("Computed_tgts_get", [nb_tgts : Counts]))
    \o WriteInts(a, <<"nb_tgts">>) \o Write("tgts", Integer * N(a, "nb_tgts"), Opaque)

CWP_server_N_involved_srcs_get(a, c) ==
  Begin(c) \o InField \o ReadInts(<<"i_part">>)
    \o Launch(c, Call("N_involved_srcs_get", [nb_srcs : Counts]))
    \o WriteInts(a, <<"nb_srcs">>)

CWP_server_Involved_srcs_get(a, c) ==
  Begin(c) \o InField \o ReadInts(<<"i_part">>)
    \o Launch(c, Call("Involved_srcs_get", [nb_srcs : Counts]))
    \o WriteInts(a, <<"nb_srcs">>) \o Write("srcs", Integer * N(a, "nb_srcs"), Opaque)

-----------------------------------------------------------------------------
(* Global data, and data defined on partitions. *)

ReadSizes == Read("s_entity", Size_t) \o Read("stride", Integer) \o Read("n_entity", Integer)

CWP_server_Global_data_issend(a, c) ==
  Begin(c) \o InGlobal \o ReadSizes
    \o Read("send_data", N(a, "s_entity") * N(a, "stride") * N(a, "n_entity"))
    \o Launch(c, Void("Global_data_issend"))

\* The size of the data to receive is kept once the call has been announced.
CWP_server_Global_data_irecv(a, c) ==
  Begin(c) \o InGlobal \o ReadSizes
    \o Launch(c, Keep([c EXCEPT !.coupling.global_data =
                        N(a, "s_entity") * N(a, "stride") * N(a, "n_entity")])
                 \o Void("Global_data_irecv"))

CWP_server_Global_data_wait_issend(a, c) ==
  Begin(c) \o InGlobal \o Launch(c, Void("Global_data_wait_issend"))

CWP_server_Global_data_wait_irecv(a, c) ==
  Begin(c) \o InGlobal \o Launch(c, Void("Global_data_wait_irecv"))
    \o Write("recv_data", c.coupling.global_data, Opaque)
    \o Keep([c EXCEPT !.coupling.global_data = NULL])

\* The identifier is new: insert leaves one that exists as it is.
CWP_server_Part_data_create(a, c) ==
  LET Size(i) == IF "n_elt" \in DOMAIN a THEN a.n_elt[i] ELSE 0 IN
  Begin(c) \o InPart \o ReadInts(<<"exch_type", "n_part">>)
    \o Read("n_elt", Integer * N(a, "n_part"))
    \o EachPart(N(a, "n_part"), LAMBDA i : Read("gnum_elt", Gnum * Size(i)))
    \o Keep(IF c.coupling.part_data # NULL THEN c
            ELSE [c EXCEPT !.coupling.part_data =
                   [n_part |-> N(a, "n_part"), n_elt |-> Val(a, "n_elt"), s_unit |-> NULL]])
    \o Launch(c, Void("Part_data_create"))

CWP_server_Part_data_issend(a, c) ==
  LET p == c.coupling.part_data
      Data(i) == Read("send_data", N(a, "s_data") * N(a, "n_components") * p.n_elt[i])
  IN Begin(c) \o InPart \o ReadInts(<<"exch_id">>) \o Read("s_data", Size_t)
       \o ReadInts(<<"n_components">>) \o EachPart(p.n_part, Data)
       \o Launch(c, Void("Part_data_issend"))

\* Faulty variant: the size of a unit of the last exchange under this exch_id.
UnitOfLast(p, s_unit) == [p EXCEPT !.s_unit = s_unit]

\* The size of a unit of the first exchange under this exch_id.
Unit(p, s_unit) == [p EXCEPT !.s_unit = IF @ = NULL THEN s_unit ELSE @]

CWP_server_Part_data_irecv(a, c) ==
  Begin(c) \o InPart \o ReadInts(<<"exch_id">>) \o Read("s_data", Size_t)
    \o ReadInts(<<"n_components">>)
    \o Launch(c, Keep([c EXCEPT !.coupling.part_data =
                        Unit(@, N(a, "s_data") * N(a, "n_components"))])
                 \o Void("Part_data_irecv"))

CWP_server_Part_data_wait_issend(a, c) ==
  Begin(c) \o InPart \o ReadInts(<<"exch_id">>) \o Launch(c, Void("Part_data_wait_issend"))

CWP_server_Part_data_wait_irecv(a, c) ==
  LET p == c.coupling.part_data
      unit == IF p.s_unit = NULL THEN 0 ELSE p.s_unit
  IN Begin(c) \o InPart \o ReadInts(<<"exch_id">>)
       \o Launch(c, Void("Part_data_wait_irecv"))
       \o EachPart(p.n_part, LAMBDA i : Write("data", unit * p.n_elt[i], Opaque))
       \o Keep([c EXCEPT !.coupling.part_data.s_unit = NULL])

CWP_server_Part_data_del(a, c) ==
  Begin(c) \o InPart \o Launch(c, Void("Part_data_del"))
    \o Keep([c EXCEPT !.coupling.part_data = NULL])

-----------------------------------------------------------------------------
\* The function that the loop of CWP_server_run calls for a message.
CWP_server_msg_handler(fn, a, c) ==
  CASE fn = "Init" -> CWP_server_Init(a, c)
    [] fn = "Finalize" -> CWP_server_Finalize(a, c)
    [] fn = "Properties_dump" -> CWP_server_Properties_dump(a, c)
    [] fn = "State_update" -> CWP_server_State_update(a, c)
    [] fn = "State_get" -> CWP_server_State_get(a, c)
    [] fn = "Time_step_beg" -> CWP_server_Time_step_beg(a, c)
    [] fn = "Time_step_end" -> CWP_server_Time_step_end(a, c)
    [] fn = "Codes_nb_get" -> CWP_server_Codes_nb_get(a, c)
    [] fn = "Codes_list_get" -> CWP_server_Codes_list_get(a, c)
    [] fn = "Loc_codes_nb_get" -> CWP_server_Loc_codes_nb_get(a, c)
    [] fn = "Loc_codes_list_get" -> CWP_server_Loc_codes_list_get(a, c)
    [] fn = "Param_lock" -> CWP_server_Param_lock(a, c)
    [] fn = "Param_unlock" -> CWP_server_Param_unlock(a, c)
    [] fn = "Param_add" -> CWP_server_Param_add(a, c)
    [] fn = "Param_set" -> CWP_server_Param_set(a, c)
    [] fn = "Param_del" -> CWP_server_Param_del(a, c)
    [] fn = "Param_get" -> CWP_server_Param_get(a, c)
    [] fn = "Param_is" -> CWP_server_Param_is(a, c)
    [] fn = "Param_n_get" -> CWP_server_Param_n_get(a, c)
    [] fn = "Param_list_get" -> CWP_server_Param_list_get(a, c)
    [] fn = "Param_reduce" -> CWP_server_Param_reduce(a, c)
    [] fn = "Cpl_create" -> CWP_server_Cpl_create(a, c)
    [] fn = "Cpl_barrier" -> CWP_server_Cpl_barrier(a, c)
    [] fn = "Cpl_del" -> CWP_server_Cpl_del(a, c)
    [] fn = "Cpl_spatial_interp_algo_get" -> CWP_server_Cpl_spatial_interp_algo_get(a, c)
    [] fn = "Visu_set" -> CWP_server_Visu_set(a, c)
    [] fn = "Spatial_interp_property_set" -> CWP_server_Spatial_interp_property_set(a, c)
    [] fn = "Spatial_interp_weights_compute" -> CWP_server_Spatial_interp_weights_compute(a, c)
    [] fn = "User_tgt_pts_set" -> CWP_server_User_tgt_pts_set(a, c)
    [] fn = "Mesh_interf_vtx_set" -> CWP_server_Mesh_interf_vtx_set(a, c)
    [] fn = "Mesh_interf_finalize" -> CWP_server_Mesh_interf_finalize(a, c)
    [] fn = "Mesh_interf_del" -> CWP_server_Mesh_interf_del(a, c)
    [] fn = "Mesh_interf_block_add" -> CWP_server_Mesh_interf_block_add(a, c)
    [] fn = "std_block_type_get" -> CWP_server_std_block_type_get(a, c)
    [] fn = "Mesh_interf_block_std_set" -> CWP_server_Mesh_interf_block_std_set(a, c)
    [] fn = "Mesh_interf_block_std_get" -> CWP_server_Mesh_interf_block_std_get(a, c)
    [] fn = "Mesh_interf_block_ho_set" -> CWP_server_Mesh_interf_block_ho_set(a, c)
    [] fn = "Mesh_interf_block_ho_get" -> CWP_server_Mesh_interf_block_ho_get(a, c)
    [] fn = "Mesh_interf_ho_ordering_from_IJK_set" -> CWP_server_Mesh_interf_ho_ordering_from_IJK_set(a, c)
    [] fn = "Mesh_interf_f_poly_block_set" -> CWP_server_Mesh_interf_f_poly_block_set(a, c)
    [] fn = "Mesh_interf_f_poly_block_get" -> CWP_server_Mesh_interf_f_poly_block_get(a, c)
    [] fn = "Mesh_interf_c_poly_block_set" -> CWP_server_Mesh_interf_c_poly_block_set(a, c)
    [] fn = "Mesh_interf_c_poly_block_get" -> CWP_server_Mesh_interf_c_poly_block_get(a, c)
    [] fn = "Mesh_interf_from_cellface_set" -> CWP_server_Mesh_interf_from_cellface_set(a, c)
    [] fn = "Mesh_interf_from_faceedge_set" -> CWP_server_Mesh_interf_from_faceedge_set(a, c)
    [] fn = "Field_create" -> CWP_server_Field_create(a, c)
    [] fn = "Field_data_set" -> CWP_server_Field_data_set(a, c)
    [] fn = "Field_issend" -> CWP_server_Field_issend(a, c)
    [] fn = "Field_irecv" -> CWP_server_Field_irecv(a, c)
    [] fn = "Field_wait_issend" -> CWP_server_Field_wait_issend(a, c)
    [] fn = "Field_wait_irecv" -> CWP_server_Field_wait_irecv(a, c)
    [] fn = "Field_del" -> CWP_server_Field_del(a, c)
    [] fn = "Field_dof_location_get" -> CWP_server_Field_dof_location_get(a, c)
    [] fn = "Field_storage_get" -> CWP_server_Field_storage_get(a, c)
    [] fn = "Field_n_components_get" -> CWP_server_Field_n_components_get(a, c)
    [] fn = "Field_n_dof_get" -> CWP_server_Field_n_dof_get(a, c)
    [] fn = "Computed_tgts_bcast_enable" -> CWP_server_Computed_tgts_bcast_enable(a, c)
    [] fn = "Involved_srcs_bcast_enable" -> CWP_server_Involved_srcs_bcast_enable(a, c)
    [] fn = "N_uncomputed_tgts_get" -> CWP_server_N_uncomputed_tgts_get(a, c)
    [] fn = "Uncomputed_tgts_get" -> CWP_server_Uncomputed_tgts_get(a, c)
    [] fn = "N_computed_tgts_get" -> CWP_server_N_computed_tgts_get(a, c)
    [] fn = "Computed_tgts_get" -> CWP_server_Computed_tgts_get(a, c)
    [] fn = "N_involved_srcs_get" -> CWP_server_N_involved_srcs_get(a, c)
    [] fn = "Involved_srcs_get" -> CWP_server_Involved_srcs_get(a, c)
    [] fn = "Global_data_issend" -> CWP_server_Global_data_issend(a, c)
    [] fn = "Global_data_irecv" -> CWP_server_Global_data_irecv(a, c)
    [] fn = "Global_data_wait_issend" -> CWP_server_Global_data_wait_issend(a, c)
    [] fn = "Global_data_wait_irecv" -> CWP_server_Global_data_wait_irecv(a, c)
    [] fn = "Part_data_create" -> CWP_server_Part_data_create(a, c)
    [] fn = "Part_data_issend" -> CWP_server_Part_data_issend(a, c)
    [] fn = "Part_data_irecv" -> CWP_server_Part_data_irecv(a, c)
    [] fn = "Part_data_wait_issend" -> CWP_server_Part_data_wait_issend(a, c)
    [] fn = "Part_data_wait_irecv" -> CWP_server_Part_data_wait_irecv(a, c)
    [] fn = "Part_data_del" -> CWP_server_Part_data_del(a, c)
=============================================================================
